------------------------------- MODULE Console -------------------------------
(***************************************************************************)
(* The web console outside the page of one workflow (module Workbench):    *)
(* signing in, changing views, and what the views Agents, Channels and     *)
(* History, the template gallery, the list of workflows and the voice      *)
(* buttons keep while their requests are in flight (App.tsx and the files  *)
(* of frontend/src/features).                                              *)
(*                                                                         *)
(* Of a list the model keeps the ids, of a transcript whose it is.  One    *)
(* user, in one tab, is all there is.                                      *)
(***************************************************************************)
EXTENDS Naturals, FiniteSets

CONSTANTS
  Agents, Bindings,  \* ids, all that will ever be given
  First,             \* those there are at the start
  Runs,              \* runs in the history
  None,
  MaxClicks,         \* bound of the model: what the user does
  Faults             \* {} or {"call"}: requests and answers may be lost

ASSUME ConsoleAssumption ==
  /\ First \subseteq Agents \cup Bindings
  /\ Agents \cap Bindings = {} /\ None \notin Agents \cup Bindings \cup Runs
  /\ None # "save"
  /\ MaxClicks \in Nat
  /\ Faults \subseteq {"call"}

\* What a view fetches: agents for the roster, bindings and the status of their bots.
Lists == {"agents", "bindings", "status"}

\* Buttons that are busy while their request is in flight, and where they are.
Place == [login |-> "login", save |-> "studio", connect |-> "channels", use |-> "templates",
          generate |-> "builder", explain |-> "builder", speak |-> "builder",
          voice |-> "builder"]
Buttons == DOMAIN Place

\* The builder shows a list of the workflows until one is loaded.
OnList == {"generate", "voice"}
OnWorkflow == {"explain", "speak"}

\* generate can also be typed (Ctrl-Enter), and of the templates only the one being
\* created is disabled.
Guarded == Buttons \ {"generate", "use"}

Views == {"templates", "studio", "builder", "history", "channels"}

VARIABLES
  retired,    \* DEMO_RETIRED
  token,      \* localStorage has a token
  place,      \* the page or the view that is mounted
  opened,     \* the builder shows a workflow, not the list
  rows,       \* the backend: ids of agents and bindings
  shown,      \* shown[l]: the ids in list l
  editing,    \* editingId
  transcript, \* sel, and the run whose messages are shown
  busy,       \* busy[b]
  listening,  \* a recorder runs
  calls,      \* requests in flight
  clicks,
  mixed       \* history: lists and transcripts whose requests overlapped or failed since
              \* the view was opened

server == <<retired, rows>>
view == <<opened, shown, editing, transcript, busy, listening>>
vars == <<token, place, server, view, calls, clicks, mixed>>

Authed == place \in Views
AllLists == Lists \cup {"transcript"}

\* Requests that change a list; if the view was left, nobody fetches it again.
Changes == {"delete", "connect"}

NothingShown == [l \in Lists |-> {}]
NoTranscript == [sel |-> None, of |-> None]
Idle == [b \in Buttons |-> FALSE]

Call(kind, of) ==
  [id |-> clicks', kind |-> kind, of |-> of, answer |-> {}, at |-> "sent",
   gone |-> FALSE,  \* the view was left
   out |-> FALSE]   \* the console was left

\* refresh and the like, of the lists ls.
Fetch(ls) == {Call(l, None) : l \in ls}

InFlight(kind) == {c \in calls : c.kind = kind /\ ~c.gone}
Together(ls) == {l \in ls : InFlight(l) # {}}

Click == clicks < MaxClicks /\ clicks' = clicks + 1

\* What the effects of a view fetch when it is mounted.
Mounts(p) == CASE p = "studio" -> {"agents"}
               [] p = "channels" -> {"bindings", "status"}
               [] OTHER -> {}

Stored(l) == rows \cap (IF l = "agents" THEN Agents ELSE Bindings)

\* The program starts at the landing page or, with a token, in the templates; the console
\* may also have been in use for a while, in any view.
Init ==
  /\ retired \in BOOLEAN
  /\ token \in BOOLEAN
  /\ place \in IF ~retired /\ token THEN Views ELSE {"landing"}
  /\ rows = First
  /\ shown = [l \in Lists |-> IF l \in Mounts(place) THEN Stored(l) ELSE {}]
  /\ opened = FALSE /\ editing = None
  /\ transcript = NoTranscript /\ busy = Idle
  /\ listening = FALSE
  /\ calls = {} /\ clicks = 0 /\ mixed = {}

-----------------------------------------------------------------------------
(* Getting about.                                                          *)

\* Its view is left for p, and with it perhaps the console.
Leave(c, p) == [c EXCEPT !.gone = TRUE, !.out = @ \/ p \notin Views]

\* Another view or page: React drops the state of the one left.  Nothing stops a
\* request (or a recorder).
Show(p, rest) ==
  /\ place' = p
  /\ opened' = FALSE /\ shown' = NothingShown /\ editing' = None
  /\ transcript' = NoTranscript /\ busy' = Idle
  /\ listening' = FALSE
  /\ calls' = {Leave(c, p) : c \in rest}
              \cup Fetch(Mounts(p))
  /\ mixed' = {}

Navigate ==
  /\ Click
  /\ \/ \E v \in Views \ {place} : Authed /\ Show(v, calls)
     \/ place = "landing" /\ Show("login", calls)
     \/ place = "login" /\ Show("landing", calls)
  /\ UNCHANGED <<server, token>>

SignOut ==
  /\ Authed /\ Click
  /\ token' = FALSE
  /\ Show("landing", calls)
  /\ UNCHANGED server

\* The effect that clears an old token of a demo that is retired.
Retire ==
  /\ retired /\ token
  /\ token' = FALSE
  /\ UNCHANGED <<server, place, view, calls, clicks, mixed>>

-----------------------------------------------------------------------------
(* What the user does in a view.                                           *)

\* The ids suffice for one more that is created (a bound of the model).
Room(kind, ids) ==
  Cardinality({c \in calls : c.kind = kind /\ c.of = None /\ c.at = "sent"})
    < Cardinality(ids \ rows)

\* Mutant of Press: no button is disabled while it is busy.
PressUnguarded(b) ==
  /\ Click
  /\ place = Place[b] /\ b # "voice"
  /\ b = "login" => ~retired
  /\ b \in OnList => ~opened
  /\ b \in OnWorkflow => opened
  /\ b = "save" /\ editing = None => Room("save", Agents)
  /\ b = "connect" => Room("connect", Bindings)
  /\ busy' = [busy EXCEPT ![b] = TRUE]
  /\ calls' = calls \cup {Call(b, IF b = "save" THEN editing ELSE None)}
  /\ UNCHANGED <<server, token, place, opened, shown, editing, transcript, listening, mixed>>

\* Mutant of Press: one can still sign in to a demo that is retired.
PressRetired(b) ==
  /\ Click
  /\ place = Place[b] /\ b # "voice"
  /\ b \in OnList => ~opened
  /\ b \in OnWorkflow => opened
  /\ b \in Guarded => ~busy[b]
  /\ b = "save" /\ editing = None => Room("save", Agents)
  /\ b = "connect" => Room("connect", Bindings)
  /\ busy' = [busy EXCEPT ![b] = TRUE]
  /\ calls' = calls \cup {Call(b, IF b = "save" THEN editing ELSE None)}
  /\ UNCHANGED <<server, token, place, opened, shown, editing, transcript, listening, mixed>>

\* A guarded button is disabled while it is busy.
Press(b) ==
  /\ Click
  /\ place = Place[b] /\ b # "voice"
  /\ b = "login" => ~retired
  /\ b \in OnList => ~opened
  /\ b \in OnWorkflow => opened
  /\ b \in Guarded => ~busy[b]
  /\ b = "save" /\ editing = None => Room("save", Agents)
  /\ b = "connect" => Room("connect", Bindings)
  /\ busy' = [busy EXCEPT ![b] = TRUE]
  /\ calls' = calls \cup {Call(b, IF b = "save" THEN editing ELSE None)}
  /\ UNCHANGED <<server, token, place, opened, shown, editing, transcript, listening, mixed>>

\* edit, startNew
Edit ==
  /\ Click
  /\ place = "studio"
  /\ \E a \in shown["agents"] \cup {None} : a # editing /\ editing' = a
  /\ UNCHANGED <<server, token, place, opened, shown, transcript, busy, listening, calls, mixed>>

\* A workflow is loaded, or the one on the page deleted (module Workbench).  Both pages
\* belong to one component: its state stays.
Open ==
  /\ Click
  /\ place = "builder"
  /\ opened' = ~opened
  /\ UNCHANGED <<server, token, place, shown, editing, transcript, busy, listening, calls, mixed>>

\* The crosses of the roster and of the list of bindings.
Delete ==
  /\ Click
  /\ \E i \in shown["agents"] \cup shown["bindings"] :
       calls' = calls \cup {Call("delete", i)}
  /\ UNCHANGED <<server, token, place, view, mixed>>

\* Mutant of Select: the effect does not depend on sel.
SelectOnce(r) ==
  /\ Click
  /\ place = "history" /\ r # transcript.sel
  /\ transcript' = [transcript EXCEPT !.sel = r]
  /\ calls' = IF transcript.sel = None THEN calls \cup {Call("transcript", r)} ELSE calls
  /\ mixed' = mixed \cup Together({"transcript"})
  /\ UNCHANGED <<server, token, place, opened, shown, editing, busy, listening>>

Select(r) ==
  /\ Click
  /\ place = "history" /\ r # transcript.sel
  /\ transcript' = [transcript EXCEPT !.sel = r]
  /\ calls' = calls \cup {Call("transcript", r)}
  /\ mixed' = mixed \cup Together({"transcript"})
  /\ UNCHANGED <<server, token, place, opened, shown, editing, busy, listening>>

\* toggleVoice: the first tap asks for the microphone, the second one stops.
Tap ==
  /\ Click
  /\ place = "builder" /\ ~opened /\ ~busy["voice"]
  /\ IF listening
     THEN /\ listening' = FALSE
          /\ busy' = [busy EXCEPT !["voice"] = TRUE]
          /\ calls' = calls \cup {Call("voice", None)}
     ELSE /\ calls' = calls \cup {Call("mic", None)}
          /\ UNCHANGED <<listening, busy>>
  /\ UNCHANGED <<server, token, place, opened, shown, editing, transcript, mixed>>

-----------------------------------------------------------------------------
(* The backend.                                                            *)

Answers(c, d) == calls' = (calls \ {c}) \cup {d}
Served(c, answer) == Answers(c, [c EXCEPT !.at = "served", !.answer = answer])

\* An agent is created or updated.
ServeSave(c) ==
  /\ c.kind = "save"
  /\ \/ c.of = None /\ (\E a \in Agents \ rows : rows' = rows \cup {a}) /\ Served(c, {})
     \/ c.of \in rows /\ UNCHANGED rows /\ Served(c, {})
     \/ c.of \in Agents \ rows /\ UNCHANGED rows /\ Answers(c, [c EXCEPT !.at = "refused"])

ServeConnect(c) ==
  /\ c.kind = "connect"
  /\ \E b \in Bindings \ rows : rows' = rows \cup {b}
  /\ Served(c, {})

\* A delete that is refused, or fails, resolves as well: api.ts does not look.
ServeDelete(c) ==
  /\ c.kind = "delete"
  /\ rows' = rows \ {c.of} \/ UNCHANGED rows
  /\ Served(c, {})

\* Everything that only reads.  The bots are those of the bindings (module Lifespan).
ServeRead(c) ==
  /\ c.kind \notin {"save", "connect", "delete"}
  /\ Served(c, Stored(c.kind))
  /\ UNCHANGED rows

Serve(c) ==
  /\ c.at = "sent"
  /\ ServeSave(c) \/ ServeConnect(c) \/ ServeDelete(c) \/ ServeRead(c)
  /\ UNCHANGED <<retired, token, place, view, clicks, mixed>>

\* One loss per visit of a view is enough (a bound of the model).
Lose(c) ==
  /\ "call" \in Faults /\ ~(AllLists \subseteq mixed)
  /\ c.at \in {"sent", "served"}
  /\ Answers(c, [c EXCEPT !.at = "refused"])
  /\ mixed' = mixed \cup AllLists
  /\ UNCHANGED <<server, token, place, view, clicks>>

-----------------------------------------------------------------------------
(* Answers.                                                                *)

\* The request is over, and those of ls follow it.
Then(c, ls) ==
  /\ clicks' = clicks
  /\ calls' = (calls \ {c}) \cup {[d EXCEPT !.id = c.id] : d \in Fetch(ls)}
  /\ mixed' = mixed \cup IF c.gone /\ c.kind \in Changes THEN Lists ELSE Together(ls)

\* setToken and onSuccess, wherever the user is by now.
SignedIn(c) ==
  /\ c.kind = "login" /\ c.at = "served"
  /\ token' = TRUE
  /\ IF Authed THEN Then(c, {}) /\ UNCHANGED <<place, view>>
     ELSE Show("templates", calls \ {c}) /\ UNCHANGED clicks
  /\ UNCHANGED server

\* onOpen of a workflow that was created, in whatever view of the console the user is.
Opened(c) ==
  /\ c.kind \in {"use", "generate"} /\ c.at = "served" /\ ~c.out
  /\ place # "builder" /\ Show("builder", calls \ {c})
  /\ UNCHANGED <<server, token, clicks>>

\* save: the agent is stored, and the roster is fetched before the form is cleared.
Saved(c) ==
  /\ c.kind = "save" /\ c.at = "served"
  /\ mixed' = mixed \cup IF c.gone THEN Lists ELSE Together({"agents"})
  /\ Answers(c, [c EXCEPT !.kind = "agents", !.of = "save", !.at = "sent"])
  /\ UNCHANGED <<server, token, place, view, clicks>>

\* A list is answered; if save has fetched it, startNew follows.
Listed(c) ==
  /\ c.kind \in Lists /\ c.at \in {"served", "refused"}
  /\ Then(c, {})
  /\ IF c.gone THEN UNCHANGED view
     ELSE /\ shown' = IF c.at = "served" THEN [shown EXCEPT ![c.kind] = c.answer] ELSE shown
          /\ IF c.of = "save" THEN editing' = None /\ busy' = [busy EXCEPT !["save"] = FALSE]
             ELSE UNCHANGED <<editing, busy>>
          /\ UNCHANGED <<opened, transcript>>
  /\ UNCHANGED <<server, token, place, listening>>

\* Mutant of Changed: no refresh follows.
ChangedStill(c) ==
  /\ c.kind \in Changes /\ c.at = "served"
  /\ Then(c, {})
  /\ busy' = IF c.kind = "connect" /\ ~c.gone THEN [busy EXCEPT !["connect"] = FALSE] ELSE busy
  /\ UNCHANGED <<server, token, place, opened, shown, editing, transcript, listening>>

\* What was deleted or connected is followed by a refresh.
Changed(c) ==
  /\ c.kind \in Changes /\ c.at = "served"
  /\ Then(c, IF c.gone THEN {} ELSE IF c.of \in Agents THEN {"agents"} ELSE {"bindings", "status"})
  /\ busy' = IF c.kind = "connect" /\ ~c.gone THEN [busy EXCEPT !["connect"] = FALSE] ELSE busy
  /\ UNCHANGED <<server, token, place, opened, shown, editing, transcript, listening>>

Told(c) ==
  /\ c.kind = "transcript" /\ c.at = "served"
  /\ transcript' = IF c.gone THEN transcript ELSE [transcript EXCEPT !.of = c.of]
  /\ Then(c, {})
  /\ UNCHANGED <<server, token, place, opened, shown, editing, busy, listening>>

\* getUserMedia resolves, whether or not anybody still waits for it.
MicOpens(c) ==
  /\ c.kind = "mic" /\ c.at = "served"
  /\ listening' = (listening \/ ~c.gone)
  /\ Then(c, {})
  /\ UNCHANGED <<server, token, place, opened, shown, editing, transcript, busy>>

\* Mutant of Over: generate ends its try, not its finally, with setGenBusy(false).
OverGenerating(c) ==
  /\ \/ c.at = "served" /\ c.kind \in {"explain", "speak", "voice"}
     \/ c.at = "served" /\ c.kind \in {"use", "generate"} /\ (c.out \/ place = "builder")
     \/ c.at = "refused" /\ c.kind \notin Lists
  /\ busy' = IF c.kind \in Buttons /\ ~c.gone /\ ~(c.kind = "generate" /\ c.at = "refused")
             THEN [busy EXCEPT ![c.kind] = FALSE] ELSE busy
  /\ Then(c, {})
  /\ UNCHANGED <<server, token, place, opened, shown, editing, transcript, listening>>

\* The others only stop being busy (what is spoken, when it has been played), and so
\* does everything that fails.
Over(c) ==
  /\ \/ c.at = "served" /\ c.kind \in {"explain", "speak", "voice"}
     \/ c.at = "served" /\ c.kind \in {"use", "generate"} /\ (c.out \/ place = "builder")
     \/ c.at = "refused" /\ c.kind \notin Lists
  /\ busy' = IF c.kind \in Buttons /\ ~c.gone THEN [busy EXCEPT ![c.kind] = FALSE] ELSE busy
  /\ Then(c, {})
  /\ UNCHANGED <<server, token, place, opened, shown, editing, transcript, listening>>

-----------------------------------------------------------------------------

User == \/ Navigate \/ SignOut \/ Open \/ Edit \/ Delete \/ Tap
        \/ \E b \in Buttons : Press(b)
        \/ \E r \in Runs : Select(r)

Proceed(c) ==
  \/ Serve(c) \/ SignedIn(c) \/ Opened(c) \/ Saved(c) \/ Listed(c) \/ Changed(c) \/ Told(c)
  \/ MicOpens(c) \/ Over(c)

Next == User \/ Retire \/ \E c \in calls : Proceed(c) \/ Lose(c)

Spec == Init /\ [][Next]_vars

(* Every request is answered or fails; the user need do nothing. *)
FairSpec ==
  Spec /\ \A i \in 1 .. MaxClicks : WF_vars(\E c \in calls : c.id = i /\ Proceed(c))

-----------------------------------------------------------------------------
(* Properties.                                                             *)

Ids == Agents \cup Bindings
Kinds == Buttons \cup Lists \cup {"delete", "transcript", "mic"}

Requests ==
  [id : Nat, kind : Kinds, of : Ids \cup Runs \cup {None, "save"}, answer : SUBSET Ids,
   at : {"sent", "served", "refused"}, gone : BOOLEAN, out : BOOLEAN]

TypeOK ==
  /\ retired \in BOOLEAN /\ token \in BOOLEAN
  /\ place \in Views \cup {"landing", "login"}
  /\ rows \subseteq Ids
  /\ shown \in [Lists -> SUBSET Ids] /\ shown["agents"] \subseteq Agents
  /\ opened \in BOOLEAN /\ editing \in Agents \cup {None}
  /\ transcript \in [sel : Runs \cup {None}, of : Runs \cup {None}]
  /\ busy \in [Buttons -> BOOLEAN]
  /\ listening \in BOOLEAN
  /\ calls \subseteq Requests
  /\ clicks \in Nat
  /\ mixed \subseteq AllLists

(* Whatever is answered while the user walks about, a console is only mounted with a
   token, and never for a demo that is retired, "even if an old token is still in
   localStorage" (App.tsx). *)
ConsoleIsEntitled == Authed => token /\ ~retired

(* A list that is not waiting for anything shows what the backend has, if no two of its
   requests overlapped, none failed, and nothing was changed from a view left since. *)
ListsSettle ==
  \A l \in Mounts(place) :
    (l \notin mixed /\ \A c \in calls : c.kind \notin {l, "save"} \cup Changes)
    => shown[l] = Stored(l)

(* The transcript on screen is that of the run selected, unless a second run was selected
   before the messages of the first had come. *)
TranscriptSettles ==
  ("transcript" \notin mixed /\ InFlight("transcript") = {})
  => transcript.of = transcript.sel

\* save is busy until the roster has been fetched again.
Waits(b) ==
  InFlight(b) \cup {c \in InFlight("agents") : b = "save" /\ c.of = "save"}

(* A guarded button is disabled exactly while its request is in flight: no second click
   makes a second agent or binding, and no answer, refusal or loss leaves it stuck. *)
BusyIsInFlight == \A b \in Guarded : busy[b] <=> Waits(b) # {}

(* Once the user pauses (at the bound of clicks) every button becomes usable again,
   whatever became of its request: the handlers end in a finally, and speakText in
   onended or in its catch. *)
ButtonsReturn == <>[](\A b \in Buttons : ~busy[b])
=============================================================================
