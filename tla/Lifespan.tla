------------------------------- MODULE Lifespan -------------------------------
(***************************************************************************)
(* What the process keeps in memory for rows of the database, between one  *)
(* start-up and the next (the lifespan of main.py): a cron job per agent   *)
(* or workflow with a schedule (scheduling/scheduler.py), and a polling    *)
(* bot per channel binding with a token (channels/manager.py).  "The DB is *)
(* the source of truth", and the endpoints of agents, workflows and        *)
(* channels change both, one after the other, with awaits in between.      *)
(*                                                                         *)
(* An agent and a workflow are treated alike and are an owner here.  What  *)
(* a job does when it fires is CreateRun of module Executor.               *)
(***************************************************************************)
EXTENDS Naturals, FiniteSets

CONSTANTS
  Owners,    \* ids of agents and workflows
  Bindings,  \* ids of channel bindings
  Crons,     \* expressions that CronTrigger takes
  Bad,       \* one that it does not
  None,      \* no schedule
  Unset,     \* a PATCH without schedule_cron
  Absent,    \* no row
  Requests,  \* bound of the model: a request is made once
  Faults     \* which of the Disturbances may happen

\* db: a query raises; bot: a bot cannot be started; crash: the process stops.
Disturbances == {"db", "bot", "crash"}

Schedules == Crons \cup {Bad, None}

ASSUME LifespanAssumption ==
  /\ Owners \cap Bindings = {}
  /\ Bad \notin Crons
  /\ None \notin Crons /\ None # Bad
  /\ Unset \notin Schedules
  /\ Absent \notin Schedules
  /\ Faults \subseteq Disturbances

VARIABLES
  up,        \* the process runs and its start-up is over
  minted,    \* ids given so far
  row,       \* row[i]: schedule_cron of owner i, or Absent
  job,       \* job[i]: the expression of the job of owner i, or None
  bound,     \* rows of channel_bindings
  bots,      \* keys of manager.bots
  req,       \* req[q]: the local variables of request q
  spoilt     \* history: since the start-up, requests about this id have overlapped
             \* each other, or one of them has failed halfway

vars == <<up, minted, row, job, bound, bots, req, spoilt>>

Kinds == {"create", "update", "delete", "connect", "disconnect"}

InFlight(q) == req[q].at \notin {"unused", "done"}

\* Request q goes on to another await, or returns.
Goes(q, at) == req' = [req EXCEPT ![q].at = at]
Saw(q, at, value) == req' = [req EXCEPT ![q].at = at, ![q].seen = value]

Unused == [kind |-> "create", of |-> None, cron |-> None, seen |-> None, at |-> "unused"]

Init ==
  /\ up = TRUE /\ minted = {}
  /\ row = [i \in Owners |-> Absent] /\ job = [i \in Owners |-> None]
  /\ bound = {} /\ bots = {}
  /\ req = [q \in Requests |-> Unused]
  /\ spoilt = {}

-----------------------------------------------------------------------------
(* Requests.                                                               *)

\* Two requests about one id are in flight together.
Overlaps(i) == {j \in {i} : \E q \in Requests : InFlight(q) /\ req[q].of = i}

Begin(q, kind, i, cron) ==
  /\ up /\ req[q].at = "unused"
  /\ IF kind \in {"create", "connect"}
     THEN i \notin minted /\ minted' = minted \cup {i}
     ELSE i \in minted /\ UNCHANGED minted
  /\ req' = [req EXCEPT ![q] = [kind |-> kind, of |-> i, cron |-> cron, seen |-> None,
                                at |-> IF kind \in {"create", "connect"} THEN "loaded"
                                       ELSE "sent"]]
  /\ spoilt' = spoilt \cup Overlaps(i)
  /\ UNCHANGED <<up, row, job, bound, bots>>

Request(q) ==
  \/ \E i \in Owners, cron \in Schedules : Begin(q, "create", i, cron)
  \/ \E i \in Owners, cron \in Schedules \cup {Unset} : Begin(q, "update", i, cron)
  \/ \E i \in Owners : Begin(q, "delete", i, None)
  \/ \E i \in Bindings, kind \in {"connect", "disconnect"} : Begin(q, kind, i, None)

\* db.get, and the 404.
Load(q) ==
  /\ req[q].at = "sent"
  /\ LET i == req[q].of IN
       IF req[q].kind = "disconnect"
       THEN Goes(q, IF i \in bound THEN "loaded" ELSE "done")
       ELSE IF row[i] = Absent THEN Goes(q, "done") ELSE Saw(q, "loaded", row[i])
  /\ UNCHANGED <<up, minted, row, job, bound, bots, spoilt>>

\* db.commit of an owner.  SQLAlchemy writes what differs from what was loaded; for a
\* row that is gone, an UPDATE raises and a DELETE warns.
Commit(q) ==
  /\ req[q].at = "loaded" /\ req[q].kind \in {"create", "update", "delete"}
  /\ LET i == req[q].of
         new == req[q].cron IN
       \/ /\ req[q].kind = "create"
          /\ row' = [row EXCEPT ![i] = new] /\ Goes(q, "committed")
       \/ /\ req[q].kind = "update" /\ new \in {Unset, req[q].seen}
          /\ UNCHANGED row /\ Goes(q, "committed")
       \/ /\ req[q].kind = "update" /\ new \notin {Unset, req[q].seen}
          /\ IF row[i] = Absent THEN UNCHANGED row /\ Goes(q, "done")
             ELSE row' = [row EXCEPT ![i] = new] /\ Goes(q, "committed")
       \/ /\ req[q].kind = "delete"
          /\ row' = [row EXCEPT ![i] = Absent] /\ Goes(q, "committed")
  /\ UNCHANGED <<up, minted, job, bound, bots, spoilt>>

\* db.refresh of an owner: it raises if the row is gone.
Refresh(q) ==
  /\ req[q].at = "committed" /\ req[q].kind \in {"create", "update"}
  /\ IF row[req[q].of] = Absent THEN Goes(q, "done")
     ELSE Saw(q, "refreshed", row[req[q].of])
  /\ UNCHANGED <<up, minted, row, job, bound, bots, spoilt>>

\* Mutant of Registered: expressions are not parsed.
RegisteredAny(old, cron) == cron

\* Mutant of Registered: the job of this id is not replaced.
RegisteredOnce(old, cron) ==
  CASE cron \in Crons -> IF old = None THEN cron ELSE old
    [] cron = Bad -> old
    [] OTHER -> None

\* _register and _remove: what becomes of a job that was old.  An expression that is
\* not one is logged.
Registered(old, cron) ==
  CASE cron \in Crons -> cron
    [] cron = Bad -> old
    [] OTHER -> None

\* The end of a create, update or delete: schedule or unschedule.
Schedule(q) ==
  /\ \/ req[q].at = "refreshed" /\ req[q].kind \in {"create", "update"}
     \/ req[q].at = "committed" /\ req[q].kind = "delete"
  /\ LET i == req[q].of IN
       job' = [job EXCEPT ![i] = IF req[q].kind = "delete" THEN None
                                 ELSE Registered(@, req[q].seen)]
  /\ Goes(q, "done")
  /\ UNCHANGED <<up, minted, row, bound, bots, spoilt>>

-----------------------------------------------------------------------------
(* Channel bindings.                                                       *)

\* create_binding: the row is committed, then refreshed.
Bind(q) ==
  /\ req[q].kind = "connect"
  /\ \/ req[q].at = "loaded" /\ bound' = bound \cup {req[q].of} /\ Goes(q, "committed")
     \/ /\ req[q].at = "committed" /\ UNCHANGED bound
        /\ Goes(q, IF req[q].of \in bound THEN "refreshed" ELSE "done")
  /\ UNCHANGED <<up, minted, row, job, bots, spoilt>>

\* add_telegram_bot: the id is new, so there is no bot to stop, and start only creates
\* the task that polls.  A failure is logged.
StartBot(q) ==
  /\ req[q].kind = "connect" /\ req[q].at = "refreshed"
  /\ \/ bots' = bots \cup {req[q].of} /\ UNCHANGED spoilt
     \/ "bot" \in Faults /\ UNCHANGED bots /\ spoilt' = spoilt \cup {req[q].of}
  /\ Goes(q, "done")
  /\ UNCHANGED <<up, minted, row, job, bound>>

\* delete_binding: remove_telegram_bot takes the bot out of the dictionary and awaits
\* its end.
StopBot(q) ==
  /\ req[q].kind = "disconnect"
  /\ \/ /\ req[q].at = "loaded"
        /\ bots' = bots \ {req[q].of}
        /\ Goes(q, IF req[q].of \in bots THEN "stopping" ELSE "stopped")
     \/ req[q].at = "stopping" /\ Goes(q, "stopped") /\ UNCHANGED bots
  /\ UNCHANGED <<up, minted, row, job, bound, spoilt>>

\* Mutant of Unbind: the row is deleted while the bot stops.
UnbindEarly(q) ==
  /\ req[q].kind = "disconnect" /\ req[q].at \in {"stopping", "stopped"}
  /\ bound' = bound \ {req[q].of}
  /\ Goes(q, IF req[q].at = "stopped" THEN "done" ELSE "stopping")
  /\ UNCHANGED <<up, minted, row, job, bots, spoilt>>

Unbind(q) ==
  /\ req[q].kind = "disconnect" /\ req[q].at = "stopped"
  /\ bound' = bound \ {req[q].of}
  /\ Goes(q, "done")
  /\ UNCHANGED <<up, minted, row, job, bots, spoilt>>

-----------------------------------------------------------------------------
(* Failures, the end of the process, and the next start-up.                *)

\* The request has changed the row and not yet the memory, or the other way round.
Halfway(q) ==
  \/ req[q].kind \in {"create", "update", "connect"} /\ req[q].at = "committed"
  \/ req[q].kind = "disconnect" /\ req[q].at = "stopped"

DbRaises(q) ==
  /\ "db" \in Faults
  /\ \/ req[q].at = "sent"
     \/ req[q].at = "loaded" /\ req[q].kind # "disconnect"
     \/ Halfway(q)
  /\ Goes(q, "done")
  /\ spoilt' = spoilt \cup {i \in {req[q].of} : Halfway(q)}
  /\ UNCHANGED <<up, minted, row, job, bound, bots>>

Crash ==
  /\ "crash" \in Faults /\ up
  /\ up' = FALSE
  /\ job' = [i \in Owners |-> None] /\ bots' = {}
  /\ req' = [q \in Requests |-> IF InFlight(q) THEN [req[q] EXCEPT !.at = "done"] ELSE req[q]]
  /\ UNCHANGED <<minted, row, bound, spoilt>>

\* Mutant of Startup: the schedules are not registered again.
StartupSilent ==
  /\ ~up /\ up' = TRUE
  /\ UNCHANGED job
  /\ \E failed \in SUBSET bound :
       /\ "bot" \notin Faults => failed = {}
       /\ bots' = bound \ failed /\ spoilt' = failed
  /\ UNCHANGED <<minted, row, bound, req>>

\* Mutant of Startup: the dedicated bots are not restored.
StartupBotless ==
  /\ ~up /\ up' = TRUE
  /\ job' = [i \in Owners |-> Registered(None, row[i])]
  /\ bots' = {} /\ spoilt' = {}
  /\ UNCHANGED <<minted, row, bound, req>>

\* start_all and the registration of every schedule, before the first request.
Startup ==
  /\ ~up /\ up' = TRUE
  /\ job' = [i \in Owners |-> Registered(None, row[i])]
  /\ \E failed \in SUBSET bound :
       /\ "bot" \notin Faults => failed = {}
       /\ bots' = bound \ failed /\ spoilt' = failed
  /\ UNCHANGED <<minted, row, bound, req>>

-----------------------------------------------------------------------------

Proceed(q) ==
  \/ Load(q) \/ Commit(q) \/ Refresh(q) \/ Schedule(q)
  \/ Bind(q) \/ StartBot(q) \/ StopBot(q) \/ Unbind(q)

Next ==
  \/ \E q \in Requests : Request(q) \/ Proceed(q) \/ DbRaises(q)
  \/ Crash \/ Startup

Spec == Init /\ [][Next]_vars

(* Queries return or raise, and somebody starts the process again. *)
FairSpec ==
  Spec /\ (\A q \in Requests : WF_vars(Proceed(q))) /\ WF_vars(Startup)

-----------------------------------------------------------------------------
(* Properties.                                                             *)

TypeOK ==
  /\ up \in BOOLEAN
  /\ minted \subseteq Owners \cup Bindings
  /\ row \in [Owners -> Schedules \cup {Absent}]
  /\ job \in [Owners -> Crons \cup {None}]
  /\ bound \subseteq Bindings /\ bots \subseteq Bindings
  /\ req \in [Requests -> [kind : Kinds, of : Owners \cup Bindings \cup {None},
                           cron : Schedules \cup {Unset}, seen : Schedules,
                           at : {"unused", "sent", "loaded", "committed", "refreshed",
                                 "stopping", "stopped", "done"}]]
  /\ spoilt \subseteq Owners \cup Bindings

Quiet(i) == up /\ i \notin spoilt /\ \A q \in Requests : req[q].of = i => ~InFlight(q)

(* "The DB is the source of truth": between requests, an owner fires exactly when its
   row says so, whatever was created, changed, cleared or deleted, and across restarts.
   (A row with an expression that is none keeps the job it had.) *)
JobsMirrorRows ==
  \A i \in Owners :
    Quiet(i) => /\ row[i] \in Crons => job[i] = row[i]
                /\ row[i] \in {None, Absent} => job[i] = None

(* Between requests, and after every start-up, the manager has a dedicated bot exactly for
   every binding: it is stopped, deleted, added to and restored in four places, with
   awaits between row and dictionary.  (An entry of the dictionary counts, although its
   polling task may have died: nobody looks.) *)
BotsMirrorBindings == \A b \in Bindings : Quiet(b) => (b \in bots <=> b \in bound)

\* The bots that still ask Telegram for updates.
Polling == bots \cup {req[q].of : q \in {p \in Requests : req[p].at = "stopping"}}

(* Not even during a request does a bot take messages for a binding that has no row:
   create_binding commits before it starts, delete_binding stops before it commits.
   Not so, in this code, when the two overlap: a binding that is deleted before its bot
   is started gets a bot that nobody stops (the ids in spoilt). *)
NoStrayBot == \A b \in Polling : b \in bound \/ b \in spoilt

(* A schedule that is saved is a schedule that fires, sooner or later: a failed or
   overtaken request, or a crash, delays it to the next start-up at most. *)
ScheduleTakesEffect ==
  \A i \in Owners, c \in Crons :
    (row[i] = c) ~> (row[i] # c \/ job[i] = c \/ i \in spoilt)
===============================================================================
