---------------------------- MODULE ConsoleProofs ----------------------------
(***************************************************************************)
(* For any agents, bindings and runs, any number of clicks and any losses, *)
(* the console is open only to who is entitled to it, a guarded button is  *)
(* disabled exactly while its request is in flight, and a list or a        *)
(* transcript that waits for nothing shows what it should.                 *)
(*                                                                         *)
(* The invariant adds to both what is true of every request (Tidy): none   *)
(* is a login of a retired demo, a login whose page was left is marked so, *)
(* a workflow can only be opened by a request whose console is still       *)
(* there, only a roster is ever fetched for save, a roster is agents, and  *)
(* a transcript a run's.  And a guarded button waits for one request at    *)
(* most (Single), or the first of two answers would enable it too early.   *)
(* For the lists and the transcript it adds where a request belongs, and   *)
(* what the one request of a list brings while no change is in flight that *)
(* its refresh does not follow yet (SettleInv).                            *)
(***************************************************************************)
EXTENDS Console, TLAPS

WaitsFor(b, c) ==
  ~c.gone /\ (c.kind = b \/ (b = "save" /\ c.kind = "agents" /\ c.of = "save"))

Tidy(c) ==
  /\ retired => c.kind # "login"
  /\ c.kind = "login" /\ ~c.gone => place = "login"
  /\ c.kind \in {"use", "generate"} /\ ~c.out => Authed
  /\ c.kind \in Lists /\ c.of = "save" => c.kind = "agents"
  /\ c.kind \in {"agents", "save"} => c.answer \subseteq Agents
  /\ c.kind = "transcript" => c.of \in Runs

Calm == \A c \in calls : Tidy(c)
Single == \A b \in Guarded : \A c, d \in calls : WaitsFor(b, c) /\ WaitsFor(b, d) => c = d
Held == \A b \in Guarded : busy[b] <=> \E c \in calls : WaitsFor(b, c)

CInv == TypeOK /\ ConsoleIsEntitled /\ Calm /\ Single /\ Held

-----------------------------------------------------------------------------
(* Facts about the operators.                                              *)

(* BusyIsInFlight is Held, said with sets. *)
LEMMA HeldIsBusy ==
  Held => BusyIsInFlight
<1> SUFFICES ASSUME Held, NEW b \in Guarded
             PROVE  busy[b] <=> Waits(b) # {}
  BY DEF BusyIsInFlight
<1>1. \A c : c \in Waits(b) <=> c \in calls /\ WaitsFor(b, c)
  BY DEF Waits, InFlight, WaitsFor
<1>2. QED
  BY <1>1 DEF Held

(* What a view fetches are lists. *)
LEMMA Mounted ==
  ASSUME NEW p
  PROVE  Mounts(p) \subseteq Lists
  BY DEF Mounts, Lists

(* No guarded button is a list, and all of them are buttons. *)
LEMMA GuardedKinds ==
  /\ Buttons = {"login", "save", "connect", "use", "generate", "explain", "speak", "voice"}
  /\ Guarded = {"login", "save", "connect", "explain", "speak", "voice"}
  /\ Kinds = Buttons \cup Lists \cup {"delete", "transcript", "mic"}
  BY DEF Buttons, Place, Guarded, Kinds

(* A new request is typed, and neither left nor out. *)
LEMMA Calling ==
  ASSUME clicks' \in Nat, NEW kind \in Kinds, NEW of \in Ids \cup Runs \cup {None, "save"}
  PROVE  /\ Call(kind, of) \in Requests
         /\ Call(kind, of).kind = kind /\ Call(kind, of).of = of
         /\ ~Call(kind, of).gone /\ ~Call(kind, of).out
         /\ Call(kind, of).answer = {}
  BY DEF Call, Requests

(* The fetches of a view are typed, tidy, and no button waits for them. *)
LEMMA Fetching ==
  ASSUME clicks' \in Nat, NEW ls \in SUBSET Lists, NEW d \in Fetch(ls)
  PROVE  /\ d \in Requests /\ d.kind \in Lists /\ d.of = None /\ ~d.gone
         /\ d.of # "save" /\ d.answer = {}
<1>1. PICK l \in ls : d = Call(l, None)
  BY DEF Fetch
<1>2. l \in Kinds /\ None \in Ids \cup Runs \cup {None, "save"}
  BY GuardedKinds
<1>3. QED
  BY <1>1, <1>2, Calling, ConsoleAssumption DEF ConsoleAssumption

(* Marking a request keeps it a request. *)
LEMMA Marking ==
  ASSUME NEW c \in Requests, NEW p
  PROVE  /\ Leave(c, p) \in Requests /\ Leave(c, p).gone /\ Leave(c, p).kind = c.kind
         /\ Leave(c, p).of = c.of /\ Leave(c, p).answer = c.answer
         /\ (Leave(c, p).out <=> c.out \/ p \notin Views)
<1>1. (c.out \/ p \notin Views) \in BOOLEAN
  BY DEF Requests
<1>2. QED
  BY <1>1 DEF Requests, Leave

(* Another view or page: every request is left behind, and no button is busy. *)
LEMMA Showing ==
  ASSUME CInv, NEW p \in Views \cup {"landing", "login"}, NEW rest \in SUBSET calls,
         Show(p, rest), clicks' \in Nat, token' \in BOOLEAN, UNCHANGED <<retired, rows>>,
         p \in Views => token' /\ ~retired
  PROVE  CInv'
<1> USE DEF CInv
<1> DEFINE Left == {Leave(c, p) : c \in rest}
<1>1. calls' = Left \cup Fetch(Mounts(p))
  BY DEF Show
<1>2. \A d \in Left : d \in Requests /\ d.gone
                      /\ \E c \in calls : d.kind = c.kind /\ d.of = c.of /\ d.answer = c.answer
                                          /\ (d.out <=> c.out \/ p \notin Views)
  <2>1. TAKE d \in Left
  <2>2. PICK c \in rest : d = Leave(c, p)
    OBVIOUS
  <2>3. c \in Requests /\ c \in calls
    BY DEF TypeOK
  <2>4. /\ d \in Requests /\ d.gone /\ d.kind = c.kind /\ d.of = c.of /\ d.answer = c.answer
        /\ (d.out <=> c.out \/ p \notin Views)
    BY <2>2, <2>3, Marking
  <2>5. QED
    BY <2>3, <2>4
<1>3. \A d \in Fetch(Mounts(p)) : /\ d \in Requests /\ d.kind \in Lists /\ ~d.gone
                                  /\ d.of # "save" /\ d.answer = {}
  BY Mounted, Fetching
<1>4. TypeOK'
  <2>1. /\ shown' \in [Lists -> SUBSET Ids] /\ shown'["agents"] \subseteq Agents
        /\ busy' \in [Buttons -> BOOLEAN]
    BY DEF Show, NothingShown, Idle, Lists
  <2>2. transcript' \in [sel : Runs \cup {None}, of : Runs \cup {None}]
    BY DEF Show, NoTranscript
  <2>3. calls' \subseteq Requests
    BY <1>1, <1>2, <1>3
  <2>4. QED
    BY <2>1, <2>2, <2>3 DEF Show, TypeOK, Requests, Kinds, Ids, AllLists
<1>5. ConsoleIsEntitled'
  BY DEF Show, ConsoleIsEntitled, Authed
<1>6. \A b \in Guarded : \A d \in calls' : ~WaitsFor(b, d)
  BY <1>1, <1>2, <1>3, GuardedKinds DEF WaitsFor, Lists
<1>7. Single' /\ Held'
  <2>1. \A b \in Guarded : ~busy'[b]
    BY GuardedKinds DEF Show, Idle
  <2>2. QED
    BY <1>6, <2>1 DEF Single, Held, WaitsFor
<1>8. Calm'
  <2>1. SUFFICES ASSUME NEW d \in calls' PROVE Tidy(d)'
    BY DEF Calm
  <2>2. CASE d \in Left
    <3>1. PICK c \in calls : d.kind = c.kind /\ d.of = c.of /\ d.answer = c.answer
                                /\ (d.out <=> c.out \/ p \notin Views)
      BY <1>2, <2>2
    <3>2. Tidy(c) /\ d.gone /\ place' = p
      BY <1>2, <2>2 DEF Calm, Show
    <3>3. QED
      BY <3>1, <3>2 DEF Tidy, Authed
  <2>3. CASE d \in Fetch(Mounts(p))
    BY <1>3, <2>3 DEF Tidy, Lists
  <2>4. QED
    BY <1>1, <2>2, <2>3
<1>9. QED
  BY <1>4, <1>5, <1>7, <1>8

(* A request no button waits for begins. *)
LEMMA Adding ==
  ASSUME CInv, NEW d, calls' = calls \cup {d}, UNCHANGED <<retired, token, place, busy>>,
         Tidy(d), \A b \in Guarded : ~WaitsFor(b, d)
  PROVE  ConsoleIsEntitled' /\ Calm' /\ Single' /\ Held'
<1>1. ConsoleIsEntitled'
  BY DEF CInv, ConsoleIsEntitled, Authed
<1>2. Calm'
  BY DEF CInv, Calm, Tidy, Authed
<1>3. Single'
  BY DEF CInv, Single
<1>4. Held'
  BY DEF CInv, Held
<1>5. QED
  BY <1>1, <1>2, <1>3, <1>4

(* A request goes on, and the same buttons wait for it. *)
LEMMA Changing ==
  ASSUME CInv, NEW c \in calls, NEW d, calls' = (calls \ {c}) \cup {d},
         UNCHANGED <<retired, token, place, busy>>,
         Tidy(d), \A b \in Guarded : WaitsFor(b, d) <=> WaitsFor(b, c)
  PROVE  ConsoleIsEntitled' /\ Calm' /\ Single' /\ Held'
<1>1. ConsoleIsEntitled'
  BY DEF CInv, ConsoleIsEntitled, Authed
<1>2. Calm'
  BY DEF CInv, Calm, Tidy, Authed
<1>3. Single'
  BY DEF CInv, Single
<1>4. Held'
  BY DEF CInv, Held
<1>5. QED
  BY <1>1, <1>2, <1>3, <1>4

(* A request is over, with what it was for, and perhaps fetches follow. *)
LEMMA Ending ==
  ASSUME CInv, NEW c \in calls, NEW S, calls' = (calls \ {c}) \cup S,
         UNCHANGED <<retired, token, place>>,
         \A d \in S : Tidy(d) /\ \A b \in Guarded : ~WaitsFor(b, d),
         \A b \in Guarded : busy'[b] <=> busy[b] /\ ~WaitsFor(b, c)
  PROVE  ConsoleIsEntitled' /\ Calm' /\ Single' /\ Held'
<1>1. ConsoleIsEntitled'
  BY DEF CInv, ConsoleIsEntitled, Authed
<1>2. Calm'
  BY DEF CInv, Calm, Tidy, Authed
<1>3. Single'
  BY DEF CInv, Single
<1>4. Held'
  <2>1. SUFFICES ASSUME NEW b \in Guarded
                 PROVE  busy'[b] <=> \E d \in calls' : WaitsFor(b, d)
    BY DEF Held
  <2>2. CASE WaitsFor(b, c)
    BY <2>2 DEF CInv, Single
  <2>3. CASE ~WaitsFor(b, c)
    BY <2>3 DEF CInv, Held
  <2>4. QED
    BY <2>2, <2>3
<1>5. QED
  BY <1>1, <1>2, <1>3, <1>4

(* Then: the request is over, and the lists of ls are fetched. *)
LEMMA Following ==
  ASSUME TypeOK, NEW c \in calls, NEW ls \in SUBSET Lists, Then(c, ls)
  PROVE  \E S : /\ calls' = (calls \ {c}) \cup S
                /\ \A d \in S : d \in Requests /\ Tidy(d) /\ \A b \in Guarded : ~WaitsFor(b, d)
                /\ ls = {} => S = {}
<1> DEFINE S == {[d EXCEPT !.id = c.id] : d \in Fetch(ls)}
<1>1. clicks' \in Nat /\ c \in Requests
  BY DEF Then, TypeOK
<1>2. ASSUME NEW e \in S
      PROVE  e \in Requests /\ Tidy(e) /\ \A b \in Guarded : ~WaitsFor(b, e)
  <2>1. PICK d \in Fetch(ls) : e = [d EXCEPT !.id = c.id]
    OBVIOUS
  <2>2. d \in Requests /\ d.kind \in Lists /\ d.of # "save" /\ d.answer = {}
    BY <1>1, Fetching
  <2>3. c.id \in Nat
    BY <1>1 DEF Requests
  <2>4. /\ e \in Requests
        /\ e.kind \in Lists /\ e.of # "save" /\ e.answer = {}
    BY <2>1, <2>2, <2>3 DEF Requests
  <2>5. QED
    BY <2>4, GuardedKinds DEF Tidy, WaitsFor, Lists
<1>3. ls = {} => S = {}
  BY DEF Fetch
<1>4. QED
  BY <1>2, <1>3 DEF Then

(* mixed only ever holds lists. *)
LEMMA Mixing ==
  ASSUME mixed \subseteq AllLists, NEW ls \in SUBSET AllLists
  PROVE  Together(ls) \subseteq AllLists /\ Lists \subseteq AllLists
  BY DEF Together, AllLists

-----------------------------------------------------------------------------
(* The steps of the user.                                                  *)

LEMMA NavigateKeeps ==
  ASSUME CInv, Navigate
  PROVE  CInv'
<1>1. clicks' \in Nat /\ token' \in BOOLEAN /\ UNCHANGED <<retired, rows>>
  BY DEF CInv, TypeOK, Navigate, Click, server
<1>2. calls \in SUBSET calls
  OBVIOUS
<1>3. CASE \E v \in Views \ {place} : Authed /\ Show(v, calls)
  <2>1. PICK v \in Views : Authed /\ Show(v, calls)
    BY <1>3
  <2>2. token' /\ ~retired
    BY <2>1 DEF CInv, ConsoleIsEntitled, Navigate
  <2>3. QED
    BY <1>1, <1>2, <2>1, <2>2, Showing
<1>4. CASE Show("login", calls)
  BY <1>1, <1>2, <1>4, Showing DEF Views
<1>5. CASE Show("landing", calls)
  BY <1>1, <1>2, <1>5, Showing DEF Views
<1>6. QED
  BY <1>3, <1>4, <1>5 DEF Navigate

LEMMA SignOutKeeps ==
  ASSUME CInv, SignOut
  PROVE  CInv'
<1>1. clicks' \in Nat /\ token' \in BOOLEAN /\ UNCHANGED <<retired, rows>>
  <2>1. token' \in BOOLEAN
    BY DEF SignOut
  <2>2. UNCHANGED <<retired, rows>>
    BY DEF SignOut, server
  <2>3. clicks' \in Nat
    BY DEF CInv, TypeOK, SignOut, Click
  <2>4. QED
    BY <2>1, <2>2, <2>3
<1>2. Show("landing", calls) /\ calls \in SUBSET calls
  BY DEF SignOut
<1>3. QED
  BY <1>1, <1>2, Showing DEF Views

LEMMA RetireKeeps ==
  ASSUME CInv, Retire
  PROVE  CInv'
<1> USE DEF CInv, Retire, server, view
<1>1. TypeOK'
  BY DEF TypeOK, Requests, Kinds, Ids, AllLists
<1>2. ConsoleIsEntitled'
  BY DEF ConsoleIsEntitled, Authed
<1>3. Calm'
  BY DEF Calm, Tidy, Authed
<1>4. Single' /\ Held'
  BY DEF Single, Held
<1>5. QED
  BY <1>1, <1>2, <1>3, <1>4

(* A guarded button is not busy when it is pressed, so its request is its only one. *)
LEMMA PressKeeps ==
  ASSUME CInv, NEW b \in Buttons, Press(b)
  PROVE  CInv'
<1> USE DEF CInv
<1> DEFINE of == IF b = "save" THEN editing ELSE None
           d == Call(b, of)
<1>1. /\ clicks' \in Nat /\ b \in Kinds /\ of \in Ids \cup Runs \cup {None, "save"}
      /\ b \notin Lists /\ place = Place[b] /\ b # "voice"
      /\ UNCHANGED <<retired, token, place>>
  BY GuardedKinds DEF TypeOK, Press, Click, Ids, Lists, server
<1>2. d \in Requests /\ d.kind = b /\ ~d.gone /\ ~d.out /\ d.answer = {}
  BY <1>1, Calling
<1>3. calls' = calls \cup {d} /\ busy' = [busy EXCEPT ![b] = TRUE]
  BY DEF Press
<1>4. TypeOK'
  <2>1. busy' \in [Buttons -> BOOLEAN]
    BY <1>3 DEF TypeOK
  <2>2. QED
    BY <1>1, <1>2, <1>3, <2>1 DEF Press, TypeOK, server
<1>5. ConsoleIsEntitled'
  BY <1>1 DEF ConsoleIsEntitled, Authed
<1>6. Tidy(d)
  <2>1. b = "login" => place = "login" /\ ~retired
    BY <1>1 DEF Press, Place
  <2>2. b \in {"use", "generate"} => Authed
    BY <1>1 DEF Place, Authed, Views
  <2>3. QED
    BY <1>1, <1>2, <2>1, <2>2, GuardedKinds DEF Tidy
<1>7. Calm'
  BY <1>1, <1>3, <1>6 DEF Calm, Tidy, Authed
<1>8. \A g \in Guarded : WaitsFor(g, d) <=> g = b
  BY <1>1, <1>2, GuardedKinds DEF WaitsFor, Lists
<1>9. b \in Guarded => \A c \in calls : ~WaitsFor(b, c)
  BY DEF Press, Held
<1>10. Single'
  BY <1>3, <1>8, <1>9 DEF Single
<1>11. Held'
  <2>1. \A g \in Guarded : busy'[g] <=> busy[g] \/ g = b
    BY <1>3 DEF TypeOK, Guarded
  <2>2. QED
    BY <1>3, <1>8, <2>1 DEF Held
<1>12. QED
  BY <1>4, <1>5, <1>7, <1>10, <1>11

(* Steps that leave the requests alone, and what they are about. *)
LEMMA Untouched ==
  ASSUME CInv, UNCHANGED <<retired, token, place, calls, busy>>
  PROVE  ConsoleIsEntitled' /\ Calm' /\ Single' /\ Held'
  BY DEF CInv, ConsoleIsEntitled, Calm, Tidy, Single, Held, Authed

LEMMA EditKeeps ==
  ASSUME CInv, Edit \/ Open
  PROVE  CInv'
<1>1. UNCHANGED <<retired, token, place, calls, busy>>
  BY DEF Edit, Open, server
<1>2. TypeOK'
  <2>1. CASE Edit
    <3>1. editing' \in Agents \cup {None}
      BY <2>1 DEF CInv, TypeOK, Edit
    <3>2. QED
      BY <2>1, <3>1 DEF CInv, TypeOK, Edit, Click, server
  <2>2. CASE Open
    <3>1. opened' \in BOOLEAN
      BY <2>2 DEF CInv, TypeOK, Open
    <3>2. QED
      BY <2>2, <3>1 DEF CInv, TypeOK, Open, Click, server
  <2>3. QED
    BY <2>1, <2>2
<1>3. QED
  BY <1>1, <1>2, Untouched DEF CInv

LEMMA DeleteKeeps ==
  ASSUME CInv, Delete
  PROVE  CInv'
<1>1. PICK i \in shown["agents"] \cup shown["bindings"] :
        calls' = calls \cup {Call("delete", i)}
  BY DEF Delete
<1> DEFINE d == Call("delete", i)
<1>2. clicks' \in Nat /\ i \in Ids /\ "delete" \in Kinds
  BY GuardedKinds DEF CInv, TypeOK, Delete, Click, Lists
<1>3. d \in Requests /\ d.kind = "delete"
  BY <1>2, Calling
<1>4. Tidy(d) /\ \A b \in Guarded : ~WaitsFor(b, d)
  BY <1>3, GuardedKinds DEF Tidy, WaitsFor, Lists
<1>5. TypeOK'
  BY <1>1, <1>2, <1>3 DEF CInv, TypeOK, Delete, server, view
<1>6. UNCHANGED <<retired, token, place, busy>>
  BY DEF Delete, server, view
<1>7. QED
  BY <1>1, <1>4, <1>5, <1>6, Adding DEF CInv

LEMMA SelectKeeps ==
  ASSUME CInv, NEW r \in Runs, Select(r)
  PROVE  CInv'
<1> DEFINE d == Call("transcript", r)
<1>1. clicks' \in Nat /\ r \in Ids \cup Runs \cup {None, "save"} /\ "transcript" \in Kinds
  BY GuardedKinds DEF CInv, TypeOK, Select, Click
<1>2. d \in Requests /\ d.kind = "transcript" /\ d.of = r
  BY <1>1, Calling
<1>3. Tidy(d) /\ \A b \in Guarded : ~WaitsFor(b, d)
  BY <1>2, GuardedKinds DEF Tidy, WaitsFor, Lists
<1>4. transcript' \in [sel : Runs \cup {None}, of : Runs \cup {None}]
  <2>1. transcript \in [sel : Runs \cup {None}, of : Runs \cup {None}]
    BY DEF CInv, TypeOK
  <2>2. QED
    BY <2>1 DEF Select
<1>5. mixed' \subseteq AllLists
  <2>1. {"transcript"} \in SUBSET AllLists
    BY DEF AllLists
  <2>2. QED
    BY <2>1, Mixing DEF Select, CInv, TypeOK
<1>6. TypeOK'
  BY <1>1, <1>2, <1>4, <1>5 DEF CInv, TypeOK, Select, server
<1>7. calls' = calls \cup {d} /\ UNCHANGED <<retired, token, place, busy>>
  BY DEF Select, server
<1>8. QED
  BY <1>3, <1>6, <1>7, Adding DEF CInv

(* A tap that stops the recorder makes the button busy, which it was not. *)
LEMMA TapKeeps ==
  ASSUME CInv, Tap
  PROVE  CInv'
<1> USE DEF CInv
<1> DEFINE d == Call(IF listening THEN "voice" ELSE "mic", None)
<1>1. /\ clicks' \in Nat /\ None \in Ids \cup Runs \cup {None, "save"}
      /\ (IF listening THEN "voice" ELSE "mic") \in Kinds
  BY GuardedKinds DEF TypeOK, Tap, Click
<1>2. /\ d \in Requests /\ d.kind = (IF listening THEN "voice" ELSE "mic") /\ ~d.gone
      /\ d.answer = {}
  BY <1>1, Calling
<1>3. /\ calls' = calls \cup {d} /\ ~busy["voice"]
      /\ UNCHANGED <<retired, token, place>>
      /\ busy' = IF listening THEN [busy EXCEPT !["voice"] = TRUE] ELSE busy
  BY DEF Tap, server
<1>4. TypeOK'
  <2>1. busy' \in [Buttons -> BOOLEAN]
    BY <1>3 DEF TypeOK
  <2>2. listening' \in BOOLEAN
    BY DEF Tap, TypeOK
  <2>3. QED
    BY <1>1, <1>2, <1>3, <2>1, <2>2 DEF Tap, TypeOK, server
<1>5. Tidy(d)
  BY <1>2 DEF Tidy, Lists
<1>6. CASE ~listening
  <2>1. \A b \in Guarded : ~WaitsFor(b, d)
    BY <1>2, <1>6, GuardedKinds DEF WaitsFor
  <2>2. QED
    BY <1>3, <1>4, <1>5, <1>6, <2>1, Adding
<1>7. CASE listening
  <2>1. \A b \in Guarded : WaitsFor(b, d) <=> b = "voice"
    BY <1>2, <1>7, GuardedKinds DEF WaitsFor
  <2>2. \A c \in calls : ~WaitsFor("voice", c)
    BY <1>3, GuardedKinds DEF Held
  <2>3. ConsoleIsEntitled' /\ Calm'
    BY <1>3, <1>5 DEF ConsoleIsEntitled, Calm, Tidy, Authed
  <2>4. Single'
    BY <1>3, <2>1, <2>2 DEF Single
  <2>5. \A b \in Guarded : busy'[b] <=> busy[b] \/ b = "voice"
    BY <1>3, <1>7 DEF TypeOK, Guarded
  <2>6. Held'
    BY <1>3, <2>1, <2>5 DEF Held
  <2>7. QED
    BY <1>4, <2>3, <2>4, <2>6
<1>8. QED
  BY <1>6, <1>7

-----------------------------------------------------------------------------
(* The steps of the backend, and of the network.                           *)

(* A request is served, refused or lost: it is the same but for where it is. *)
LEMMA Advancing ==
  ASSUME CInv, NEW c \in calls, NEW d, Answers(c, d), d \in Requests,
         d.kind = c.kind, d.of = c.of, d.gone = c.gone, d.out = c.out,
         d.kind \in {"agents", "save"} => d.answer \subseteq Agents,
         rows' \subseteq Ids, mixed' \subseteq AllLists,
         UNCHANGED <<retired, token, place, view, clicks>>
  PROVE  CInv'
<1>1. TypeOK'
  BY DEF CInv, TypeOK, Answers, view
<1>2. Tidy(d) /\ \A b \in Guarded : WaitsFor(b, d) <=> WaitsFor(b, c)
  BY DEF CInv, Calm, Tidy, WaitsFor
<1>3. QED
  BY <1>1, <1>2, Changing DEF CInv, Answers, view

(* What is answered is what there is. *)
LEMMA ServeKeeps ==
  ASSUME CInv, NEW c \in calls, Serve(c)
  PROVE  CInv'
<1> USE DEF Ids
<1>1. /\ c \in Requests /\ rows \subseteq Ids
      /\ UNCHANGED <<retired, token, place, view, clicks>> /\ mixed' \subseteq AllLists
  BY DEF CInv, TypeOK, Serve
<1>2. ASSUME NEW answer \in SUBSET Ids, Served(c, answer), rows' \subseteq Ids,
             c.kind \in {"agents", "save"} => answer \subseteq Agents
      PROVE  CInv'
  <2> DEFINE d == [c EXCEPT !.at = "served", !.answer = answer]
  <2>1. /\ d \in Requests /\ d.kind = c.kind /\ d.of = c.of /\ d.gone = c.gone
        /\ d.out = c.out /\ d.answer = answer
    BY <1>1, <1>2 DEF Requests
  <2>2. Answers(c, d)
    BY <1>2 DEF Served
  <2>3. QED
    BY <1>1, <1>2, <2>1, <2>2, Advancing
<1>3. CASE Served(c, {}) /\ rows' \subseteq Ids
  BY <1>2, <1>3
<1>4. CASE UNCHANGED rows /\ Answers(c, [c EXCEPT !.at = "refused"])
  <2> DEFINE d == [c EXCEPT !.at = "refused"]
  <2>1. /\ d \in Requests /\ d.kind = c.kind /\ d.of = c.of /\ d.gone = c.gone
        /\ d.out = c.out /\ d.answer = c.answer
    BY <1>1 DEF Requests
  <2>2. c.kind \in {"agents", "save"} => c.answer \subseteq Agents
    BY DEF CInv, Calm, Tidy
  <2>3. QED
    BY <1>1, <1>4, <2>1, <2>2, Advancing
<1>5. CASE ServeRead(c)
  <2>1. /\ Served(c, Stored(c.kind)) /\ UNCHANGED rows
        /\ Stored(c.kind) \in SUBSET Ids /\ c.kind # "save"
        /\ c.kind = "agents" => Stored(c.kind) \subseteq Agents
    BY <1>1, <1>5 DEF ServeRead, Stored
  <2>2. QED
    BY <1>1, <1>2, <2>1
<1>6. ASSUME ServeSave(c) \/ ServeConnect(c) \/ ServeDelete(c)
      PROVE  \/ Served(c, {}) /\ rows' \subseteq Ids
             \/ UNCHANGED rows /\ Answers(c, [c EXCEPT !.at = "refused"])
  BY <1>1, <1>6 DEF ServeSave, ServeConnect, ServeDelete
<1>7. QED
  BY <1>3, <1>4, <1>5, <1>6 DEF Serve

LEMMA LoseKeeps ==
  ASSUME CInv, NEW c \in calls, Lose(c)
  PROVE  CInv'
<1> DEFINE d == [c EXCEPT !.at = "refused"]
<1>1. c \in Requests /\ rows' \subseteq Ids
  BY DEF CInv, TypeOK, Lose, server
<1>2. /\ d \in Requests /\ d.kind = c.kind /\ d.of = c.of /\ d.gone = c.gone
      /\ d.out = c.out /\ d.answer = c.answer
  BY <1>1 DEF Requests
<1>3. c.kind \in {"agents", "save"} => c.answer \subseteq Agents
  BY DEF CInv, Calm, Tidy
<1>4. mixed' \subseteq AllLists
  BY DEF Lose, CInv, TypeOK
<1>5. Answers(c, d) /\ UNCHANGED <<retired, token, place, view, clicks>>
  BY DEF Lose, server
<1>6. QED
  BY <1>1, <1>2, <1>3, <1>4, <1>5, Advancing

-----------------------------------------------------------------------------
(* The steps an answer makes.                                              *)

(* The request is over; what else changes is typed. *)
LEMMA Closing ==
  ASSUME CInv, NEW c \in calls, NEW ls \in SUBSET Lists, Then(c, ls),
         UNCHANGED <<server, token, place>>,
         shown' \in [Lists -> SUBSET Ids], shown'["agents"] \subseteq Agents,
         opened' \in BOOLEAN, editing' \in Agents \cup {None}, listening' \in BOOLEAN,
         transcript' \in [sel : Runs \cup {None}, of : Runs \cup {None}],
         busy' \in [Buttons -> BOOLEAN],
         \A b \in Guarded : busy'[b] <=> busy[b] /\ ~WaitsFor(b, c)
  PROVE  CInv'
<1>1. PICK S : /\ calls' = (calls \ {c}) \cup S
               /\ \A d \in S : d \in Requests /\ Tidy(d) /\ \A b \in Guarded : ~WaitsFor(b, d)
  BY Following DEF CInv
<1>2. mixed' \subseteq AllLists
  <2>1. mixed \subseteq AllLists /\ ls \in SUBSET AllLists
    BY DEF CInv, TypeOK, AllLists
  <2>2. Together(ls) \subseteq AllLists /\ Lists \subseteq AllLists
    BY <2>1, Mixing
  <2>3. QED
    BY <2>1, <2>2 DEF Then
<1>3. calls' \subseteq Requests /\ clicks' \in Nat
  BY <1>1 DEF CInv, TypeOK, Then
<1>4. TypeOK'
  BY <1>2, <1>3 DEF CInv, TypeOK, server
<1>5. UNCHANGED <<retired, token, place>>
  BY DEF server
<1>6. ConsoleIsEntitled' /\ Calm' /\ Single' /\ Held'
  BY <1>1, <1>5, Ending
<1>7. QED
  BY <1>4, <1>6 DEF CInv

(* A button that waits for nobody else is enabled when its request is over. *)
LEMMA Enabling ==
  ASSUME CInv, NEW c \in calls,
         busy' = IF c.kind \in Buttons /\ ~c.gone THEN [busy EXCEPT ![c.kind] = FALSE] ELSE busy,
         c.kind \notin Lists
  PROVE  /\ busy' \in [Buttons -> BOOLEAN]
         /\ \A b \in Guarded : busy'[b] <=> busy[b] /\ ~WaitsFor(b, c)
<1>1. busy \in [Buttons -> BOOLEAN]
  BY DEF CInv, TypeOK
<1>2. busy' \in [Buttons -> BOOLEAN]
  BY <1>1
<1>3. ASSUME NEW b \in Guarded
      PROVE  busy'[b] <=> busy[b] /\ ~WaitsFor(b, c)
  <2>1. WaitsFor(b, c) <=> ~c.gone /\ c.kind = b
    BY DEF WaitsFor, Lists
  <2>2. b \in Buttons
    BY DEF Guarded
  <2>3. CASE ~c.gone /\ c.kind = b
    BY <1>1, <2>1, <2>2, <2>3
  <2>4. CASE ~(~c.gone /\ c.kind = b)
    BY <1>1, <2>1, <2>2, <2>4
  <2>5. QED
    BY <2>3, <2>4
<1>4. QED
  BY <1>2, <1>3

(* A login whose page was left changes nothing in a console that is open. *)
LEMMA SignedInKeeps ==
  ASSUME CInv, NEW c \in calls, SignedIn(c)
  PROVE  CInv'
<1>1. token' = TRUE /\ UNCHANGED server /\ c.kind = "login" /\ ~retired
  BY DEF SignedIn, CInv, Calm, Tidy
<1>2. CASE Authed /\ Then(c, {}) /\ UNCHANGED <<place, view>>
  <2>1. token
    BY <1>2 DEF CInv, ConsoleIsEntitled
  <2>2. c.gone
    BY <1>1, <1>2 DEF CInv, Calm, Tidy, Authed, Views
  <2>3. token' = token
    BY <1>1, <2>1 DEF CInv, TypeOK
  <2>4. \A b \in Guarded : busy'[b] <=> busy[b] /\ ~WaitsFor(b, c)
    BY <1>2, <2>2 DEF WaitsFor, view
  <2>5. {} \in SUBSET Lists
    OBVIOUS
  <2>6. TypeOK
    BY DEF CInv
  <2>7. QED
    BY <1>1, <1>2, <2>3, <2>4, <2>5, <2>6, Closing DEF TypeOK, view
<1>3. CASE ~Authed /\ Show("templates", calls \ {c}) /\ UNCHANGED clicks
  <2>1. calls \ {c} \in SUBSET calls /\ "templates" \in Views
    BY DEF Views
  <2>2. clicks' \in Nat /\ token' \in BOOLEAN
    BY <1>1, <1>3 DEF CInv, TypeOK
  <2>3. QED
    BY <1>1, <1>3, <2>1, <2>2, Showing DEF server
<1>4. QED
  BY <1>2, <1>3 DEF SignedIn, view

(* The console of a request that is not out is still open, so its user is entitled. *)
LEMMA OpenedKeeps ==
  ASSUME CInv, NEW c \in calls, Opened(c)
  PROVE  CInv'
<1>1. Authed
  BY DEF CInv, Calm, Tidy, Opened
<1>2. token' /\ ~retired /\ token' \in BOOLEAN
  BY <1>1 DEF CInv, TypeOK, ConsoleIsEntitled, Opened
<1>3. /\ Show("builder", calls \ {c}) /\ calls \ {c} \in SUBSET calls /\ "builder" \in Views
      /\ UNCHANGED <<retired, rows>> /\ clicks' \in Nat
  BY DEF Opened, Views, server, CInv, TypeOK
<1>4. QED
  BY <1>2, <1>3, Showing

(* save waits for the roster now. *)
LEMMA SavedKeeps ==
  ASSUME CInv, NEW c \in calls, Saved(c)
  PROVE  CInv'
<1> DEFINE d == [c EXCEPT !.kind = "agents", !.of = "save", !.at = "sent"]
<1>1. c \in Requests /\ c.kind = "save" /\ c.answer \subseteq Agents
  BY DEF CInv, TypeOK, Calm, Tidy, Saved
<1>2. /\ d \in Requests /\ d.kind = "agents" /\ d.of = "save" /\ d.gone = c.gone
      /\ d.answer = c.answer
  BY <1>1, GuardedKinds DEF Requests, Lists
<1>3. /\ calls' = (calls \ {c}) \cup {d} /\ UNCHANGED <<server, token, place, view, clicks>>
  BY DEF Saved, Answers
<1>4. Tidy(d) /\ \A b \in Guarded : WaitsFor(b, d) <=> WaitsFor(b, c)
  <2>1. Tidy(d)
    BY <1>1, <1>2 DEF Tidy
  <2>2. \A b \in Guarded : WaitsFor(b, d) <=> WaitsFor(b, c)
    BY <1>1, <1>2, GuardedKinds DEF WaitsFor
  <2>3. QED
    BY <2>1, <2>2
<1>5. mixed' \subseteq AllLists
  <2>1. mixed \subseteq AllLists /\ {"agents"} \in SUBSET AllLists
    BY DEF CInv, TypeOK, AllLists, Lists
  <2>2. QED
    BY <2>1, Mixing DEF Saved
<1>6. TypeOK'
  BY <1>2, <1>3, <1>5 DEF CInv, TypeOK, server, view
<1>7. QED
  BY <1>3, <1>4, <1>6, Changing DEF CInv, server, view

(* The roster that save has fetched enables its button. *)
LEMMA ListedKeeps ==
  ASSUME CInv, NEW c \in calls, Listed(c)
  PROVE  CInv'
<1>1. /\ c \in Requests /\ c.kind \in Lists /\ Tidy(c) /\ TypeOK
      /\ Then(c, {}) /\ UNCHANGED <<server, token, place>> /\ {} \in SUBSET Lists
  BY DEF CInv, TypeOK, Calm, Listed
<1>2. \A b \in Guarded : WaitsFor(b, c) <=> ~c.gone /\ b = "save" /\ c.of = "save"
  BY <1>1, GuardedKinds DEF WaitsFor, Tidy, Lists
<1>3. CASE c.gone
  BY <1>1, <1>2, <1>3, Closing DEF Listed, TypeOK, view
<1>4. CASE ~c.gone
  <2>1. shown' \in [Lists -> SUBSET Ids] /\ shown'["agents"] \subseteq Agents
    <3>1. shown' = IF c.at = "served" THEN [shown EXCEPT ![c.kind] = c.answer] ELSE shown
      BY <1>4 DEF Listed
    <3>2. c.answer \in SUBSET Ids /\ (c.kind = "agents" => c.answer \subseteq Agents)
      BY <1>1 DEF Requests, Tidy
    <3>3. QED
      BY <1>1, <3>1, <3>2 DEF TypeOK, Lists
  <2>2. /\ editing' \in Agents \cup {None} /\ busy' \in [Buttons -> BOOLEAN]
        /\ \A b \in Guarded : busy'[b] <=> busy[b] /\ ~WaitsFor(b, c)
    <3>1. CASE c.of = "save"
      <4>1. editing' = None /\ busy' = [busy EXCEPT !["save"] = FALSE]
        BY <1>4, <3>1 DEF Listed
      <4>2. QED
        BY <1>1, <1>2, <1>4, <3>1, <4>1 DEF TypeOK, Guarded
    <3>2. CASE c.of # "save"
      BY <1>1, <1>2, <1>4, <3>2 DEF Listed, TypeOK
    <3>3. QED
      BY <3>1, <3>2
  <2>3. UNCHANGED <<opened, transcript, listening>>
    BY <1>4 DEF Listed
  <2>4. QED
    BY <1>1, <2>1, <2>2, <2>3, Closing DEF TypeOK
<1>5. QED
  BY <1>3, <1>4

LEMMA ChangedKeeps ==
  ASSUME CInv, NEW c \in calls, Changed(c)
  PROVE  CInv'
<1> DEFINE ls == IF c.gone THEN {}
                 ELSE IF c.of \in Agents THEN {"agents"} ELSE {"bindings", "status"}
<1>1. TypeOK /\ Then(c, ls) /\ ls \in SUBSET Lists /\ c.kind \in Changes
  BY DEF CInv, Changed, Lists
<1>2. busy' = IF c.kind \in Buttons /\ ~c.gone THEN [busy EXCEPT ![c.kind] = FALSE] ELSE busy
  BY <1>1, GuardedKinds DEF Changed, Changes
<1>3. /\ busy' \in [Buttons -> BOOLEAN]
      /\ \A b \in Guarded : busy'[b] <=> busy[b] /\ ~WaitsFor(b, c)
  BY <1>1, <1>2, Enabling DEF Changes, Lists
<1>4. UNCHANGED <<server, token, place, opened, shown, editing, transcript, listening>>
  BY DEF Changed
<1> HIDE DEF ls
<1>5. QED
  BY <1>1, <1>3, <1>4, Closing DEF TypeOK

LEMMA ToldKeeps ==
  ASSUME CInv, NEW c \in calls, Told(c)
  PROVE  CInv'
<1>1. TypeOK /\ Then(c, {}) /\ {} \in SUBSET Lists /\ c.kind = "transcript" /\ Tidy(c)
  BY DEF CInv, Told, Calm
<1>2. \A b \in Guarded : ~WaitsFor(b, c)
  BY <1>1, GuardedKinds DEF WaitsFor
<1>3. transcript' \in [sel : Runs \cup {None}, of : Runs \cup {None}]
  <2>1. c.of \in Runs /\ transcript \in [sel : Runs \cup {None}, of : Runs \cup {None}]
    BY <1>1 DEF TypeOK, Tidy
  <2>2. QED
    BY <2>1 DEF Told
<1>4. UNCHANGED <<server, token, place, opened, shown, editing, busy, listening>>
  BY DEF Told
<1>5. QED
  BY <1>1, <1>2, <1>3, <1>4, Closing DEF TypeOK

LEMMA MicOpensKeeps ==
  ASSUME CInv, NEW c \in calls, MicOpens(c)
  PROVE  CInv'
<1>1. TypeOK /\ Then(c, {}) /\ {} \in SUBSET Lists /\ c.kind = "mic"
  BY DEF CInv, MicOpens
<1>2. \A b \in Guarded : ~WaitsFor(b, c)
  BY <1>1, GuardedKinds DEF WaitsFor
<1>3. listening' \in BOOLEAN
  <2>1. c.gone \in BOOLEAN
    BY <1>1 DEF TypeOK, Requests
  <2>2. QED
    BY <1>1, <2>1 DEF MicOpens, TypeOK
<1>4. UNCHANGED <<server, token, place, opened, shown, editing, transcript, busy>>
  BY DEF MicOpens
<1>5. QED
  BY <1>1, <1>2, <1>3, <1>4, Closing DEF TypeOK

LEMMA OverKeeps ==
  ASSUME CInv, NEW c \in calls, Over(c)
  PROVE  CInv'
<1>1. TypeOK /\ Then(c, {}) /\ {} \in SUBSET Lists
  BY DEF CInv, Over
<1>2. c.kind \notin Lists
  BY DEF Over, Lists
<1>3. /\ busy' \in [Buttons -> BOOLEAN]
      /\ \A b \in Guarded : busy'[b] <=> busy[b] /\ ~WaitsFor(b, c)
  BY <1>2, Enabling DEF Over
<1>4. UNCHANGED <<server, token, place, opened, shown, editing, transcript, listening>>
  BY DEF Over
<1>5. QED
  BY <1>1, <1>3, <1>4, Closing DEF TypeOK

-----------------------------------------------------------------------------
(* The theorems.                                                           *)

LEMMA InitHolds ==
  ASSUME Init
  PROVE  CInv
<1> USE ConsoleAssumption DEF ConsoleAssumption, Init
<1>1. TypeOK
  <2>1. shown \in [Lists -> SUBSET Ids] /\ shown["agents"] \subseteq Agents
    BY DEF Stored, Lists, Ids
  <2>2. busy \in [Buttons -> BOOLEAN]
    BY DEF Idle
  <2>3. transcript \in [sel : Runs \cup {None}, of : Runs \cup {None}]
    BY DEF NoTranscript
  <2>4. place \in Views \cup {"landing", "login"} /\ rows \subseteq Ids
    BY DEF Ids
  <2>5. opened \in BOOLEAN /\ listening \in BOOLEAN
    OBVIOUS
  <2>6. QED
    BY <2>1, <2>2, <2>3, <2>4, <2>5 DEF TypeOK, AllLists
<1>2. ConsoleIsEntitled
  BY DEF ConsoleIsEntitled, Authed, Views
<1>3. Calm /\ Single
  BY DEF Calm, Single
<1>4. Held
  BY DEF Held, Idle, Guarded
<1>5. QED
  BY <1>1, <1>2, <1>3, <1>4 DEF CInv

LEMMA StepKeeps ==
  ASSUME CInv, [Next]_vars
  PROVE  CInv'
<1>1. CASE User
  BY <1>1, NavigateKeeps, SignOutKeeps, EditKeeps, DeleteKeeps, TapKeeps, PressKeeps, SelectKeeps
     DEF User
<1>2. CASE Retire
  BY <1>2, RetireKeeps
<1>3. ASSUME NEW c \in calls, Proceed(c) \/ Lose(c)
      PROVE  CInv'
  BY <1>3, ServeKeeps, SignedInKeeps, OpenedKeeps, SavedKeeps, ListedKeeps, ChangedKeeps,
     ToldKeeps, MicOpensKeeps, OverKeeps, LoseKeeps
     DEF Proceed
<1>4. CASE UNCHANGED vars
  <2>1. TypeOK'
    BY <1>4 DEF CInv, TypeOK, vars, server, view
  <2>2. QED
    BY <1>4, <2>1, Untouched DEF CInv, vars, server, view
<1>5. QED
  BY <1>1, <1>2, <1>3, <1>4 DEF Next

LEMMA Invariance == Spec => []CInv
<1>1. Init => CInv
  BY InitHolds
<1>2. CInv /\ [Next]_vars => CInv'
  BY StepKeeps
<1>3. QED
  BY <1>1, <1>2, PTL DEF Spec

(* The console is typed as App.tsx and the views declare it, and the roster shows agents. *)
THEOREM ConsoleTypes == Spec => []TypeOK
<1>1. CInv => TypeOK
  BY DEF CInv
<1>2. QED
  BY <1>1, Invariance, PTL

(* Whatever is answered, in any order and wherever the user is by then, no console is
   mounted without a token or in a retired demo. *)
THEOREM OnlyTheEntitled == Spec => []ConsoleIsEntitled
<1>1. CInv => ConsoleIsEntitled
  BY DEF CInv
<1>2. QED
  BY <1>1, Invariance, PTL

(* No button that is guarded is enabled before its request is over, or disabled after. *)
THEOREM BusyMeansInFlight == Spec => []BusyIsInFlight
<1>1. CInv => BusyIsInFlight
  BY HeldIsBusy DEF CInv
<1>2. QED
  BY <1>1, Invariance, PTL

-----------------------------------------------------------------------------
(* Lists and transcripts settle.                                           *)

(* The ids a list is made of. *)
Members(l) == IF l = "agents" THEN Agents ELSE Bindings

(* A request the view still waits for; one that has changed the rows and is not followed
   by a refresh yet. *)
Asks(c, l) == c.kind = l /\ ~c.gone
Alters(c) == c.kind \in {"save", "delete", "connect"} /\ c.at = "served"
Altered == \E c \in calls : Alters(c)

(* What is in flight was asked for in the view that shows it. *)
Belongs(c) ==
  ~c.gone =>
    /\ c.kind \in Lists => c.kind \in Mounts(place) /\ c.answer \subseteq Members(c.kind)
    /\ c.kind = "save" => place = "studio"
    /\ c.kind = "connect" => place = "channels" /\ c.of = None
    /\ c.kind = "delete" => place = IF c.of \in Agents THEN "studio" ELSE "channels"

Visible ==
  \A l \in Lists : shown[l] \subseteq Members(l) /\ (l \notin Mounts(place) => shown[l] = {})

(* One request of a list at a time; unless a change is not followed yet, what it brings
   is what is stored, and so is what is shown when there is none. *)
Fresh(l) ==
  l \notin mixed =>
    /\ \A c, d \in calls : Asks(c, l) /\ Asks(d, l) => c = d
    /\ \A c \in calls : Asks(c, l) => c.at # "refused"
    /\ ~Altered =>
         /\ \A c \in calls : Asks(c, l) /\ c.at = "served" => c.answer = Stored(l)
         /\ (\A c \in calls : ~Asks(c, l)) => shown[l] = Stored(l)

Script ==
  "transcript" \notin mixed =>
    /\ \A c, d \in calls : Asks(c, "transcript") /\ Asks(d, "transcript") => c = d
    /\ \A c \in calls : Asks(c, "transcript") => c.at # "refused" /\ c.of = transcript.sel
    /\ (\A c \in calls : ~Asks(c, "transcript")) => transcript.of = transcript.sel

SettleInv ==
  /\ \A c \in calls : Belongs(c)
  /\ Visible
  /\ \A l \in Mounts(place) : Fresh(l)
  /\ Script

(* What a view mounts: the roster, or the bindings and their bots. *)
LEMMA Mounting ==
  /\ Mounts("studio") = {"agents"} /\ Mounts("channels") = {"bindings", "status"}
  /\ \A p : p \notin {"studio", "channels"} => Mounts(p) = {}
  /\ Lists = {"agents", "bindings", "status"}
  BY DEF Mounts, Lists

(* Steps that touch no request of l, and nothing it brings. *)
LEMMA FreshQuiet ==
  ASSUME NEW l \in Lists, Fresh(l),
         \A d \in calls' : d \in calls \/ ~Asks(d, l),
         \A c \in calls : c \in calls' \/ ~Asks(c, l),
         Altered => Altered', rows' = rows \/ Altered',
         shown'[l] = shown[l], mixed \subseteq mixed'
  PROVE  Fresh(l)'
<1>1. rows' = rows => Stored(l)' = Stored(l)
  BY DEF Stored
<1>2. QED
  BY <1>1 DEF Fresh

LEMMA ScriptQuiet ==
  ASSUME Script,
         \A d \in calls' : d \in calls \/ ~Asks(d, "transcript"),
         \A c \in calls : c \in calls' \/ ~Asks(c, "transcript") \/ "transcript" \in mixed,
         UNCHANGED transcript, mixed \subseteq mixed'
  PROVE  Script'
  BY DEF Script

(* Steps that only send, or end, requests of something else.  The rows may change, if the
   request that has changed them is in flight. *)
LEMMA Quiet ==
  ASSUME SettleInv, UNCHANGED <<place, shown, transcript>>, mixed \subseteq mixed',
         rows' = rows \/ Altered',
         \A d \in calls' : d \in calls \/ (d.kind \notin AllLists /\ Belongs(d)),
         \A c \in calls :
           \/ c \in calls'
           \/ c.kind \notin Lists /\ ~Alters(c)
              /\ (Asks(c, "transcript") => "transcript" \in mixed)
  PROVE  SettleInv'
<1>1. \A c \in calls' : Belongs(c)'
  BY DEF SettleInv, Belongs
<1>2. Visible'
  BY DEF SettleInv, Visible
<1>3. Altered => Altered'
  BY DEF Altered
<1>4. ASSUME NEW l \in Mounts(place) PROVE Fresh(l)'
  <2>1. l \in Lists /\ Fresh(l)
    BY Mounted DEF SettleInv
  <2>2. \A d \in calls' : d \in calls \/ ~Asks(d, l)
    BY <2>1 DEF Asks, AllLists
  <2>3. \A c \in calls : c \in calls' \/ ~Asks(c, l)
    BY <2>1 DEF Asks
  <2>4. QED
    BY <1>3, <2>1, <2>2, <2>3, FreshQuiet
<1>5. Script'
  BY ScriptQuiet DEF SettleInv, Asks, AllLists
<1>6. QED
  BY <1>1, <1>2, <1>4, <1>5 DEF SettleInv

(* Another view: what was left is gone, and what is mounted is on its way. *)
LEMMA ShowSettles ==
  ASSUME CInv, NEW p, NEW rest \in SUBSET calls, Show(p, rest), clicks' \in Nat
  PROVE  SettleInv'
<1>1. /\ place' = p /\ shown' = NothingShown /\ transcript' = NoTranscript /\ mixed' = {}
      /\ calls' = {Leave(c, p) : c \in rest} \cup Fetch(Mounts(p))
  BY DEF Show
<1>2. \A c \in rest : Leave(c, p).gone
  BY Marking DEF CInv, TypeOK
<1>3. ASSUME NEW d \in calls', ~d.gone
      PROVE  \E l \in Mounts(p) : d = Call(l, None)
  BY <1>1, <1>2, <1>3 DEF Fetch
<1>4. ASSUME NEW l \in Mounts(p)
      PROVE  /\ Call(l, None).kind = l /\ Call(l, None).at = "sent" /\ ~Call(l, None).gone
             /\ Call(l, None).answer = {}
             /\ Call(l, None) \in calls'
  BY <1>1 DEF Call, Fetch
<1>6. ASSUME NEW d \in calls' PROVE Belongs(d)'
  <2>1. CASE d.gone
    BY <2>1 DEF Belongs
  <2>2. CASE ~d.gone
    BY <1>1, <1>3, <1>4, <2>2, Mounted DEF Belongs, Lists
  <2>3. QED
    BY <2>1, <2>2
<1>7. Visible'
  BY <1>1 DEF Visible, NothingShown
<1>8. ASSUME NEW l \in Mounts(place') PROVE Fresh(l)'
  <2>1. \A d \in calls' : Asks(d, l) => d = Call(l, None)
    BY <1>3, <1>4 DEF Asks
  <2>2. Call(l, None) \in calls' /\ Asks(Call(l, None), l) /\ Call(l, None).at = "sent"
    BY <1>1, <1>4, <1>8 DEF Asks
  <2>3. QED
    BY <2>1, <2>2 DEF Fresh
<1>9. Script'
  <2>1. \A d \in calls' : ~Asks(d, "transcript")
    BY <1>3, <1>4, Mounted DEF Asks, Lists
  <2>2. QED
    BY <1>1, <2>1 DEF Script, NoTranscript
<1>10. QED
  BY <1>6, <1>7, <1>8, <1>9 DEF SettleInv

(* A new request is one the view waits for, and has changed nothing yet. *)
LEMMA Sending ==
  ASSUME NEW kind, NEW of
  PROVE  /\ Call(kind, of).kind = kind /\ Call(kind, of).of = of
         /\ Call(kind, of).at = "sent" /\ ~Call(kind, of).gone
         /\ Call(kind, of).answer = {}
  BY DEF Call

LEMMA PressSettles ==
  ASSUME CInv, SettleInv, NEW b \in Buttons, Press(b)
  PROVE  SettleInv'
<1> DEFINE d == Call(b, IF b = "save" THEN editing ELSE None)
<1>1. /\ calls' = calls \cup {d} /\ UNCHANGED <<place, rows, shown, transcript, mixed>>
      /\ place = Place[b]
  BY DEF Press, server
<1>2. /\ d.kind = b /\ ~d.gone /\ d.of = IF b = "save" THEN editing ELSE None
  BY Sending
<1>3. d.kind \notin AllLists /\ d.kind # "delete"
  BY <1>2, GuardedKinds DEF AllLists, Lists
<1>4. Belongs(d)
  BY <1>1, <1>2, <1>3 DEF Belongs, AllLists, Place
<1>5. QED
  BY <1>1, <1>3, <1>4, Quiet

(* The crosses are where the lists are. *)
LEMMA DeleteSettles ==
  ASSUME CInv, SettleInv, Delete
  PROVE  SettleInv'
<1>1. PICK i \in shown["agents"] \cup shown["bindings"] :
        calls' = calls \cup {Call("delete", i)}
  BY DEF Delete
<1> DEFINE d == Call("delete", i)
<1>2. UNCHANGED <<place, rows, shown, transcript, mixed>>
  BY DEF Delete, server, view
<1>3. d.kind = "delete" /\ d.of = i
  BY Sending
<1>4. place = IF i \in Agents THEN "studio" ELSE "channels"
  <2>1. /\ "agents" \in Lists /\ "bindings" \in Lists
        /\ \A l \in Lists : shown[l] \subseteq Members(l)
                           /\ (l \notin Mounts(place) => shown[l] = {})
    BY DEF Lists, SettleInv, Visible
  <2>2. Agents \cap Bindings = {} /\ Members("agents") = Agents /\ Members("bindings") = Bindings
    BY ConsoleAssumption DEF ConsoleAssumption, Members
  <2>3. CASE i \in shown["agents"]
    BY <2>1, <2>2, <2>3, Mounting
  <2>4. CASE i \in shown["bindings"]
    BY <2>1, <2>2, <2>4, Mounting
  <2>5. QED
    BY <1>1, <2>3, <2>4
<1>5. Belongs(d) /\ d.kind \notin AllLists
  BY <1>3, <1>4 DEF Belongs, AllLists, Lists
<1>6. QED
  BY <1>1, <1>2, <1>5, Quiet

LEMMA TapSettles ==
  ASSUME CInv, SettleInv, Tap
  PROVE  SettleInv'
<1> DEFINE d == Call(IF listening THEN "voice" ELSE "mic", None)
<1>1. calls' = calls \cup {d} /\ UNCHANGED <<place, rows, shown, transcript, mixed>>
  BY DEF Tap, server
<1>2. d.kind \in {"voice", "mic"}
  BY Sending
<1>3. Belongs(d) /\ d.kind \notin AllLists
  BY <1>2 DEF Belongs, AllLists, Lists
<1>4. QED
  BY <1>1, <1>3, Quiet

(* A run that is selected is the only one whose messages are asked for, or they mix. *)
LEMMA SelectSettles ==
  ASSUME CInv, SettleInv, NEW r \in Runs, Select(r)
  PROVE  SettleInv'
<1> DEFINE d == Call("transcript", r)
<1>1. /\ calls' = calls \cup {d} /\ UNCHANGED <<place, rows, shown>>
      /\ mixed' = mixed \cup Together({"transcript"})
  BY DEF Select, server
<1>2. d.kind = "transcript" /\ d.of = r /\ d.at = "sent" /\ ~d.gone
  BY Sending
<1>3. \A c \in calls' : Belongs(c)'
  BY <1>1, <1>2 DEF SettleInv, Belongs, Lists
<1>4. Visible'
  BY <1>1 DEF SettleInv, Visible
<1>5. ASSUME NEW l \in Mounts(place) PROVE Fresh(l)'
  <2>1. l \in Lists /\ Fresh(l) /\ ~Asks(d, l)
    BY <1>2, Mounted DEF SettleInv, Asks, Lists
  <2>2. Altered => Altered'
    BY <1>1 DEF Altered
  <2>3. QED
    BY <1>1, <2>1, <2>2, FreshQuiet
<1>6. Script'
  <2>1. SUFFICES ASSUME "transcript" \notin mixed' PROVE Script'
    BY DEF Script
  <2>2. \A c \in calls : ~Asks(c, "transcript")
    BY <1>1, <2>1 DEF Together, InFlight, Asks
  <2>3. transcript'.sel = r
    BY DEF Select, CInv, TypeOK
  <2>4. Asks(d, "transcript")
    BY <1>2 DEF Asks
  <2>5. QED
    BY <1>1, <1>2, <2>2, <2>3, <2>4 DEF Script
<1>7. QED
  BY <1>1, <1>3, <1>4, <1>5, <1>6 DEF SettleInv

(* What changes the rows is still in flight when they are changed. *)
LEMMA ServeSettles ==
  ASSUME CInv, SettleInv, NEW c \in calls, Serve(c)
  PROVE  SettleInv'
<1>1. /\ c \in Requests /\ c.at = "sent" /\ Belongs(c) /\ ~Alters(c)
      /\ UNCHANGED <<place, shown, transcript, mixed>>
  BY DEF CInv, TypeOK, SettleInv, Serve, Alters, view
<1>2. ASSUME c.kind \in {"save", "connect", "delete"}, Served(c, {})
      PROVE  SettleInv'
  <2> DEFINE d == [c EXCEPT !.at = "served", !.answer = {}]
  <2>1. /\ d.kind = c.kind /\ d.of = c.of /\ d.gone = c.gone /\ d.at = "served"
        /\ d.answer = {}
    BY <1>1 DEF Requests
  <2>2. calls' = (calls \ {c}) \cup {d}
    BY <1>2 DEF Served, Answers
  <2>3. d.kind \notin AllLists /\ c.kind \notin AllLists
    BY <1>2, <2>1 DEF AllLists, Lists
  <2>4. Belongs(d)
    BY <1>1, <2>1, <2>3 DEF Belongs, AllLists
  <2>5. Altered'
    BY <1>2, <2>1, <2>2 DEF Altered, Alters
  <2>6. \A e \in calls : e \in calls' \/ e = c
    BY <2>2
  <2>7. ~Asks(c, "transcript") /\ c.kind \notin Lists
    BY <2>3 DEF Asks, AllLists
  <2> HIDE DEF d
  <2>8. QED
    BY <1>1, <2>2, <2>3, <2>4, <2>5, <2>6, <2>7, Quiet
<1>3. ASSUME c.kind = "save", UNCHANGED rows, Answers(c, [c EXCEPT !.at = "refused"])
      PROVE  SettleInv'
  <2> DEFINE d == [c EXCEPT !.at = "refused"]
  <2>1. d.kind = c.kind /\ d.of = c.of /\ d.gone = c.gone /\ d.answer = c.answer
    BY <1>1 DEF Requests
  <2>2. calls' = (calls \ {c}) \cup {d}
    BY <1>3 DEF Answers
  <2>3. d.kind \notin AllLists /\ c.kind \notin AllLists
    BY <1>3, <2>1 DEF AllLists, Lists
  <2>4. Belongs(d)
    BY <1>1, <2>1 DEF Belongs
  <2>5. \A e \in calls : e \in calls' \/ e = c
    BY <2>2
  <2>6. ~Asks(c, "transcript") /\ c.kind \notin Lists
    BY <2>3 DEF Asks, AllLists
  <2> HIDE DEF d
  <2>7. QED
    BY <1>1, <1>3, <2>2, <2>3, <2>4, <2>5, <2>6, Quiet
<1>4. ASSUME ServeRead(c)
      PROVE  SettleInv'
  <2> DEFINE d == [c EXCEPT !.at = "served", !.answer = Stored(c.kind)]
  <2>1. /\ d.kind = c.kind /\ d.of = c.of /\ d.gone = c.gone /\ d.at = "served"
        /\ d.answer = Stored(c.kind)
    BY <1>1 DEF Requests
  <2>2. calls' = (calls \ {c}) \cup {d} /\ UNCHANGED rows
    BY <1>4 DEF ServeRead, Served, Answers
  <2>3. c.kind \notin {"save", "connect", "delete"}
    BY <1>4 DEF ServeRead
  <2> HIDE DEF d
  <2>4. ~Alters(d) /\ (\A l : Asks(d, l) <=> Asks(c, l))
    BY <2>1, <2>3 DEF Alters, Asks
  <2>5. \A l : Stored(l) \subseteq Members(l) /\ Stored(l)' = Stored(l)
    BY <2>2 DEF Stored, Members
  <2>6. Belongs(d)
    BY <1>1, <2>1, <2>5 DEF Belongs
  <2>7. \A e \in calls' : Belongs(e)'
    BY <1>1, <2>2, <2>6 DEF SettleInv, Belongs
  <2>8. Visible'
    BY <1>1 DEF SettleInv, Visible
  <2>9. Altered' <=> Altered
    BY <1>1, <2>2, <2>4 DEF Altered
  <2>10. ASSUME NEW l \in Mounts(place) PROVE Fresh(l)'
    <3>1. Fresh(l)
      BY DEF SettleInv
    <3>2. Asks(d, l) => d.answer = Stored(l) /\ d.at = "served"
      BY <2>1 DEF Asks
    <3>3. QED
      BY <1>1, <2>2, <2>4, <2>5, <2>9, <3>1, <3>2 DEF Fresh
  <2>11. Script'
    BY <1>1, <2>1, <2>2, <2>4 DEF SettleInv, Script
  <2>12. QED
    BY <1>1, <2>7, <2>8, <2>10, <2>11 DEF SettleInv
<1>5. QED
  <2>1. ServeConnect(c) => c.kind = "connect" /\ Served(c, {})
    BY DEF ServeConnect
  <2>2. ServeDelete(c) => c.kind = "delete" /\ Served(c, {})
    BY DEF ServeDelete
  <2>3. ServeSave(c) => /\ c.kind = "save"
                        /\ \/ Served(c, {})
                           \/ UNCHANGED rows /\ Answers(c, [c EXCEPT !.at = "refused"])
    BY DEF ServeSave
  <2>4. QED
    BY <1>2, <1>3, <1>4, <2>1, <2>2, <2>3 DEF Serve

(* A loss mixes everything. *)
LEMMA LoseSettles ==
  ASSUME CInv, SettleInv, NEW c \in calls, Lose(c)
  PROVE  SettleInv'
<1> DEFINE d == [c EXCEPT !.at = "refused"]
<1>1. c \in Requests
  BY DEF CInv, TypeOK
<1>2. d.kind = c.kind /\ d.of = c.of /\ d.gone = c.gone /\ d.answer = c.answer
  BY <1>1 DEF Requests
<1>3. /\ calls' = (calls \ {c}) \cup {d} /\ AllLists \subseteq mixed'
      /\ UNCHANGED <<place, shown>>
  BY DEF Lose, Answers, view
<1> HIDE DEF d
<1>4. \A e \in calls' : Belongs(e)'
  BY <1>2, <1>3 DEF SettleInv, Belongs
<1>5. Visible'
  BY <1>3 DEF SettleInv, Visible
<1>6. \A l \in Mounts(place) : Fresh(l)'
  BY <1>3, Mounted DEF Fresh, AllLists
<1>7. Script'
  BY <1>3 DEF Script, AllLists
<1>8. QED
  BY <1>3, <1>4, <1>5, <1>6, <1>7 DEF SettleInv

(* A request is over and nothing follows. *)
LEMMA Ended ==
  ASSUME NEW c \in calls, Then(c, {})
  PROVE  calls' = calls \ {c} /\ mixed \subseteq mixed'
<1>1. {[d EXCEPT !.id = c.id] : d \in Fetch({})} = {}
  BY DEF Fetch
<1>2. QED
  BY <1>1 DEF Then

LEMMA SignedInSettles ==
  ASSUME CInv, SettleInv, NEW c \in calls, SignedIn(c)
  PROVE  SettleInv'
<1>1. CASE Then(c, {}) /\ UNCHANGED <<place, view>>
  <2>1. calls' = calls \ {c} /\ mixed \subseteq mixed'
    BY <1>1, Ended
  <2>2. c.kind = "login" /\ UNCHANGED <<place, rows, shown, transcript>>
    BY <1>1 DEF SignedIn, server, view
  <2>3. c.kind \notin Lists /\ ~Alters(c) /\ ~Asks(c, "transcript")
    BY <2>2 DEF Lists, Alters, Asks
  <2>4. QED
    BY <2>1, <2>2, <2>3, Quiet
<1>2. CASE Show("templates", calls \ {c}) /\ UNCHANGED clicks
  <2>1. calls \ {c} \in SUBSET calls /\ clicks' \in Nat
    BY <1>2 DEF CInv, TypeOK
  <2>2. QED
    BY <1>2, <2>1, ShowSettles
<1>3. QED
  BY <1>1, <1>2 DEF SignedIn

LEMMA OpenedSettles ==
  ASSUME CInv, SettleInv, NEW c \in calls, Opened(c)
  PROVE  SettleInv'
<1>1. Show("builder", calls \ {c}) /\ calls \ {c} \in SUBSET calls /\ clicks' \in Nat
  BY DEF Opened, CInv, TypeOK
<1>2. QED
  BY <1>1, ShowSettles

(* The microphone, and what only stops being busy. *)
LEMMA OverSettles ==
  ASSUME CInv, SettleInv, NEW c \in calls, MicOpens(c) \/ Over(c)
  PROVE  SettleInv'
<1>1. Then(c, {}) /\ UNCHANGED <<place, rows, shown, transcript>>
  BY DEF MicOpens, Over, server
<1>2. calls' = calls \ {c} /\ mixed \subseteq mixed'
  BY <1>1, Ended
<1>3. c.kind \notin Lists /\ ~Alters(c)
  BY DEF MicOpens, Over, Lists, Alters
<1>4. Asks(c, "transcript") => "transcript" \in mixed
  BY DEF MicOpens, Over, Asks, SettleInv, Script
<1>5. QED
  BY <1>1, <1>2, <1>3, <1>4, Quiet

(* The messages of a run have come. *)
LEMMA ToldSettles ==
  ASSUME CInv, SettleInv, NEW c \in calls, Told(c)
  PROVE  SettleInv'
<1>1. /\ Then(c, {}) /\ c.kind = "transcript" /\ UNCHANGED <<place, rows, shown>>
      /\ transcript' = IF c.gone THEN transcript ELSE [transcript EXCEPT !.of = c.of]
  BY DEF Told, server
<1>2. calls' = calls \ {c} /\ mixed \subseteq mixed'
  BY <1>1, Ended
<1>3. (\A e \in calls' : Belongs(e)') /\ Visible'
  BY <1>1, <1>2 DEF SettleInv, Belongs, Visible
<1>4. ASSUME NEW l \in Mounts(place) PROVE Fresh(l)'
  <2>1. l \in Lists /\ Fresh(l) /\ ~Asks(c, l)
    BY <1>1, Mounted DEF SettleInv, Asks, Lists
  <2>2. Altered => Altered'
    BY <1>1, <1>2 DEF Altered, Alters
  <2>3. QED
    BY <1>1, <1>2, <2>1, <2>2, FreshQuiet
<1>5. Script'
  <2>1. CASE c.gone
    BY <1>1, <1>2, <2>1, ScriptQuiet DEF SettleInv, Asks
  <2>2. CASE ~c.gone
    <3>1. SUFFICES ASSUME "transcript" \notin mixed' PROVE Script'
      BY DEF Script
    <3>2. Asks(c, "transcript")
      BY <1>1, <2>2 DEF Asks
    <3>3. c.of = transcript.sel /\ \A e \in calls' : ~Asks(e, "transcript")
      BY <1>2, <3>1, <3>2 DEF SettleInv, Script
    <3>4. transcript'.sel = transcript.sel /\ transcript'.of = c.of
      BY <1>1, <2>2 DEF CInv, TypeOK
    <3>5. QED
      BY <3>3, <3>4 DEF Script
  <2>3. QED
    BY <2>1, <2>2
<1>6. QED
  BY <1>1, <1>3, <1>4, <1>5 DEF SettleInv

(* A list is shown as it was answered, and no other request of it is in flight. *)
LEMMA ListedSettles ==
  ASSUME CInv, SettleInv, NEW c \in calls, Listed(c)
  PROVE  SettleInv'
<1>1. /\ Then(c, {}) /\ c.kind \in Lists /\ UNCHANGED <<place, rows, transcript>>
      /\ c.at \in {"served", "refused"}
      /\ shown' = IF ~c.gone /\ c.at = "served" THEN [shown EXCEPT ![c.kind] = c.answer]
                  ELSE shown
  BY DEF Listed, server, view
<1>2. calls' = calls \ {c} /\ mixed \subseteq mixed'
  BY <1>1, Ended
<1>3. c.kind \notin {"save", "delete", "connect", "transcript"}
  BY <1>1 DEF Lists
<1>4. shown \in [Lists -> SUBSET Ids]
  BY DEF CInv, TypeOK
<1>5. \A e \in calls' : Belongs(e)'
  BY <1>1, <1>2 DEF SettleInv, Belongs
<1>6. Visible'
  <2>1. ~c.gone => c.kind \in Mounts(place) /\ c.answer \subseteq Members(c.kind)
    BY <1>1 DEF SettleInv, Belongs
  <2>2. QED
    BY <1>1, <1>4, <2>1 DEF SettleInv, Visible
<1>7. (Altered => Altered') /\ ~Alters(c)
  BY <1>2, <1>3 DEF Altered, Alters
<1>8. ASSUME NEW l \in Mounts(place) PROVE Fresh(l)'
  <2>1. l \in Lists /\ Fresh(l)
    BY Mounted DEF SettleInv
  <2>2. CASE ~Asks(c, l)
    <3>1. shown'[l] = shown[l]
      BY <1>1, <1>4, <2>1, <2>2 DEF Asks
    <3>2. QED
      BY <1>1, <1>2, <1>7, <2>1, <2>2, <3>1, FreshQuiet
  <2>3. CASE Asks(c, l)
    <3>1. SUFFICES ASSUME l \notin mixed' PROVE Fresh(l)'
      BY DEF Fresh
    <3>2. /\ c.at = "served" /\ \A e \in calls' : ~Asks(e, l)
          /\ ~Altered => c.answer = Stored(l)
      BY <1>1, <1>2, <2>1, <2>3, <3>1 DEF Fresh
    <3>3. shown'[l] = c.answer
      BY <1>1, <1>4, <2>3, <3>2 DEF Asks
    <3>4. Stored(l)' = Stored(l)
      BY <1>1 DEF Stored
    <3>5. QED
      BY <1>7, <3>2, <3>3, <3>4 DEF Fresh
  <2>4. QED
    BY <2>2, <2>3
<1>9. Script'
  <2>1. ~Asks(c, "transcript")
    BY <1>3 DEF Asks
  <2>2. QED
    BY <1>1, <1>2, <2>1, ScriptQuiet DEF SettleInv
<1>10. QED
  BY <1>1, <1>5, <1>6, <1>8, <1>9 DEF SettleInv

(* The fetches of ls that take the place of a request. *)
Refetched(c, ls) == {[d EXCEPT !.id = c.id] : d \in Fetch(ls)}

(* They are of ls, one each, and on their way. *)
LEMMA Refetching ==
  ASSUME NEW c, NEW ls
  PROVE  /\ \A e \in Refetched(c, ls) : e.kind \in ls /\ e.at = "sent" /\ ~e.gone /\ e.answer = {}
         /\ \A e, f \in Refetched(c, ls) : e.kind = f.kind => e = f
         /\ \A l \in ls : \E e \in Refetched(c, ls) : e.kind = l
<1> DEFINE E(l) == [Call(l, None) EXCEPT !.id = c.id]
<1>1. ASSUME NEW l
      PROVE  E(l).kind = l /\ E(l).at = "sent" /\ ~E(l).gone /\ E(l).answer = {}
  BY DEF Call
<1>2. /\ \A e \in Refetched(c, ls) : \E l \in ls : e = E(l)
      /\ \A l \in ls : E(l) \in Refetched(c, ls)
  BY DEF Refetched, Fetch
<1> HIDE DEF E
<1>3. ASSUME NEW e \in Refetched(c, ls)
      PROVE  e.kind \in ls /\ e = E(e.kind)
  BY <1>1, <1>2
<1>4. \A e \in Refetched(c, ls) : e.kind \in ls /\ e.at = "sent" /\ ~e.gone /\ e.answer = {}
  BY <1>1, <1>2
<1>5. \A e, f \in Refetched(c, ls) : e.kind = f.kind => e = f
  BY <1>3
<1>6. \A l \in ls : \E e \in Refetched(c, ls) : e.kind = l
  BY <1>1, <1>2
<1>7. QED
  BY <1>4, <1>5, <1>6

(* After a change that is over or followed by a refresh, the lists of its view are
   fetched; of one whose view was left, they are mixed. *)
LEMMA FollowSettles ==
  ASSUME CInv, SettleInv, NEW c \in calls, Alters(c), NEW S, NEW ls \in SUBSET Mounts(place),
         calls' = (calls \ {c}) \cup S, UNCHANGED <<place, rows, shown, transcript>>,
         mixed \subseteq mixed', Together(ls) \subseteq mixed',
         \A l \in Mounts(place) : l \in ls \/ l \in mixed',
         \A e \in S : e.kind \in Lists /\ (~e.gone => e.kind \in ls)
                       /\ e.at = "sent" /\ e.answer \subseteq Members(e.kind),
         \A e, f \in S : e.kind = f.kind => e = f,
         \A l \in ls : l \in mixed' \/ \E e \in S : Asks(e, l)
  PROVE  SettleInv'
<1>1. \A e \in calls' : Belongs(e)'
  <2>1. ASSUME NEW e \in S PROVE Belongs(e)'
    BY <2>1 DEF Belongs, Lists
  <2>2. ASSUME NEW e \in calls PROVE Belongs(e)'
    BY <2>2 DEF SettleInv, Belongs
  <2>3. QED
    BY <2>1, <2>2
<1>2. Visible'
  BY DEF SettleInv, Visible
<1>3. ASSUME NEW l \in Mounts(place) PROVE Fresh(l)'
  <2>1. SUFFICES ASSUME l \notin mixed' PROVE Fresh(l)'
    BY DEF Fresh
  <2>2. l \in ls /\ \A e \in calls : ~Asks(e, l)
    BY <2>1 DEF Together, InFlight, Asks
  <2>3. PICK e \in S : Asks(e, l)
    BY <2>1, <2>2
  <2>4. \A f \in calls' : Asks(f, l) => f = e
    BY <2>2, <2>3 DEF Asks
  <2>5. e \in calls' /\ e.at = "sent"
    BY <2>3
  <2>6. QED
    BY <2>3, <2>4, <2>5 DEF Fresh
<1>4. Script'
  <2>1. \A e \in S \cup {c} : ~Asks(e, "transcript")
    BY DEF Asks, Alters, Lists
  <2>2. QED
    BY <2>1, ScriptQuiet DEF SettleInv
<1>5. QED
  BY <1>1, <1>2, <1>3, <1>4 DEF SettleInv

LEMMA SavedSettles ==
  ASSUME CInv, SettleInv, NEW c \in calls, Saved(c)
  PROVE  SettleInv'
<1> DEFINE d == [c EXCEPT !.kind = "agents", !.of = "save", !.at = "sent"]
           ls == IF c.gone THEN {} ELSE {"agents"}
<1>1. c \in Requests /\ Alters(c) /\ c.answer \subseteq Agents /\ Belongs(c)
  BY DEF CInv, TypeOK, Calm, Tidy, SettleInv, Saved, Alters
<1>2. /\ d.kind = "agents" /\ d.gone = c.gone /\ d.at = "sent" /\ d.answer = c.answer
  BY <1>1 DEF Requests
<1>3. /\ calls' = (calls \ {c}) \cup {d} /\ UNCHANGED <<place, rows, shown, transcript>>
      /\ mixed' = mixed \cup IF c.gone THEN Lists ELSE Together({"agents"})
  BY DEF Saved, Answers, server, view
<1> HIDE DEF d
<1>4. ~c.gone => Mounts(place) = {"agents"}
  BY <1>1, Mounting DEF Belongs, Saved
<1>5. ls \in SUBSET Mounts(place) /\ \A l \in Mounts(place) : l \in ls \/ l \in mixed'
  BY <1>3, <1>4, Mounted
<1>6. mixed \subseteq mixed' /\ Together(ls) \subseteq mixed'
  BY <1>3 DEF Together
<1>7. /\ d.kind \in Lists /\ (~d.gone => d.kind \in ls)
      /\ d.answer \subseteq Members(d.kind)
      /\ \A l \in ls : Asks(d, l)
  BY <1>1, <1>2 DEF Lists, Members, Asks
<1> HIDE DEF ls
<1>8. QED
  BY <1>1, <1>2, <1>3, <1>5, <1>6, <1>7, FollowSettles

LEMMA ChangedSettles ==
  ASSUME CInv, SettleInv, NEW c \in calls, Changed(c)
  PROVE  SettleInv'
<1> DEFINE ls == IF c.gone THEN {}
                 ELSE IF c.of \in Agents THEN {"agents"} ELSE {"bindings", "status"}
           S == Refetched(c, ls)
<1>1. Alters(c) /\ Belongs(c) /\ c.kind \in Changes
  BY DEF SettleInv, Changed, Changes, Alters
<1>2. /\ calls' = (calls \ {c}) \cup S /\ UNCHANGED <<place, rows, shown, transcript>>
      /\ mixed' = mixed \cup IF c.gone THEN Lists ELSE Together(ls)
  BY <1>1 DEF Changed, Then, Refetched, server
<1>3. ~c.gone => Mounts(place) = ls
  <2>1. None \notin Agents
    BY ConsoleAssumption DEF ConsoleAssumption
  <2>2. QED
    BY <1>1, <2>1, Mounting DEF Belongs, Changes
<1>4. ls \in SUBSET Mounts(place) /\ \A l \in Mounts(place) : l \in ls \/ l \in mixed'
  BY <1>2, <1>3, Mounted
<1>5. mixed \subseteq mixed' /\ Together(ls) \subseteq mixed'
  BY <1>2 DEF Together
<1>6. ls \subseteq Lists
  BY <1>4, Mounted
<1> HIDE DEF ls
<1>7. /\ \A e \in S : e.kind \in ls /\ e.at = "sent" /\ ~e.gone /\ e.answer = {}
      /\ \A e, f \in S : e.kind = f.kind => e = f
      /\ \A l \in ls : \E e \in S : e.kind = l
  BY Refetching
<1> HIDE DEF S
<1>8. /\ \A e \in S : e.kind \in Lists /\ (~e.gone => e.kind \in ls)
                       /\ e.at = "sent" /\ e.answer \subseteq Members(e.kind)
      /\ \A l \in ls : \E e \in S : Asks(e, l)
  BY <1>6, <1>7 DEF Asks
<1>9. QED
  BY <1>1, <1>2, <1>4, <1>5, <1>7, <1>8, FollowSettles

(* What the user does, and what nobody does. *)
LEMMA UserSettles ==
  ASSUME CInv, SettleInv, User \/ Retire \/ UNCHANGED vars
  PROVE  SettleInv'
<1>1. CASE Navigate \/ SignOut
  <2>1. clicks' \in Nat /\ calls \in SUBSET calls
    BY <1>1 DEF Navigate, SignOut, Click, CInv, TypeOK
  <2>2. \E p : Show(p, calls)
    BY <1>1 DEF Navigate, SignOut
  <2>3. QED
    BY <2>1, <2>2, ShowSettles
<1>2. CASE Edit \/ Open \/ Retire \/ UNCHANGED vars
  <2>1. UNCHANGED <<place, rows, shown, transcript, calls, mixed>>
    BY <1>2 DEF Edit, Open, Retire, vars, server, view
  <2>2. QED
    BY <2>1, Quiet
<1>3. QED
  BY <1>1, <1>2, DeleteSettles, TapSettles, PressSettles, SelectSettles DEF User

LEMMA InitSettles ==
  ASSUME Init
  PROVE  SettleInv
<1>1. calls = {} /\ shown = [l \in Lists |-> IF l \in Mounts(place) THEN Stored(l) ELSE {}]
  BY DEF Init
<1>2. Visible
  BY <1>1 DEF Visible, Stored, Members
<1>3. \A l \in Mounts(place) : Fresh(l)
  BY <1>1, Mounted DEF Fresh
<1>4. Script
  BY <1>1 DEF Init, Script, NoTranscript
<1>5. QED
  BY <1>1, <1>2, <1>3, <1>4 DEF SettleInv

LEMMA Settling == Spec => [](CInv /\ SettleInv)
<1>1. Init => CInv /\ SettleInv
  BY InitHolds, InitSettles
<1>2. CInv /\ SettleInv /\ [Next]_vars => (CInv /\ SettleInv)'
  <2>1. SUFFICES ASSUME CInv, SettleInv, [Next]_vars PROVE CInv' /\ SettleInv'
    OBVIOUS
  <2>2. ASSUME NEW c \in calls, Proceed(c) \/ Lose(c)
        PROVE  SettleInv'
    BY <2>1, <2>2, ServeSettles, SignedInSettles, OpenedSettles, SavedSettles, ListedSettles,
       ChangedSettles, ToldSettles, OverSettles, LoseSettles
       DEF Proceed
  <2>3. SettleInv'
    BY <2>1, <2>2, UserSettles DEF Next
  <2>4. QED
    BY <2>1, <2>3, StepKeeps
<1>3. QED
  BY <1>1, <1>2, PTL DEF Spec

(* A list none of whose requests overlapped, failed or came to a view left too early
   shows what is stored, once no request of it and no change is in flight. *)
THEOREM ListsKept == Spec => []ListsSettle
<1>1. CInv /\ SettleInv => ListsSettle
  <2>1. SUFFICES ASSUME SettleInv, NEW l \in Mounts(place), l \notin mixed,
                        \A c \in calls : c.kind \notin {l, "save"} \cup Changes
                 PROVE  shown[l] = Stored(l)
    BY DEF ListsSettle
  <2>2. ~Altered /\ \A c \in calls : ~Asks(c, l)
    BY <2>1 DEF Altered, Alters, Asks, Changes
  <2>3. QED
    BY <2>1, <2>2 DEF SettleInv, Fresh
<1>2. QED
  BY <1>1, Settling, PTL

(* And a transcript is that of the run selected. *)
THEOREM TranscriptsKept == Spec => []TranscriptSettles
<1>1. CInv /\ SettleInv => TranscriptSettles
  BY DEF SettleInv, Script, TranscriptSettles, InFlight, Asks
<1>2. QED
  BY <1>1, Settling, PTL


-----------------------------------------------------------------------------
(* What ButtonsReturn rests on.                                            *)

(* A button that is busy waits for a request in flight, also one that is not guarded
   and of whose requests the first that is over makes it idle. *)
BusyIsOwed == \A b \in Buttons : busy[b] => Waits(b) # {}

Owed == \A b \in Buttons \ Guarded : busy[b] => \E c \in calls : WaitsFor(b, c)

LEMMA OwedIsBusy ==
  Held /\ Owed => BusyIsOwed
<1> SUFFICES ASSUME Held, Owed, NEW b \in Buttons, busy[b] PROVE Waits(b) # {}
  BY DEF BusyIsOwed
<1>1. \E c \in calls : WaitsFor(b, c)
  BY DEF Held, Owed
<1>2. \A c : c \in Waits(b) <=> c \in calls /\ WaitsFor(b, c)
  BY DEF Waits, InFlight, WaitsFor
<1>3. QED
  BY <1>1, <1>2

LEMMA OwedStep ==
  ASSUME CInv, Owed, [Next]_vars
  PROVE  Owed'
<1> SUFFICES ASSUME NEW b \in {"use", "generate"}, busy'[b]
             PROVE  \E c \in calls' : ~c.gone /\ c.kind = b
  BY GuardedKinds DEF Owed, WaitsFor
<1> DEFINE Goal == \E c \in calls' : ~c.gone /\ c.kind = b
<1>1. busy[b] => \E c \in calls : ~c.gone /\ c.kind = b
  BY GuardedKinds DEF Owed, WaitsFor
<1>2. /\ calls \subseteq Requests /\ busy \in [Buttons -> BOOLEAN] /\ b \in Buttons
      /\ b \notin {"voice", "save", "connect"}
  BY GuardedKinds DEF CInv, TypeOK
<1>3. ASSUME NEW p, NEW rest, Show(p, rest) PROVE Goal
  BY <1>3, GuardedKinds DEF Show, Idle
<1>4. ASSUME calls \subseteq calls', busy'[b] => busy[b] PROVE Goal
  BY <1>1, <1>4
<1>5. ASSUME NEW x \in Buttons, Press(x) PROVE Goal
  <2>1. /\ Call(x, IF x = "save" THEN editing ELSE None) \in calls' /\ calls \subseteq calls'
        /\ busy' = [busy EXCEPT ![x] = TRUE]
    BY <1>5 DEF Press
  <2>2. CASE x = b
    BY <2>1, <2>2 DEF Call
  <2>3. CASE x # b
    BY <1>2, <1>4, <2>1, <2>3
  <2>4. QED
    BY <2>2, <2>3
<1>6. CASE Open \/ Edit \/ Delete \/ Retire \/ \E r \in Runs : Select(r)
  BY <1>4, <1>6 DEF Open, Edit, Delete, Retire, Select, view
<1>7. CASE Tap
  <2>1. calls \subseteq calls' /\ (busy' = busy \/ busy' = [busy EXCEPT !["voice"] = TRUE])
    BY <1>7 DEF Tap
  <2>2. QED
    BY <1>2, <1>4, <2>1
\* A request that b does not wait for goes on or ends.
<1>8. ASSUME NEW c \in calls, calls \ {c} \subseteq calls', c.gone \/ c.kind # b,
             busy'[b] => busy[b]
      PROVE  Goal
  BY <1>1, <1>8
<1>9. ASSUME NEW c \in calls, Serve(c) \/ Lose(c) PROVE Goal
  <2>1. PICK d : calls' = (calls \ {c}) \cup {d} /\ d.kind = c.kind /\ d.gone = c.gone
    <3>1. \A a, s : LET d == [c EXCEPT !.at = s, !.answer = a]
                    IN  d.kind = c.kind /\ d.gone = c.gone
      BY <1>2 DEF Requests
    <3>2. \A s : LET d == [c EXCEPT !.at = s] IN d.kind = c.kind /\ d.gone = c.gone
      BY <1>2 DEF Requests
    <3>3. \/ \E a, s : calls' = (calls \ {c}) \cup {[c EXCEPT !.at = s, !.answer = a]}
          \/ \E s : calls' = (calls \ {c}) \cup {[c EXCEPT !.at = s]}
      BY <1>9 DEF Serve, Lose, ServeSave, ServeConnect, ServeDelete, ServeRead, Served, Answers
    <3>4. QED
      BY <3>1, <3>2, <3>3, ZenonT(60)
  <2>2. busy' = busy
    BY <1>9 DEF Serve, Lose, view
  <2>3. QED
    BY <1>1, <2>1, <2>2
<1>10. ASSUME NEW c \in calls, SignedIn(c) \/ Opened(c) PROVE Goal
  <2>1. CASE Then(c, {}) /\ UNCHANGED view /\ c.kind = "login"
    BY <1>8, <2>1 DEF Then, view
  <2>2. QED
    BY <1>3, <1>10, <2>1 DEF SignedIn, Opened
<1>11. ASSUME NEW c \in calls, Saved(c) PROVE Goal
  BY <1>8, <1>11 DEF Saved, Answers, view
<1>12. ASSUME NEW c \in calls, Listed(c) PROVE Goal
  <2>1. c.kind # b /\ calls \ {c} \subseteq calls'
    BY <1>12, GuardedKinds DEF Listed, Then, Lists
  <2>2. busy' = busy \/ busy' = [busy EXCEPT !["save"] = FALSE]
    BY <1>12 DEF Listed, view
  <2>3. QED
    BY <1>2, <1>8, <2>1, <2>2
<1>13. ASSUME NEW c \in calls, Changed(c) PROVE Goal
  <2>1. c.kind # b /\ calls \ {c} \subseteq calls'
    BY <1>13 DEF Changed, Then, Changes
  <2>2. busy' = busy \/ busy' = [busy EXCEPT !["connect"] = FALSE]
    BY <1>13 DEF Changed
  <2>3. QED
    BY <1>2, <1>8, <2>1, <2>2
<1>14. ASSUME NEW c \in calls, Told(c) \/ MicOpens(c) PROVE Goal
  BY <1>8, <1>14 DEF Told, MicOpens, Then
<1>15. ASSUME NEW c \in calls, Over(c) PROVE Goal
  <2>1. calls \ {c} \subseteq calls'
    BY <1>15 DEF Over, Then
  <2>2. busy' = IF c.kind \in Buttons /\ ~c.gone THEN [busy EXCEPT ![c.kind] = FALSE] ELSE busy
    BY <1>15 DEF Over
  <2>3. c.gone \/ c.kind # b
    BY <1>2, <2>2
  <2>4. busy'[b] => busy[b]
    BY <1>2, <2>2, <2>3
  <2>5. QED
    BY <1>8, <2>1, <2>3, <2>4
<1>16. CASE UNCHANGED vars
  BY <1>4, <1>16 DEF vars, view
<1>17. CASE Navigate \/ SignOut
  BY <1>3, <1>17 DEF Navigate, SignOut
<1>18. QED
  BY <1>5, <1>6, <1>7, <1>9, <1>10, <1>11, <1>12, <1>13, <1>14, <1>15, <1>16, <1>17
  DEF Next, User, Proceed

(* However requests, refusals, losses and changes of view interleave, no button is busy
   with nothing left that would free it. *)
THEOREM NoButtonIsStranded == Spec => []BusyIsOwed
<1>1. Init => Owed
  BY GuardedKinds DEF Init, Owed, Idle
<1>2. CInv => Held
  BY DEF CInv
<1>3. QED
  BY <1>1, <1>2, OwedIsBusy, OwedStep, Invariance, PTL DEF Spec

(* What a request may still bring, in steps: it is served or lost, and answered; a change
   is then followed by a fetch. *)
Rank(c) ==
  (CASE c.at = "sent" -> 3 [] c.at = "served" -> 2 [] c.at = "refused" -> 1)
    + (IF c.kind \in Changes \cup {"save"} /\ c.at # "refused" THEN 3 ELSE 0)

(* A request that goes on or ends leaves in its place, if anything, requests of a lower
   rank; the others stay, though their view may be left. *)
AnswersCount == [][\A c \in calls : Proceed(c) \/ Lose(c) => \A d \in calls' :
  Rank(d) < Rank(c) \/ \E x \in calls \ {c} : d \in {x, Leave(x, place')}]_vars

(* A fetch has rank 3. *)
LEMMA FetchRank ==
  ASSUME NEW ls \in SUBSET Lists, NEW d \in Fetch(ls), NEW i
  PROVE  Rank(d) = 3 /\ Rank([d EXCEPT !.id = i]) = 3
<1>1. PICK l \in ls : d = Call(l, None)
  BY DEF Fetch
<1>2. l \notin Changes \cup {"save"}
  BY DEF Lists, Changes
<1>3. QED
  BY <1>1, <1>2 DEF Rank, Call

LEMMA AnswerCounts ==
  ASSUME TypeOK, NEW c \in calls, Proceed(c) \/ Lose(c), NEW d \in calls'
  PROVE  Rank(d) < Rank(c) \/ \E x \in calls \ {c} : d \in {x, Leave(x, place')}
<1> DEFINE Goal == Rank(d) < Rank(c) \/ \E x \in calls \ {c} : d \in {x, Leave(x, place')}
<1>1. c \in Requests
  BY DEF TypeOK
<1>2. c.at \in {"sent", "served", "refused"} /\ Rank(c) \in 1 .. 6
  BY <1>1 DEF Rank, Requests
<1>3. CASE Serve(c) \/ Lose(c)
  <2>1. PICK a, s : calls' = (calls \ {c}) \cup {[c EXCEPT !.at = s, !.answer = a]}
                    /\ \/ c.at = "sent" /\ s = "served"
                       \/ c.at \in {"sent", "served"} /\ s = "refused"
    <3>1. [c EXCEPT !.at = "refused"] = [c EXCEPT !.at = "refused", !.answer = c.answer]
      BY <1>1 DEF Requests
    <3>2. QED
      BY <1>3, <3>1 DEF Serve, Lose, ServeSave, ServeConnect, ServeDelete, ServeRead, Served,
                        Answers
  <2>2. Rank([c EXCEPT !.at = s, !.answer = a]) < Rank(c)
    BY <1>1, <2>1 DEF Rank, Requests
  <2>3. QED
    BY <2>1, <2>2
<1>4. ASSUME NEW p, NEW rest \in SUBSET (calls \ {c}), Show(p, rest), Mounts(p) = {} PROVE Goal
  <2>1. d \in {Leave(x, p) : x \in rest} /\ place' = p
    BY <1>4 DEF Show, Fetch
  <2>2. QED
    BY <2>1
<1>5. ASSUME NEW ls \in SUBSET Lists, Then(c, ls), ls = {} \/ Rank(c) > 3 PROVE Goal
  <2>1. CASE d \in calls \ {c}
    BY <2>1
  <2>2. ASSUME NEW f \in Fetch(ls), d = [f EXCEPT !.id = c.id] PROVE Goal
    <3>1. ls # {} /\ Rank(d) = 3
      BY <2>2, FetchRank DEF Fetch
    <3>2. QED
      BY <1>2, <1>5, <3>1
  <2>3. QED
    BY <1>5, <2>1, <2>2 DEF Then
<1>6. CASE SignedIn(c) \/ Opened(c)
  <2>1. Mounts("templates") = {} /\ Mounts("builder") = {}
    BY DEF Mounts
  <2>2. calls \ {c} \in SUBSET (calls \ {c}) /\ {} \in SUBSET Lists
    OBVIOUS
  <2>3. QED
    BY <1>4, <1>5, <1>6, <2>1, <2>2 DEF SignedIn, Opened
<1>7. CASE Saved(c)
  <2>1. calls' = (calls \ {c}) \cup {[c EXCEPT !.kind = "agents", !.of = "save", !.at = "sent"]}
    BY <1>7 DEF Saved, Answers
  <2>2. Rank([c EXCEPT !.kind = "agents", !.of = "save", !.at = "sent"]) = 3 /\ Rank(c) = 5
    BY <1>1, <1>7 DEF Saved, Rank, Requests, Changes
  <2>3. QED
    BY <2>1, <2>2
<1>8. CASE Listed(c) \/ Told(c) \/ MicOpens(c) \/ Over(c)
  <2>1. Then(c, {}) /\ {} \in SUBSET Lists
    BY <1>8 DEF Listed, Told, MicOpens, Over
  <2>2. QED
    BY <1>5, <2>1
<1>9. CASE Changed(c)
  <2>1. PICK ls \in SUBSET Lists : Then(c, ls)
    BY <1>9 DEF Changed, Lists
  <2>2. Rank(c) = 5
    BY <1>9 DEF Changed, Rank
  <2>3. QED
    BY <1>5, <2>1, <2>2
<1>10. QED
  BY <1>3, <1>6, <1>7, <1>8, <1>9 DEF Proceed

(* Each answer, refusal or loss of a request brings what follows it nearer to its end, and
   takes nothing else back: no refresh follows a refresh for ever. *)
THEOREM EveryAnswerCounts == Spec => AnswersCount
<1> DEFINE Counts(c) == Proceed(c) \/ Lose(c) => \A d \in calls' :
             Rank(d) < Rank(c) \/ \E x \in calls \ {c} : d \in {x, Leave(x, place')}
<1>1. TypeOK => \A c \in calls : Counts(c)
  BY AnswerCounts
<1>2. QED
  BY <1>1, ConsoleTypes, PTL DEF AnswersCount
=============================================================================
