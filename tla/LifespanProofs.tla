---------------------------- MODULE LifespanProofs ----------------------------
(***************************************************************************)
(* Proofs about module Lifespan, for any number of agents, workflows,      *)
(* bindings, expressions and requests, and for any faults.                 *)
(*                                                                         *)
(* The invariant follows a request from await to await (Stage): an id that *)
(* is not spoilt has at most one request in flight (Separate), which says  *)
(* how far row and memory have come apart; without one they agree          *)
(* (Settled).                                                              *)
(***************************************************************************)
EXTENDS Lifespan, TLAPS

Locals == [kind : Kinds, of : Owners \cup Bindings \cup {None}, cron : Schedules \cup {Unset},
           seen : Schedules,
           at : {"unused", "sent", "loaded", "committed", "refreshed", "stopping", "stopped",
                 "done"}]

OwnerKinds == {"create", "update", "delete"}
BindingKinds == {"connect", "disconnect"}

(* The awaits at which a request of each kind may be. *)
Awaits(kind, at) ==
  \/ kind \in {"create", "connect"} /\ at \in {"loaded", "committed", "refreshed"}
  \/ kind = "update" /\ at \in {"sent", "loaded", "committed", "refreshed"}
  \/ kind = "delete" /\ at \in {"sent", "loaded", "committed"}
  \/ kind = "disconnect" /\ at \in {"sent", "loaded", "stopping", "stopped"}

(* A request in flight is about an id that was given, of the kind it is for. *)
Shape ==
  \A q \in Requests : InFlight(q) =>
    /\ req[q].of \in minted
    /\ req[q].kind \in OwnerKinds => req[q].of \in Owners
    /\ req[q].kind \in BindingKinds => req[q].of \in Bindings
    /\ Awaits(req[q].kind, req[q].at)
    /\ req[q].kind = "create" => req[q].cron \in Schedules

(* Nothing is in flight, and no bot runs, between a crash and the next start-up. *)
Down == ~up => bots = {} /\ \A q \in Requests : ~InFlight(q)

(* An id that was not given yet has left nothing anywhere. *)
Fresh ==
  /\ \A i \in Owners \ minted : row[i] = Absent /\ job[i] = None
  /\ \A b \in Bindings \ minted : b \notin bound /\ b \notin bots

(* Requests about one id do not overlap, unless it is spoilt. *)
Separate ==
  \A p, q \in Requests :
    InFlight(p) /\ InFlight(q) /\ req[p].of = req[q].of /\ req[q].of \notin spoilt => p = q

(* The job of an owner is the one its row asks for. *)
Mirror(i) ==
  /\ row[i] \in Crons => job[i] = row[i]
  /\ row[i] \in {None, Absent} => job[i] = None

OwnerStage(q, i) ==
  CASE req[q].at = "sent" -> Mirror(i)
    [] req[q].at = "loaded" ->
         /\ Mirror(i)
         /\ req[q].kind = "update" => row[i] = req[q].seen
         /\ req[q].kind = "create" => row[i] = Absent
    [] req[q].at = "committed" ->
         IF req[q].kind = "delete" THEN row[i] = Absent
         ELSE row[i] # Absent /\ (req[q].kind = "create" => job[i] = None)
    [] req[q].at = "refreshed" ->
         row[i] = req[q].seen /\ (req[q].kind = "create" => job[i] = None)
    [] OTHER -> FALSE

BindingStage(q, b) ==
  CASE req[q].at = "sent" -> b \in bots <=> b \in bound
    [] req[q].at = "loaded" ->
         IF req[q].kind = "connect" THEN b \notin bound /\ b \notin bots
         ELSE b \in bound /\ b \in bots
    [] OTHER -> b \in bound /\ b \notin bots

OwnStage(q) ==
  /\ req[q].kind \in OwnerKinds => OwnerStage(q, req[q].of)
  /\ req[q].kind \in BindingKinds => BindingStage(q, req[q].of)

(* How far a request has brought row and memory apart. *)
Stage == \A q \in Requests : InFlight(q) /\ req[q].of \notin spoilt => OwnStage(q)

(* Row and memory say the same of an id. *)
Agree(i) ==
  /\ i \in Owners => Mirror(i)
  /\ i \in Bindings => (i \in bots <=> i \in bound)

(* Without a request, row and memory agree. *)
Settled ==
  /\ \A i \in Owners : Quiet(i) => Mirror(i)
  /\ \A b \in Bindings : Quiet(b) => (b \in bots <=> b \in bound)

IInv == TypeOK /\ Shape /\ Down /\ Fresh /\ Separate /\ Stage /\ Settled

(* The invariant holds when the process starts on an empty database. *)
LEMMA Initially == Init => IInv
<1> SUFFICES ASSUME Init PROVE IInv
  OBVIOUS
<1> USE LifespanAssumption DEF Init
<1>1. \A q \in Requests : ~InFlight(q)
  BY DEF InFlight, Unused
<1>2. TypeOK
  BY DEF TypeOK, Schedules, Kinds, Unused
<1>3. Shape /\ Down /\ Fresh /\ Separate /\ Stage
  BY <1>1 DEF Shape, Down, Fresh, Separate, Stage
<1>4. Settled
  BY DEF Settled, Mirror, Schedules
<1> QED
  BY <1>2, <1>3, <1>4 DEF IInv

(* A new request finds what it is about at rest, or the id is spoilt from now on. *)
LEMMA BeginKeeps ==
  ASSUME IInv, NEW q \in Requests, Request(q)
  PROVE  IInv'
<1> USE LifespanAssumption DEF IInv
<1>1. PICK kind \in Kinds, i \in Owners \cup Bindings, cron \in Schedules \cup {Unset} :
        /\ Begin(q, kind, i, cron)
        /\ kind \in OwnerKinds => i \in Owners
        /\ kind \in BindingKinds => i \in Bindings
        /\ kind = "create" => cron \in Schedules
  BY DEF Request, Kinds, OwnerKinds, BindingKinds, Schedules
<1> USE <1>1 DEF Begin
<1>2. TypeOK'
  BY DEF TypeOK, Kinds, Schedules, Overlaps
<1>3. /\ InFlight(q)' /\ ~InFlight(q)
      /\ \A p \in Requests \ {q} : req'[p] = req[p] /\ (InFlight(p)' <=> InFlight(p))
      /\ req'[q].of = i /\ req'[q].kind = kind /\ req'[q].cron = cron
      /\ req'[q].at = IF kind \in {"create", "connect"} THEN "loaded" ELSE "sent"
  BY DEF TypeOK, InFlight
<1>4. Shape'
  <2>1. i \in minted' /\ minted \subseteq minted'
    OBVIOUS
  <2>2. Awaits(req'[q].kind, req'[q].at)
    BY <1>3 DEF Awaits, Kinds
  <2> QED
    BY <1>3, <2>1, <2>2 DEF Shape
<1>5. Down' /\ Fresh'
  BY DEF Down, Fresh, TypeOK
<1>6. Separate'
  BY <1>3 DEF Separate, Overlaps
<1>7. i \notin spoilt' => i \notin spoilt /\ Quiet(i)
  BY <1>3 DEF Overlaps, Quiet
<1>8. Stage'
  <2>1. ASSUME i \notin spoilt'
        PROVE  /\ kind \in OwnerKinds => OwnerStage(q, i)'
               /\ kind \in BindingKinds => BindingStage(q, i)'
    BY <2>1, <1>3, <1>7 DEF Fresh, Settled, OwnerStage, BindingStage, Mirror, Kinds, OwnerKinds,
      BindingKinds
  <2>2. ASSUME NEW p \in Requests \ {q}, InFlight(p)', req'[p].of \notin spoilt'
        PROVE  /\ req'[p].kind \in OwnerKinds => OwnerStage(p, req[p].of)'
               /\ req'[p].kind \in BindingKinds => BindingStage(p, req[p].of)'
    BY <2>2, <1>3 DEF Stage, OwnStage, OwnerStage, BindingStage, Mirror
  <2> QED
    BY <2>1, <2>2, <1>3 DEF Stage, OwnStage
<1>9. Settled'
  BY <1>3 DEF Settled, Quiet, Mirror
<1> QED
  BY <1>2, <1>4, <1>5, <1>6, <1>8, <1>9
(* What is known of a request in flight. *)
LEMMA Known ==
  ASSUME IInv, NEW q \in Requests, InFlight(q)
  PROVE  /\ up /\ req[q].of \in minted
         /\ req[q] \in Locals
         /\ Awaits(req[q].kind, req[q].at)
         /\ req[q].kind \in OwnerKinds => req[q].of \in Owners
         /\ req[q].kind \in BindingKinds => req[q].of \in Bindings
         /\ req[q].kind = "create" => req[q].cron \in Schedules
         /\ req[q].of \notin spoilt => OwnStage(q)
BY DEF IInv, TypeOK, Locals, Down, Shape, Stage, OwnStage

(* A request moves on, and disturbs no other one nor what they are about. *)
Moves(q) ==
  /\ up' = up /\ minted' = minted
  /\ req'[q].of = req[q].of /\ req'[q].kind = req[q].kind /\ req'[q].cron = req[q].cron
  /\ \A p \in Requests \ {q} : req'[p] = req[p]
  /\ \A i \in Owners \ {req[q].of} : row'[i] = row[i] /\ job'[i] = job[i]
  /\ \A b \in Bindings \ {req[q].of} :
       (b \in bound' <=> b \in bound) /\ (b \in bots' <=> b \in bots)
  /\ spoilt \subseteq spoilt' /\ spoilt' \subseteq spoilt \cup {req[q].of}

(* It is enough to look at the request that moves: where it stands afterwards, or that
   row and memory agree when it is done. *)
LEMMA StepKeeps ==
  ASSUME IInv, NEW q \in Requests, InFlight(q), Moves(q), TypeOK',
         InFlight(q)' => Awaits(req'[q].kind, req'[q].at),
         req'[q].of \notin spoilt' => IF InFlight(q)' THEN OwnStage(q)' ELSE Agree(req[q].of)'
  PROVE  IInv'
<1> USE LifespanAssumption DEF IInv, Moves
<1>1. /\ up /\ req[q].of \in minted /\ req[q] \in Locals
      /\ req[q].kind \in OwnerKinds => req[q].of \in Owners
      /\ req[q].kind \in BindingKinds => req[q].of \in Bindings
      /\ req[q].kind = "create" => req[q].cron \in Schedules
  BY Known
<1>2. \A p \in Requests \ {q} : InFlight(p)' <=> InFlight(p)
  BY DEF InFlight
<1>3. Shape'
  BY <1>1, <1>2 DEF Shape
<1>4. Down' /\ Fresh'
  BY <1>1, <1>2 DEF Down, Fresh
<1>5. Separate'
  BY <1>2 DEF Separate
<1>6. Stage'
  <2>1. ASSUME NEW p \in Requests \ {q}, InFlight(p)', req[p].of \notin spoilt'
        PROVE  OwnStage(p)'
    <3>1. InFlight(p) /\ req[p].of # req[q].of
      BY <2>1, <1>2 DEF Separate
    <3>2. /\ OwnStage(p)
          /\ req[p].kind \in OwnerKinds => req[p].of \in Owners
          /\ req[p].kind \in BindingKinds => req[p].of \in Bindings
      BY <2>1, <3>1, Known
    <3> QED
      BY <3>1, <3>2 DEF OwnStage, OwnerStage, BindingStage, Mirror
  <2> QED
    BY <2>1 DEF Stage, OwnStage
<1>7. Settled'
  <2>1. ASSUME NEW i \in Owners \cup Bindings, i # req[q].of, Quiet(i)'
        PROVE  Agree(i)'
    BY <2>1, <1>2 DEF Settled, Quiet, Mirror, Agree
  <2>2. Quiet(req[q].of)' => Agree(req[q].of)'
    BY DEF Quiet
  <2> QED
    BY <2>1, <2>2 DEF Settled, Agree
<1> QED
  BY <1>3, <1>4, <1>5, <1>6, <1>7

(* Loading changes nothing but what the request knows. *)
LEMMA LoadKeeps ==
  ASSUME IInv, NEW q \in Requests, Load(q)
  PROVE  IInv'
<1> USE LifespanAssumption DEF Load, Goes, Saw
<1>1. InFlight(q) /\ TypeOK /\ req \in [Requests -> Locals]
  BY DEF InFlight, Halfway, IInv, TypeOK, Locals
<1>2. /\ up /\ req[q].of \in minted /\ req[q] \in Locals
      /\ Awaits(req[q].kind, req[q].at)
      /\ req[q].kind \in OwnerKinds => req[q].of \in Owners
      /\ req[q].kind \in BindingKinds => req[q].of \in Bindings
      /\ req[q].kind = "create" => req[q].cron \in Schedules
      /\ req[q].of \notin spoilt => OwnStage(q)
  BY <1>1, Known
<1>3. TypeOK'
  <2>1. req' \in [Requests -> Locals]
    BY <1>1, <1>2 DEF Locals, TypeOK, Schedules
  <2>2. /\ row' \in [Owners -> Schedules \cup {Absent}]
        /\ job' \in [Owners -> Crons \cup {None}]
        /\ bound' \subseteq Bindings /\ bots' \subseteq Bindings
        /\ spoilt' \subseteq Owners \cup Bindings
    BY <1>1, <1>2 DEF TypeOK, Locals, Schedules, Kinds, OwnerKinds, BindingKinds, Registered,
      Halfway
  <2> QED
    BY <1>1, <2>1, <2>2 DEF TypeOK, Locals
<1>4. Moves(q)
  BY <1>1 DEF Moves, TypeOK
<1>5. InFlight(q)' => Awaits(req'[q].kind, req'[q].at)
  BY <1>1, <1>2 DEF Awaits, InFlight, Locals, Kinds
<1>6. ASSUME req'[q].of \notin spoilt'
      PROVE  IF InFlight(q)' THEN OwnStage(q)' ELSE Agree(req[q].of)'
  BY <1>6, <1>1, <1>2, <1>4 DEF Moves, TypeOK, Locals, InFlight, OwnStage, OwnerStage, BindingStage,
    Mirror, Agree, Awaits, OwnerKinds, BindingKinds, Kinds, Schedules, Registered, Halfway
<1> QED
  BY <1>1, <1>3, <1>4, <1>5, <1>6, StepKeeps

(* The row is written, the job not yet. *)
LEMMA CommitKeeps ==
  ASSUME IInv, NEW q \in Requests, Commit(q)
  PROVE  IInv'
<1> USE LifespanAssumption DEF Commit, Goes, Saw
<1>1. InFlight(q) /\ TypeOK /\ req \in [Requests -> Locals]
  BY DEF InFlight, Halfway, IInv, TypeOK, Locals
<1>2. /\ up /\ req[q].of \in minted /\ req[q] \in Locals
      /\ Awaits(req[q].kind, req[q].at)
      /\ req[q].kind \in OwnerKinds => req[q].of \in Owners
      /\ req[q].kind \in BindingKinds => req[q].of \in Bindings
      /\ req[q].kind = "create" => req[q].cron \in Schedules
      /\ req[q].of \notin spoilt => OwnStage(q)
  BY <1>1, Known
<1>3. TypeOK'
  <2>1. req' \in [Requests -> Locals]
    BY <1>1, <1>2 DEF Locals, TypeOK, Schedules
  <2>2. /\ row' \in [Owners -> Schedules \cup {Absent}]
        /\ job' \in [Owners -> Crons \cup {None}]
        /\ bound' \subseteq Bindings /\ bots' \subseteq Bindings
        /\ spoilt' \subseteq Owners \cup Bindings
    BY <1>1, <1>2 DEF TypeOK, Locals, Schedules, Kinds, OwnerKinds, BindingKinds, Registered,
      Halfway
  <2> QED
    BY <1>1, <2>1, <2>2 DEF TypeOK, Locals
<1>4. Moves(q)
  BY <1>1 DEF Moves, TypeOK
<1>5. InFlight(q)' => Awaits(req'[q].kind, req'[q].at)
  BY <1>1, <1>2 DEF Awaits, InFlight, Locals, Kinds
<1>6. ASSUME req'[q].of \notin spoilt'
      PROVE  IF InFlight(q)' THEN OwnStage(q)' ELSE Agree(req[q].of)'
  BY <1>6, <1>1, <1>2, <1>4 DEF Moves, TypeOK, Locals, InFlight, OwnStage, OwnerStage, BindingStage,
    Mirror, Agree, Awaits, OwnerKinds, BindingKinds, Kinds, Schedules, Registered, Halfway
<1> QED
  BY <1>1, <1>3, <1>4, <1>5, <1>6, StepKeeps

(* What is read is what the job will be made from. *)
LEMMA RefreshKeeps ==
  ASSUME IInv, NEW q \in Requests, Refresh(q)
  PROVE  IInv'
<1> USE LifespanAssumption DEF Refresh, Goes, Saw
<1>1. InFlight(q) /\ TypeOK /\ req \in [Requests -> Locals]
  BY DEF InFlight, Halfway, IInv, TypeOK, Locals
<1>2. /\ up /\ req[q].of \in minted /\ req[q] \in Locals
      /\ Awaits(req[q].kind, req[q].at)
      /\ req[q].kind \in OwnerKinds => req[q].of \in Owners
      /\ req[q].kind \in BindingKinds => req[q].of \in Bindings
      /\ req[q].kind = "create" => req[q].cron \in Schedules
      /\ req[q].of \notin spoilt => OwnStage(q)
  BY <1>1, Known
<1>3. TypeOK'
  <2>1. req' \in [Requests -> Locals]
    BY <1>1, <1>2 DEF Locals, TypeOK, Schedules
  <2>2. /\ row' \in [Owners -> Schedules \cup {Absent}]
        /\ job' \in [Owners -> Crons \cup {None}]
        /\ bound' \subseteq Bindings /\ bots' \subseteq Bindings
        /\ spoilt' \subseteq Owners \cup Bindings
    BY <1>1, <1>2 DEF TypeOK, Locals, Schedules, Kinds, OwnerKinds, BindingKinds, Registered,
      Halfway
  <2> QED
    BY <1>1, <2>1, <2>2 DEF TypeOK, Locals
<1>4. Moves(q)
  BY <1>1 DEF Moves, TypeOK
<1>5. InFlight(q)' => Awaits(req'[q].kind, req'[q].at)
  BY <1>1, <1>2 DEF Awaits, InFlight, Locals, Kinds
<1>6. ASSUME req'[q].of \notin spoilt'
      PROVE  IF InFlight(q)' THEN OwnStage(q)' ELSE Agree(req[q].of)'
  BY <1>6, <1>1, <1>2, <1>4 DEF Moves, TypeOK, Locals, InFlight, OwnStage, OwnerStage, BindingStage,
    Mirror, Agree, Awaits, OwnerKinds, BindingKinds, Kinds, Schedules, Registered, Halfway
<1> QED
  BY <1>1, <1>3, <1>4, <1>5, <1>6, StepKeeps

(* The job becomes what the row asks for. *)
LEMMA ScheduleKeeps ==
  ASSUME IInv, NEW q \in Requests, Schedule(q)
  PROVE  IInv'
<1> USE LifespanAssumption DEF Schedule, Goes, Saw
<1>1. InFlight(q) /\ TypeOK /\ req \in [Requests -> Locals]
  BY DEF InFlight, Halfway, IInv, TypeOK, Locals
<1>2. /\ up /\ req[q].of \in minted /\ req[q] \in Locals
      /\ Awaits(req[q].kind, req[q].at)
      /\ req[q].kind \in OwnerKinds => req[q].of \in Owners
      /\ req[q].kind \in BindingKinds => req[q].of \in Bindings
      /\ req[q].kind = "create" => req[q].cron \in Schedules
      /\ req[q].of \notin spoilt => OwnStage(q)
  BY <1>1, Known
<1>3. TypeOK'
  <2>1. req' \in [Requests -> Locals]
    BY <1>1, <1>2 DEF Locals, TypeOK, Schedules
  <2>2. /\ row' \in [Owners -> Schedules \cup {Absent}]
        /\ job' \in [Owners -> Crons \cup {None}]
        /\ bound' \subseteq Bindings /\ bots' \subseteq Bindings
        /\ spoilt' \subseteq Owners \cup Bindings
    BY <1>1, <1>2 DEF TypeOK, Locals, Schedules, Kinds, OwnerKinds, BindingKinds, Registered,
      Halfway
  <2> QED
    BY <1>1, <2>1, <2>2 DEF TypeOK, Locals
<1>4. Moves(q)
  BY <1>1 DEF Moves, TypeOK
<1>5. InFlight(q)' => Awaits(req'[q].kind, req'[q].at)
  BY <1>1, <1>2 DEF Awaits, InFlight, Locals, Kinds
<1>6. ASSUME req'[q].of \notin spoilt'
      PROVE  IF InFlight(q)' THEN OwnStage(q)' ELSE Agree(req[q].of)'
  BY <1>6, <1>1, <1>2, <1>4 DEF Moves, TypeOK, Locals, InFlight, OwnStage, OwnerStage, BindingStage,
    Mirror, Agree, Awaits, OwnerKinds, BindingKinds, Kinds, Schedules, Registered, Halfway
<1> QED
  BY <1>1, <1>3, <1>4, <1>5, <1>6, StepKeeps

(* A binding has its row before its bot. *)
LEMMA BindKeeps ==
  ASSUME IInv, NEW q \in Requests, Bind(q)
  PROVE  IInv'
<1> USE LifespanAssumption DEF Bind, Goes, Saw
<1>1. InFlight(q) /\ TypeOK /\ req \in [Requests -> Locals]
  BY DEF InFlight, Halfway, IInv, TypeOK, Locals
<1>2. /\ up /\ req[q].of \in minted /\ req[q] \in Locals
      /\ Awaits(req[q].kind, req[q].at)
      /\ req[q].kind \in OwnerKinds => req[q].of \in Owners
      /\ req[q].kind \in BindingKinds => req[q].of \in Bindings
      /\ req[q].kind = "create" => req[q].cron \in Schedules
      /\ req[q].of \notin spoilt => OwnStage(q)
  BY <1>1, Known
<1>3. TypeOK'
  <2>1. req' \in [Requests -> Locals]
    BY <1>1, <1>2 DEF Locals, TypeOK, Schedules
  <2>2. /\ row' \in [Owners -> Schedules \cup {Absent}]
        /\ job' \in [Owners -> Crons \cup {None}]
        /\ bound' \subseteq Bindings /\ bots' \subseteq Bindings
        /\ spoilt' \subseteq Owners \cup Bindings
    BY <1>1, <1>2 DEF TypeOK, Locals, Schedules, Kinds, OwnerKinds, BindingKinds, Registered,
      Halfway
  <2> QED
    BY <1>1, <2>1, <2>2 DEF TypeOK, Locals
<1>4. Moves(q)
  BY <1>1 DEF Moves, TypeOK
<1>5. InFlight(q)' => Awaits(req'[q].kind, req'[q].at)
  BY <1>1, <1>2 DEF Awaits, InFlight, Locals, Kinds
<1>6. ASSUME req'[q].of \notin spoilt'
      PROVE  IF InFlight(q)' THEN OwnStage(q)' ELSE Agree(req[q].of)'
  BY <1>6, <1>1, <1>2, <1>4 DEF Moves, TypeOK, Locals, InFlight, OwnStage, OwnerStage, BindingStage,
    Mirror, Agree, Awaits, OwnerKinds, BindingKinds, Kinds, Schedules, Registered, Halfway
<1> QED
  BY <1>1, <1>3, <1>4, <1>5, <1>6, StepKeeps

(* The bot starts for a row that is there. *)
LEMMA StartBotKeeps ==
  ASSUME IInv, NEW q \in Requests, StartBot(q)
  PROVE  IInv'
<1> USE LifespanAssumption DEF StartBot, Goes, Saw
<1>1. InFlight(q) /\ TypeOK /\ req \in [Requests -> Locals]
  BY DEF InFlight, Halfway, IInv, TypeOK, Locals
<1>2. /\ up /\ req[q].of \in minted /\ req[q] \in Locals
      /\ Awaits(req[q].kind, req[q].at)
      /\ req[q].kind \in OwnerKinds => req[q].of \in Owners
      /\ req[q].kind \in BindingKinds => req[q].of \in Bindings
      /\ req[q].kind = "create" => req[q].cron \in Schedules
      /\ req[q].of \notin spoilt => OwnStage(q)
  BY <1>1, Known
<1>3. TypeOK'
  <2>1. req' \in [Requests -> Locals]
    BY <1>1, <1>2 DEF Locals, TypeOK, Schedules
  <2>2. /\ row' \in [Owners -> Schedules \cup {Absent}]
        /\ job' \in [Owners -> Crons \cup {None}]
        /\ bound' \subseteq Bindings /\ bots' \subseteq Bindings
        /\ spoilt' \subseteq Owners \cup Bindings
    BY <1>1, <1>2 DEF TypeOK, Locals, Schedules, Kinds, OwnerKinds, BindingKinds, Registered,
      Halfway
  <2> QED
    BY <1>1, <2>1, <2>2 DEF TypeOK, Locals
<1>4. Moves(q)
  BY <1>1 DEF Moves, TypeOK
<1>5. InFlight(q)' => Awaits(req'[q].kind, req'[q].at)
  BY <1>1, <1>2 DEF Awaits, InFlight, Locals, Kinds
<1>6. ASSUME req'[q].of \notin spoilt'
      PROVE  IF InFlight(q)' THEN OwnStage(q)' ELSE Agree(req[q].of)'
  BY <1>6, <1>1, <1>2, <1>4 DEF Moves, TypeOK, Locals, InFlight, OwnStage, OwnerStage, BindingStage,
    Mirror, Agree, Awaits, OwnerKinds, BindingKinds, Kinds, Schedules, Registered, Halfway
<1> QED
  BY <1>1, <1>3, <1>4, <1>5, <1>6, StepKeeps

(* The bot stops while its row is still there. *)
LEMMA StopBotKeeps ==
  ASSUME IInv, NEW q \in Requests, StopBot(q)
  PROVE  IInv'
<1> USE LifespanAssumption DEF StopBot, Goes, Saw
<1>1. InFlight(q) /\ TypeOK /\ req \in [Requests -> Locals]
  BY DEF InFlight, Halfway, IInv, TypeOK, Locals
<1>2. /\ up /\ req[q].of \in minted /\ req[q] \in Locals
      /\ Awaits(req[q].kind, req[q].at)
      /\ req[q].kind \in OwnerKinds => req[q].of \in Owners
      /\ req[q].kind \in BindingKinds => req[q].of \in Bindings
      /\ req[q].kind = "create" => req[q].cron \in Schedules
      /\ req[q].of \notin spoilt => OwnStage(q)
  BY <1>1, Known
<1>3. TypeOK'
  <2>1. req' \in [Requests -> Locals]
    BY <1>1, <1>2 DEF Locals, TypeOK, Schedules
  <2>2. /\ row' \in [Owners -> Schedules \cup {Absent}]
        /\ job' \in [Owners -> Crons \cup {None}]
        /\ bound' \subseteq Bindings /\ bots' \subseteq Bindings
        /\ spoilt' \subseteq Owners \cup Bindings
    BY <1>1, <1>2 DEF TypeOK, Locals, Schedules, Kinds, OwnerKinds, BindingKinds, Registered,
      Halfway
  <2> QED
    BY <1>1, <2>1, <2>2 DEF TypeOK, Locals
<1>4. Moves(q)
  BY <1>1 DEF Moves, TypeOK
<1>5. InFlight(q)' => Awaits(req'[q].kind, req'[q].at)
  BY <1>1, <1>2 DEF Awaits, InFlight, Locals, Kinds
<1>6. ASSUME req'[q].of \notin spoilt'
      PROVE  IF InFlight(q)' THEN OwnStage(q)' ELSE Agree(req[q].of)'
  BY <1>6, <1>1, <1>2, <1>4 DEF Moves, TypeOK, Locals, InFlight, OwnStage, OwnerStage, BindingStage,
    Mirror, Agree, Awaits, OwnerKinds, BindingKinds, Kinds, Schedules, Registered, Halfway
<1> QED
  BY <1>1, <1>3, <1>4, <1>5, <1>6, StepKeeps

(* No bot is left when the row goes. *)
LEMMA UnbindKeeps ==
  ASSUME IInv, NEW q \in Requests, Unbind(q)
  PROVE  IInv'
<1> USE LifespanAssumption DEF Unbind, Goes, Saw
<1>1. InFlight(q) /\ TypeOK /\ req \in [Requests -> Locals]
  BY DEF InFlight, Halfway, IInv, TypeOK, Locals
<1>2. /\ up /\ req[q].of \in minted /\ req[q] \in Locals
      /\ Awaits(req[q].kind, req[q].at)
      /\ req[q].kind \in OwnerKinds => req[q].of \in Owners
      /\ req[q].kind \in BindingKinds => req[q].of \in Bindings
      /\ req[q].kind = "create" => req[q].cron \in Schedules
      /\ req[q].of \notin spoilt => OwnStage(q)
  BY <1>1, Known
<1>3. TypeOK'
  <2>1. req' \in [Requests -> Locals]
    BY <1>1, <1>2 DEF Locals, TypeOK, Schedules
  <2>2. /\ row' \in [Owners -> Schedules \cup {Absent}]
        /\ job' \in [Owners -> Crons \cup {None}]
        /\ bound' \subseteq Bindings /\ bots' \subseteq Bindings
        /\ spoilt' \subseteq Owners \cup Bindings
    BY <1>1, <1>2 DEF TypeOK, Locals, Schedules, Kinds, OwnerKinds, BindingKinds, Registered,
      Halfway
  <2> QED
    BY <1>1, <2>1, <2>2 DEF TypeOK, Locals
<1>4. Moves(q)
  BY <1>1 DEF Moves, TypeOK
<1>5. InFlight(q)' => Awaits(req'[q].kind, req'[q].at)
  BY <1>1, <1>2 DEF Awaits, InFlight, Locals, Kinds
<1>6. ASSUME req'[q].of \notin spoilt'
      PROVE  IF InFlight(q)' THEN OwnStage(q)' ELSE Agree(req[q].of)'
  BY <1>6, <1>1, <1>2, <1>4 DEF Moves, TypeOK, Locals, InFlight, OwnStage, OwnerStage, BindingStage,
    Mirror, Agree, Awaits, OwnerKinds, BindingKinds, Kinds, Schedules, Registered, Halfway
<1> QED
  BY <1>1, <1>3, <1>4, <1>5, <1>6, StepKeeps

(* A request that fails has changed nothing, or its id is spoilt. *)
LEMMA DbRaisesKeeps ==
  ASSUME IInv, NEW q \in Requests, DbRaises(q)
  PROVE  IInv'
<1> USE LifespanAssumption DEF DbRaises, Goes, Saw
<1>1. InFlight(q) /\ TypeOK /\ req \in [Requests -> Locals]
  BY DEF InFlight, Halfway, IInv, TypeOK, Locals
<1>2. /\ up /\ req[q].of \in minted /\ req[q] \in Locals
      /\ Awaits(req[q].kind, req[q].at)
      /\ req[q].kind \in OwnerKinds => req[q].of \in Owners
      /\ req[q].kind \in BindingKinds => req[q].of \in Bindings
      /\ req[q].kind = "create" => req[q].cron \in Schedules
      /\ req[q].of \notin spoilt => OwnStage(q)
  BY <1>1, Known
<1>3. TypeOK'
  <2>1. req' \in [Requests -> Locals]
    BY <1>1, <1>2 DEF Locals, TypeOK, Schedules
  <2>2. /\ row' \in [Owners -> Schedules \cup {Absent}]
        /\ job' \in [Owners -> Crons \cup {None}]
        /\ bound' \subseteq Bindings /\ bots' \subseteq Bindings
        /\ spoilt' \subseteq Owners \cup Bindings
    BY <1>1, <1>2 DEF TypeOK, Locals, Schedules, Kinds, OwnerKinds, BindingKinds, Registered,
      Halfway
  <2> QED
    BY <1>1, <2>1, <2>2 DEF TypeOK, Locals
<1>4. Moves(q)
  BY <1>1 DEF Moves, TypeOK
<1>5. InFlight(q)' => Awaits(req'[q].kind, req'[q].at)
  BY <1>1, <1>2 DEF Awaits, InFlight, Locals, Kinds
<1>6. ASSUME req'[q].of \notin spoilt'
      PROVE  IF InFlight(q)' THEN OwnStage(q)' ELSE Agree(req[q].of)'
  BY <1>6, <1>1, <1>2, <1>4 DEF Moves, TypeOK, Locals, InFlight, OwnStage, OwnerStage, BindingStage,
    Mirror, Agree, Awaits, OwnerKinds, BindingKinds, Kinds, Schedules, Registered, Halfway
<1> QED
  BY <1>1, <1>3, <1>4, <1>5, <1>6, StepKeeps

(* A crash leaves nothing in memory. *)
LEMMA CrashKeeps ==
  ASSUME IInv, Crash
  PROVE  IInv'
<1> USE LifespanAssumption DEF IInv, Crash
<1>1. \A q \in Requests : ~InFlight(q)'
  BY DEF TypeOK, InFlight
<1>2. TypeOK'
  <2>1. ASSUME NEW q \in Requests
        PROVE  (IF InFlight(q) THEN [req[q] EXCEPT !.at = "done"] ELSE req[q])
                 \in [kind : Kinds, of : Owners \cup Bindings \cup {None},
                      cron : Schedules \cup {Unset}, seen : Schedules,
                      at : {"unused", "sent", "loaded", "committed", "refreshed",
                            "stopping", "stopped", "done"}]
    BY DEF TypeOK
  <2> QED
    BY <2>1 DEF TypeOK
<1>3. Shape' /\ Down' /\ Separate' /\ Stage' /\ Settled'
  BY <1>1 DEF Shape, Down, Separate, Stage, Settled, Quiet
<1>4. Fresh'
  BY DEF Fresh
<1> QED
  BY <1>2, <1>3, <1>4

(* A start-up brings memory in line with the rows. *)
LEMMA StartupKeeps ==
  ASSUME IInv, Startup
  PROVE  IInv'
<1> USE LifespanAssumption DEF IInv, Startup
<1>1. \A q \in Requests : ~InFlight(q)'
  BY DEF Down, InFlight
<1>2. TypeOK'
  BY DEF TypeOK, Schedules, Registered
<1>3. Shape' /\ Down' /\ Separate' /\ Stage'
  BY <1>1 DEF Shape, Down, Separate, Stage
<1>4. Fresh'
  BY DEF Fresh, Registered, Schedules
<1>5. Settled'
  BY DEF Settled, Mirror, Registered, Quiet, Schedules, TypeOK
<1> QED
  BY <1>2, <1>3, <1>4, <1>5

(* The invariant of a process that lives, fails, stops and starts again. *)
THEOREM Invariance == Spec => []IInv
<1>1. ASSUME IInv, [Next]_vars
      PROVE  IInv'
  <2>1. ASSUME NEW q \in Requests, Request(q) PROVE IInv'
    BY <1>1, <2>1, BeginKeeps
  <2>2. ASSUME NEW q \in Requests, Proceed(q) PROVE IInv'
    BY <1>1, <2>2, LoadKeeps, CommitKeeps, RefreshKeeps, ScheduleKeeps, BindKeeps, StartBotKeeps,
      StopBotKeeps, UnbindKeeps DEF Proceed
  <2>3. ASSUME NEW q \in Requests, DbRaises(q) PROVE IInv'
    BY <1>1, <2>3, DbRaisesKeeps
  <2>4. CASE Crash
    BY <1>1, <2>4, CrashKeeps
  <2>5. CASE Startup
    BY <1>1, <2>5, StartupKeeps
  <2>6. CASE UNCHANGED vars
    BY <1>1, <2>6 DEF vars, IInv, TypeOK, Shape, Down, Fresh, Separate, Stage, Settled, InFlight,
      OwnStage, OwnerStage, BindingStage, Mirror, Quiet
  <2> QED
    BY <1>1, <2>1, <2>2, <2>3, <2>4, <2>5, <2>6 DEF Next
<1> QED
  BY <1>1, Initially, PTL DEF Spec

(* Rows, jobs, bots and the local variables of requests keep their types. *)
THEOREM LifespanTypes == Spec => []TypeOK
<1>1. IInv => TypeOK
  BY DEF IInv
<1> QED
  BY <1>1, Invariance, PTL

(* Between requests an owner fires exactly when its row says so, however requests were
   interleaved with crashes and start-ups. *)
THEOREM SchedulesAreKept == Spec => []JobsMirrorRows
<1>1. IInv => JobsMirrorRows
  BY DEF IInv, JobsMirrorRows, Settled, Mirror
<1> QED
  BY <1>1, Invariance, PTL

(* Between requests a dedicated bot runs exactly for every binding. *)
THEOREM BotsAreKept == Spec => []BotsMirrorBindings
<1>1. IInv => BotsMirrorBindings
  BY DEF IInv, BotsMirrorBindings, Settled
<1> QED
  BY <1>1, Invariance, PTL

(* At no await of any request does a bot take messages for a binding without a row. *)
THEOREM NoBotStrays == Spec => []NoStrayBot
<1>1. ASSUME IInv, NEW b \in Polling, b \notin spoilt
      PROVE  b \in bound
  <2> USE <1>1 DEF IInv
  <2>1. ASSUME NEW q \in Requests, InFlight(q), req[q].of = b, b \in Bindings
        PROVE  req[q].kind \in BindingKinds /\ BindingStage(q, b)
    BY <2>1, LifespanAssumption DEF Shape, Stage, OwnStage, TypeOK, Kinds, OwnerKinds,
      BindingKinds
  <2>2. CASE b \in bots
    <3>1. up /\ b \in Bindings
      BY <2>2 DEF Down, TypeOK
    <3>2. CASE Quiet(b)
      BY <2>2, <3>1, <3>2 DEF Settled
    <3>3. CASE ~Quiet(b)
      <4>1. PICK q \in Requests : InFlight(q) /\ req[q].of = b
        BY <3>1, <3>3 DEF Quiet
      <4> QED
        BY <2>1, <2>2, <3>1, <4>1 DEF BindingStage
    <3> QED
      BY <3>2, <3>3
  <2>3. CASE b \notin bots
    <3>1. PICK q \in Requests : req[q].at = "stopping" /\ req[q].of = b
      BY <2>3 DEF Polling
    <3>2. InFlight(q) /\ b \in Bindings
      BY <3>1 DEF InFlight, Shape, Awaits, BindingKinds
    <3> QED
      BY <2>1, <3>1, <3>2 DEF BindingStage
  <2> QED
    BY <2>2, <2>3
<1>2. IInv => NoStrayBot
  BY <1>1 DEF NoStrayBot
<1> QED
  BY <1>2, Invariance, PTL
-----------------------------------------------------------------------------
(* What ScheduleTakesEffect rests on: a schedule that has not taken effect *)
(* is owed by a start-up or by a request past its commit, and the steps    *)
(* that fairness promises pay what is owed.                                *)

(* The job of an owner is not the one its row asks for, and no failure excuses it. *)
OutOfStep(i) == i \notin spoilt /\ ~Mirror(i)

(* Request q is past its commit of row i and will schedule what is now in it. *)
Owes(q, i) ==
  /\ req[q].of = i
  /\ \/ req[q].at = "committed" /\ req[q].kind \in OwnerKinds
     \/ req[q].at = "refreshed" /\ req[q].kind \in {"create", "update"} /\ req[q].seen = row[i]

(* A job is out of step with its row only until the next start-up, or while one request
   about it is between db.commit and the scheduler. *)
MismatchIsOwed ==
  \A i \in Owners : OutOfStep(i) => ~up \/ \E q \in Requests : Owes(q, i)

(* A start-up brings every job in step, that of a spoilt id too.  So do the owing
   request's own steps, of which there are two at most; until then nobody takes the debt
   from the request. *)
DebtIsPaid ==
  [][/\ Startup => \A i \in Owners : Mirror(i)'
     /\ \A i \in Owners : OutOfStep(i) =>
          /\ ~up => ~up' \/ Startup
          /\ \A q \in Requests : Owes(q, i) =>
               /\ Owes(q, i)' \/ ~OutOfStep(i)' \/ ~up'
               /\ Proceed(q) =>
                    \/ ~OutOfStep(i)'
                    \/ Owes(q, i)' /\ req[q].at = "committed" /\ req'[q].at = "refreshed"]_vars

(* Whatever is created, changed, cleared or deleted at once, and wherever the process
   stops, a job that its row does not ask for is about to be replaced. *)
THEOREM MismatchesAreOwed == Spec => []MismatchIsOwed
<1>1. ASSUME IInv, NEW i \in Owners, OutOfStep(i), up
      PROVE  \E q \in Requests : Owes(q, i)
  <2>1. ~Quiet(i)
    BY <1>1 DEF IInv, Settled, OutOfStep
  <2>2. PICK q \in Requests : req[q].of = i /\ InFlight(q)
    BY <1>1, <2>1 DEF Quiet, OutOfStep
  <2>3. req[q].kind \in OwnerKinds /\ OwnerStage(q, i)
    BY <1>1, <2>2, LifespanAssumption DEF IInv, Shape, Stage, OwnStage, TypeOK, Kinds, OwnerKinds,
      BindingKinds, OutOfStep
  <2>4. Awaits(req[q].kind, req[q].at)
    BY <1>1, <2>2 DEF IInv, Shape
  <2>5. Owes(q, i)
    BY <1>1, <2>2, <2>3, <2>4 DEF OwnerStage, Awaits, Owes, OutOfStep, OwnerKinds
  <2> QED
    BY <2>5
<1>2. IInv => MismatchIsOwed
  BY <1>1 DEF MismatchIsOwed
<1> QED
  BY <1>2, Invariance, PTL

(* A step of the owing request pays, or takes it to its last await. *)
LEMMA ProceedPays ==
  ASSUME IInv, NEW i \in Owners, OutOfStep(i), NEW q \in Requests, Owes(q, i), Proceed(q)
  PROVE  \/ ~OutOfStep(i)'
         \/ Owes(q, i)' /\ req[q].at = "committed" /\ req'[q].at = "refreshed"
<1> USE LifespanAssumption
<1>1. /\ InFlight(q) /\ req[q].of = i /\ req[q].kind \in OwnerKinds
      /\ req \in [Requests -> Locals] /\ row \in [Owners -> Schedules \cup {Absent}]
      /\ job \in [Owners -> Crons \cup {None}] /\ i \notin spoilt
  BY DEF Owes, InFlight, OwnerKinds, IInv, TypeOK, Locals, OutOfStep
<1>2. OwnerStage(q, i)
  BY <1>1 DEF IInv, Stage, OwnStage
<1>3. Refresh(q) \/ Schedule(q)
  BY <1>1 DEF Owes, Proceed, Load, Commit, Bind, StartBot, StopBot, Unbind, OwnerKinds
<1>4. ASSUME Refresh(q)
      PROVE  Owes(q, i)' /\ req[q].at = "committed" /\ req'[q].at = "refreshed"
  <2>1. row[i] # Absent
    BY <1>1, <1>2, <1>4 DEF Refresh, OwnerStage
  <2>2. /\ req' = [req EXCEPT ![q].at = "refreshed", ![q].seen = row[i]] /\ row' = row
        /\ req[q].at = "committed" /\ req[q].kind \in {"create", "update"}
    BY <1>1, <1>4, <2>1 DEF Refresh, Saw
  <2>3. /\ req'[q].at = "refreshed" /\ req'[q].seen = row[i]
        /\ req'[q].of = i /\ req'[q].kind = req[q].kind
    BY <1>1, <2>2 DEF Locals
  <2> QED
    BY <2>2, <2>3 DEF Owes
<1>5. ASSUME Schedule(q)
      PROVE  Mirror(i)'
  BY <1>1, <1>2, <1>5 DEF Schedule, Owes, OwnerStage, Mirror, Registered, Schedules, Locals,
    OwnerKinds
<1> QED
  BY <1>3, <1>4, <1>5 DEF OutOfStep

(* What a step of another request leaves of row, job and debt. *)
LEMMA OthersLeaveDebt ==
  ASSUME IInv, NEW i \in Owners, OutOfStep(i), NEW q \in Requests, Owes(q, i),
         NEW p \in Requests, p # q, Proceed(p) \/ DbRaises(p)
  PROVE  Owes(q, i)'
<1> USE LifespanAssumption
<1>1. /\ InFlight(q) /\ req[q].of = i /\ i \notin spoilt
      /\ req \in [Requests -> Locals] /\ row \in [Owners -> Schedules \cup {Absent}]
  BY DEF Owes, InFlight, IInv, TypeOK, Locals, OutOfStep
<1>2. InFlight(p)
  BY DEF InFlight, Halfway, Proceed, Load, Commit, Refresh, Schedule, Bind, StartBot, StopBot,
    Unbind, DbRaises
<1>3. req[p].of # i
  BY <1>1, <1>2 DEF IInv, Separate
<1>4. req'[q] = req[q]
  BY <1>1 DEF Goes, Saw, Proceed, Load, Commit, Refresh, Schedule, Bind, StartBot, StopBot,
    Unbind, DbRaises
<1>5. row'[i] = row[i]
  BY <1>1, <1>3 DEF Proceed, Load, Commit, Refresh, Schedule, Bind, StartBot, StopBot,
    Unbind, DbRaises
<1> QED
  BY <1>4, <1>5 DEF Owes

(* No step of anybody loses a debt; a failure that would is accounted for. *)
LEMMA DebtStays ==
  ASSUME IInv, NEW i \in Owners, OutOfStep(i), NEW q \in Requests, Owes(q, i), [Next]_vars
  PROVE  Owes(q, i)' \/ ~OutOfStep(i)' \/ ~up'
<1>1. ASSUME NEW p \in Requests, Request(p) PROVE Owes(q, i)' \/ ~OutOfStep(i)'
  <2>1. PICK kind \in Kinds, j \in Owners \cup Bindings, cron \in Schedules \cup {Unset} :
          Begin(p, kind, j, cron)
    BY <1>1 DEF Request, Kinds, Schedules
  <2>2. InFlight(q) /\ req[q].of = i
    BY DEF Owes, InFlight
  <2>3. j = i => i \in spoilt'
    BY <2>1, <2>2 DEF Begin, Overlaps
  <2>4. p # q
    BY <2>1, <2>2 DEF Begin, InFlight
  <2>5. req'[q] = req[q] /\ row' = row
    BY <2>1, <2>4 DEF Begin, IInv, TypeOK
  <2> QED
    BY <2>5 DEF Owes
<1>2. ASSUME NEW p \in Requests, Proceed(p) PROVE Owes(q, i)' \/ ~OutOfStep(i)'
  BY <1>2, ProceedPays, OthersLeaveDebt
<1>3. ASSUME NEW p \in Requests, DbRaises(p) PROVE Owes(q, i)' \/ ~OutOfStep(i)'
  <2>1. CASE p # q
    BY <1>3, <2>1, OthersLeaveDebt
  <2>2. CASE p = q
    <3>1. req[q].at = "refreshed" \/ req[q].kind = "delete" => FALSE
      BY <1>3, <2>2 DEF DbRaises, Halfway, Owes
    <3>2. Halfway(q) /\ req[q].of = i
      BY <1>3, <2>2, <3>1 DEF DbRaises, Owes, Halfway, OwnerKinds
    <3>3. i \in spoilt'
      BY <1>3, <2>2, <3>2 DEF DbRaises
    <3> QED
      BY <3>3 DEF OutOfStep
  <2> QED
    BY <2>1, <2>2
<1>4. CASE Crash
  BY <1>4 DEF Crash
<1>5. CASE Startup
  BY <1>5 DEF Startup, IInv, Down, Owes, InFlight
<1>6. CASE UNCHANGED vars
  BY <1>6 DEF vars, Owes
<1> QED
  BY <1>1, <1>2, <1>3, <1>4, <1>5, <1>6 DEF Next

(* After a start-up every job is the one its row asks for. *)
LEMMA StartupPays ==
  ASSUME IInv, NEW i \in Owners, Startup
  PROVE  Mirror(i)'
BY LifespanAssumption DEF Startup, Mirror, Registered, Schedules, IInv, TypeOK

(* The debts of MismatchIsOwed are paid by the steps that FairSpec makes happen, and by
   no step lost: with fairness this is why ScheduleTakesEffect holds. *)
THEOREM DebtsArePaid == Spec => DebtIsPaid
<1>1. ASSUME [Next]_vars, ~up
      PROVE  ~up' \/ Startup
  <2>1. ASSUME NEW q \in Requests, Request(q) PROVE up
    BY <2>1 DEF Request, Begin
  <2>2. ASSUME NEW q \in Requests, Proceed(q) \/ DbRaises(q) PROVE up' = up
    BY <2>2 DEF Proceed, Load, Commit, Refresh, Schedule, Bind, StartBot, StopBot, Unbind,
      DbRaises
  <2>3. CASE Crash
    BY <2>3 DEF Crash
  <2>4. CASE UNCHANGED vars
    BY <1>1, <2>4 DEF vars
  <2> QED
    BY <1>1, <2>1, <2>2, <2>3, <2>4 DEF Next
<1>2. IInv /\ [Next]_vars =>
        [/\ Startup => \A i \in Owners : Mirror(i)'
         /\ \A i \in Owners : OutOfStep(i) =>
              /\ ~up => ~up' \/ Startup
              /\ \A q \in Requests : Owes(q, i) =>
                   /\ Owes(q, i)' \/ ~OutOfStep(i)' \/ ~up'
                   /\ Proceed(q) =>
                        \/ ~OutOfStep(i)'
                        \/ Owes(q, i)' /\ req[q].at = "committed" /\ req'[q].at = "refreshed"]_vars
  BY <1>1, StartupPays, DebtStays, ProceedPays
<1> QED
  BY <1>2, Invariance, PTL DEF Spec, DebtIsPaid
===============================================================================
