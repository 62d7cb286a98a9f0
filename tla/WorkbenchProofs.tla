--------------------------- MODULE WorkbenchProofs ---------------------------
(***************************************************************************)
(* The page of a workflow, for any workflows, any number of clicks, runs,  *)
(* executions and events, and any loss of requests, events and             *)
(* connections: one socket feeds the panel, what is typed, saved and shown *)
(* keeps to its run and its drawing, the panel settles, and the Run button *)
(* is disabled only while something is under way that gives it back, or    *)
(* when the event that would is lost.                                      *)
(*                                                                         *)
(* Each invariant is inductive with the types and with OneSocket.  All of  *)
(* them ask where a request of the next state comes from; CallsStep says   *)
(* it once: it stays, moves on with what it carries, or has just been sent.*)
(***************************************************************************)
EXTENDS Workbench, TLAPS

-----------------------------------------------------------------------------
(* One socket: what may become of a socket's record.                       *)

States == {"none", "open", "closed", "leaked"}
Phases == {"accepted", "replayed", "live"}
Queues == Seq(Events)
Sockets == [RunIds -> SocketType]

(* A socket is a record of the four. *)
LEMMA SocketIs ==
  /\ SocketType = [state : States, phase : Phases, queue : Queues, told : BOOLEAN]
  /\ \A x \in States, p \in Phases, q \in Queues, t \in BOOLEAN :
       [state |-> x, phase |-> p, queue |-> q, told |-> t] \in SocketType
  /\ \A s \in SocketType : /\ s.state \in States /\ s.phase \in Phases
                           /\ s.queue \in Queues /\ s.told \in BOOLEAN
  BY DEF SocketType, States, Phases, Queues

(* createRun's answer opens a socket, or leaks one; it is closed. *)
LEMMA Opened ==
  ASSUME NEW s \in SocketType, NEW x \in States
  PROVE  LET d == [s EXCEPT !.state = x]
         IN  /\ d \in SocketType
             /\ d.state = x /\ d.phase = s.phase /\ d.queue = s.queue /\ d.told = s.told
<1>0. s.state \in States /\ s.phase \in Phases /\ s.queue \in Queues /\ s.told \in BOOLEAN
  BY SocketIs
<1>1. [s EXCEPT !.state = x] = [state |-> x, phase |-> s.phase, queue |-> s.queue, told |-> s.told]
  BY SocketIs
<1>2. QED
  BY <1>0, <1>1, SocketIs

LEMMA Subscribed ==
  ASSUME NEW s \in SocketType, NEW p \in Phases
  PROVE  LET d == [s EXCEPT !.phase = p]
         IN  /\ d \in SocketType
             /\ d.state = s.state /\ d.phase = p /\ d.queue = s.queue /\ d.told = s.told
<1>0. s.state \in States /\ s.phase \in Phases /\ s.queue \in Queues /\ s.told \in BOOLEAN
  BY SocketIs
<1>1. [s EXCEPT !.phase = p] = [state |-> s.state, phase |-> p, queue |-> s.queue, told |-> s.told]
  BY SocketIs
<1>2. QED
  BY <1>0, <1>1, SocketIs

LEMMA Taken ==
  ASSUME NEW s \in SocketType, NEW q \in Queues
  PROVE  LET d == [s EXCEPT !.queue = q]
         IN  /\ d \in SocketType
             /\ d.state = s.state /\ d.phase = s.phase /\ d.queue = q /\ d.told = s.told
<1>0. s.state \in States /\ s.phase \in Phases /\ s.queue \in Queues /\ s.told \in BOOLEAN
  BY SocketIs
<1>1. [s EXCEPT !.queue = q] = [state |-> s.state, phase |-> s.phase, queue |-> q, told |-> s.told]
  BY SocketIs
<1>2. QED
  BY <1>0, <1>1, SocketIs

LEMMA NoSocketIs ==
  /\ NoSocket \in SocketType /\ ClosedSocket \in SocketType
  /\ NoSocket.state = "none" /\ ClosedSocket.state = "closed"
<1>1. <<>> \in Queues
  BY DEF Queues
<1>2. NoSocket \in SocketType
  BY <1>1, SocketIs DEF NoSocket, States, Phases
<1>3. ClosedSocket \in SocketType /\ ClosedSocket.state = "closed"
  BY <1>2, Opened DEF ClosedSocket, States
<1>4. QED
  BY <1>2, <1>3 DEF NoSocket

(* What the sockets' server and an emission make of one. *)
LEMMA Fed ==
  ASSUME NEW s \in SocketType, NEW q \in Queues, NEW t \in BOOLEAN
  PROVE  LET d == [s EXCEPT !.queue = q, !.told = t]
         IN  /\ d \in SocketType
             /\ d.state = s.state /\ d.phase = s.phase /\ d.queue = q /\ d.told = t
<1> DEFINE a == [s EXCEPT !.queue = q]
           b == [state |-> s.state, phase |-> s.phase, queue |-> q, told |-> s.told]
<1>1. s \in [state : States, phase : Phases, queue : Queues, told : BOOLEAN]
  BY SocketIs
<1>2. a = b
  BY <1>1
<1>3. [b EXCEPT !.told = t] = [state |-> s.state, phase |-> s.phase, queue |-> q, told |-> t]
  OBVIOUS
<1>4. [s EXCEPT !.queue = q, !.told = t] = [a EXCEPT !.told = t]
  OBVIOUS
<1> HIDE DEF a, b
<1>5. [s EXCEPT !.queue = q, !.told = t]
        = [state |-> s.state, phase |-> s.phase, queue |-> q, told |-> t]
  BY <1>2, <1>3, <1>4
<1>6. QED
  BY <1>1, <1>5, SocketIs

LEMMA Phased ==
  ASSUME NEW s \in SocketType, NEW p \in Phases, NEW q \in Queues
  PROVE  LET d == [s EXCEPT !.phase = p, !.queue = q]
         IN  /\ d \in SocketType
             /\ d.state = s.state /\ d.phase = p /\ d.queue = q /\ d.told = s.told
<1> DEFINE a == [s EXCEPT !.phase = p]
           b == [state |-> s.state, phase |-> p, queue |-> s.queue, told |-> s.told]
<1>1. s \in [state : States, phase : Phases, queue : Queues, told : BOOLEAN]
  BY SocketIs
<1>2. a = b
  BY <1>1
<1>3. [b EXCEPT !.queue = q] = [state |-> s.state, phase |-> p, queue |-> q, told |-> s.told]
  OBVIOUS
<1>4. [s EXCEPT !.phase = p, !.queue = q] = [a EXCEPT !.queue = q]
  OBVIOUS
<1> HIDE DEF a, b
<1>5. [s EXCEPT !.phase = p, !.queue = q]
        = [state |-> s.state, phase |-> p, queue |-> q, told |-> s.told]
  BY <1>2, <1>3, <1>4
<1>6. QED
  BY <1>1, <1>5, SocketIs

\* The last of what is on its way.
Last(q) == q[Len(q)]

LEMMA QueuePut ==
  ASSUME NEW q \in Queues, NEW event \in Events
  PROVE  /\ Append(q, event) \in Queues /\ Append(q, event) # <<>>
         /\ Last(Append(q, event)) = event
<1> DEFINE S == Events
<1>1. q \in Seq(S) /\ event \in S
  BY DEF Queues
<1> HIDE DEF S
<1>2. /\ Append(q, event) \in Seq(S) /\ Append(q, event) # <<>>
      /\ Len(Append(q, event)) = Len(q) + 1 /\ Append(q, event)[Len(q) + 1] = event
  BY <1>1
<1>3. QED
  BY <1>2 DEF S, Queues, Last

LEMMA QueueTaken ==
  ASSUME NEW q \in Queues, q # <<>>
  PROVE  /\ Tail(q) \in Queues /\ Head(q) \in Events
         /\ Last(q) \in Events
         /\ Tail(q) = <<>> => Head(q) = Last(q)
         /\ Tail(q) # <<>> => Last(Tail(q)) = Last(q)
<1> DEFINE S == Events
<1>1. q \in Seq(S)
  BY DEF Queues
<1> HIDE DEF S
<1>2. Len(q) \in Nat /\ Len(q) > 0 /\ Tail(q) \in Seq(S) /\ Head(q) \in S /\ Head(q) = q[1]
      /\ Len(Tail(q)) = Len(q) - 1 /\ q[Len(q)] \in S
  BY <1>1
<1>3. \A i \in 1 .. Len(q) - 1 : Tail(q)[i] = q[i + 1]
  BY <1>1, <1>2
<1>4. Tail(q) = <<>> => Len(q) = 1
  BY <1>2
<1>5. Tail(q) # <<>> => Len(q) - 1 \in 1 .. Len(q) - 1
  BY <1>1, <1>2
<1>6. Tail(q) # <<>> => Tail(q)[Len(Tail(q))] = q[Len(q)]
  BY <1>2, <1>3, <1>5
<1>7. QED
  BY <1>2, <1>4, <1>6 DEF S, Queues, Last

(* An event is put on its way to a socket, or is missed by it. *)
LEMMA PutsOne ==
  ASSUME sockets \in Sockets, NEW r \in RunIds, NEW event \in Events
  PROVE  LET S == Puts(r, event)
         IN  /\ S \in Sockets
             /\ \A q \in RunIds : q # r => S[q] = sockets[q]
             /\ S[r].state = sockets[r].state /\ S[r].phase = sockets[r].phase
             /\ S[r].queue = Append(sockets[r].queue, event) /\ S[r].told = TRUE
<1> DEFINE s == sockets[r]
           a == Append(s.queue, event)
           d == [s EXCEPT !.queue = a, !.told = TRUE]
<1>1. s \in SocketType
  BY DEF Sockets
<1>2. s.queue \in Queues
  BY <1>1, SocketIs
<1>3. a \in Queues
  BY <1>2, QueuePut
<1>4. d \in SocketType /\ d.state = s.state /\ d.phase = s.phase /\ d.queue = a /\ d.told = TRUE
  BY <1>1, <1>3, Fed
<1>5. Puts(r, event) = [sockets EXCEPT ![r] = d]
  BY DEF Puts, Sockets
<1> HIDE DEF d
<1>6. QED
  BY <1>4, <1>5 DEF Sockets

LEMMA MissesOne ==
  ASSUME sockets \in Sockets, NEW r \in RunIds
  PROVE  LET S == Misses(r)
         IN  /\ S \in Sockets
             /\ \A q \in RunIds : q # r => S[q] = sockets[q]
             /\ S[r].state = sockets[r].state /\ S[r].phase = sockets[r].phase
             /\ S[r].queue = sockets[r].queue
             /\ sockets[r].state \in {"none", "open"} => S[r].told = FALSE
<1> DEFINE s == sockets[r]
           d == [s EXCEPT !.queue = s.queue, !.told = FALSE]
<1>1. s \in SocketType
  BY DEF Sockets
<1>2. s.queue \in Queues
  BY <1>1, SocketIs
<1>3. d \in SocketType /\ d.state = s.state /\ d.phase = s.phase /\ d.queue = s.queue
      /\ d.told = FALSE
  BY <1>1, <1>2, Fed
<1>4. [s EXCEPT !.told = FALSE] = d
  BY <1>1, SocketIs
<1>5. [sockets EXCEPT ![r].told = FALSE] = [sockets EXCEPT ![r] = d]
  BY <1>4 DEF Sockets
<1> HIDE DEF d
<1>6. QED
  BY <1>3, <1>5 DEF Sockets, Misses

-----------------------------------------------------------------------------
(* One socket: the invariant.                                              *)

SocketInv == sockets \in Sockets /\ OneSocket

(* CloseSocket keeps the sockets records, and closes the one it names. *)
LEMMA Closing ==
  ASSUME sockets \in Sockets, NEW r
  PROVE  /\ CloseSocket(r) \in Sockets
         /\ \A q \in RunIds : CloseSocket(r)[q].state = "open"
                                => sockets[q].state = "open" /\ q # r
         /\ \A q \in RunIds : q # r => CloseSocket(r)[q] = sockets[q]
  BY NoSocketIs DEF Sockets, CloseSocket

(* With OneSocket, closing the socket of wsRef leaves none open. *)
LEMMA NoneOpen ==
  ASSUME SocketInv
  PROVE  /\ CloseSocket(ws) \in Sockets
         /\ \A q \in RunIds : CloseSocket(ws)[q].state # "open"
  BY Closing DEF SocketInv, OneSocket

(* Opening a workflow closes the socket of wsRef or leaves everything. *)
LEMMA GoToKeeps ==
  ASSUME SocketInv, NEW w, NEW others, GoTo(w, others), UNCHANGED ws
  PROVE  SocketInv'
<1>1. CASE sockets' = CloseSocket(ws)
  BY <1>1, NoneOpen DEF SocketInv, OneSocket
<1>2. CASE UNCHANGED sockets
  BY <1>2 DEF SocketInv, OneSocket
<1>3. QED
  BY <1>1, <1>2 DEF GoTo

(* What the answer of createRun makes of the sockets. *)
LEMMA Opens ==
  ASSUME SocketInv, NEW c, StartAnswered(c)
  PROVE  /\ sockets' \in Sockets
         /\ \A q \in RunIds : q # c.run => sockets'[q] = CloseSocket(IF c.gone THEN 0 ELSE ws)[q]
         /\ c.run \in RunIds =>
              LET s == CloseSocket(IF c.gone THEN 0 ELSE ws)[c.run]
              IN  /\ sockets'[c.run].state = IF c.gone THEN "leaked" ELSE "open"
                  /\ sockets'[c.run].phase = s.phase /\ sockets'[c.run].queue = s.queue
                  /\ sockets'[c.run].told = s.told
<1> DEFINE S == CloseSocket(IF c.gone THEN 0 ELSE ws)
           x == IF c.gone THEN "leaked" ELSE "open"
<1>1. S \in Sockets
  BY Closing DEF SocketInv
<1>2. sockets' = [S EXCEPT ![c.run].state = x]
  BY DEF StartAnswered
<1>3. x \in States
  BY DEF States
<1> HIDE DEF S, x
<1>4. CASE c.run \notin RunIds
  <2>1. sockets' = S
    BY <1>1, <1>2, <1>4 DEF Sockets
  <2>2. QED
    BY <1>1, <1>4, <2>1 DEF S
<1>5. CASE c.run \in RunIds
  <2> DEFINE s == S[c.run]
             d == [s EXCEPT !.state = x]
  <2>1. s \in SocketType
    BY <1>1, <1>5 DEF Sockets
  <2>2. d \in SocketType /\ d.state = x /\ d.phase = s.phase /\ d.queue = s.queue /\ d.told = s.told
    BY <1>3, <2>1, Opened
  <2>3. sockets' = [S EXCEPT ![c.run] = d]
    BY <1>1, <1>2, <1>5 DEF Sockets
  <2> HIDE DEF d
  <2>4. sockets' \in Sockets /\ sockets'[c.run] = d
        /\ \A q \in RunIds : q # c.run => sockets'[q] = S[q]
    BY <1>1, <1>5, <2>2, <2>3 DEF Sockets
  <2>5. QED
    BY <2>2, <2>4 DEF S, x
<1>6. QED
  BY <1>4, <1>5

(* createRun is answered: what was open is closed, and what is opened is wsRef. *)
LEMMA StartAnsweredKeeps ==
  ASSUME SocketInv, NEW c, StartAnswered(c)
  PROVE  SocketInv'
<1> DEFINE S == CloseSocket(IF c.gone THEN 0 ELSE ws)
<1>1. \A q \in RunIds : S[q].state = "open" => c.gone /\ q = ws
  <2>1. CASE c.gone
    BY <2>1, Closing DEF SocketInv, OneSocket
  <2>2. CASE ~c.gone
    BY <2>2, NoneOpen
  <2>3. QED
    BY <2>1, <2>2
<1>2. /\ sockets' \in Sockets
      /\ \A q \in RunIds : q # c.run => sockets'[q] = S[q]
      /\ c.run \in RunIds => sockets'[c.run].state = IF c.gone THEN "leaked" ELSE "open"
  BY Opens
<1>3. ws' = IF c.gone THEN ws ELSE c.run
  BY DEF StartAnswered
<1> HIDE DEF S
<1>4. ASSUME NEW q \in RunIds, sockets'[q].state = "open"
      PROVE  q = ws'
  <2>1. CASE q = c.run
    BY <2>1, <1>2, <1>3, <1>4
  <2>2. CASE q # c.run
    BY <2>2, <1>1, <1>2, <1>3, <1>4
  <2>3. QED
    BY <2>1, <2>2
<1>5. QED
  BY <1>2, <1>4 DEF SocketInv, OneSocket

-----------------------------------------------------------------------------
(* Executions.                                                             *)

Execs == [ExecIds -> ExecType]

\* What an execution has to say is an event; one that is idle says nothing.
Speaks == \A e \in ExecIds :
  /\ execs[e].at \in {"tells", "logged"} => execs[e].event \in Events
  /\ execs[e].at = "idle" => execs[e].run = 0

ExecInv == execs \in Execs /\ Speaks

LEMMA EventNames ==
  /\ Events = {"usage", "interrupt", "completed", "error"}
  /\ DOMAIN Leaves = {"interrupt", "completed", "error"}
  /\ "none" \notin Events
  BY DEF Events, Leaves

(* An execution goes on, another begins, one ends. *)
LEMMA GoesOn ==
  ASSUME execs \in Execs, NEW e \in ExecIds,
         NEW at \in {"idle", "spawned", "works", "tells", "logged", "replies"},
         NEW event \in Events \cup {"none"}, Goes(e, at, event)
  PROVE  /\ execs' \in Execs
         /\ \A d \in ExecIds : d # e => execs'[d] = execs[d]
         /\ execs'[e].run = execs[e].run /\ execs'[e].at = at /\ execs'[e].event = event
<1> DEFINE x == execs[e]
           y == [run |-> x.run, at |-> at, event |-> event]
<1>1. x \in ExecType
  BY DEF Execs
<1>2. y \in ExecType
  BY <1>1 DEF ExecType
<1>3. execs' = [execs EXCEPT ![e].at = at, ![e].event = event]
  BY DEF Goes
<1>4. execs' = [execs EXCEPT ![e] = [[x EXCEPT !.at = at] EXCEPT !.event = event]]
  BY <1>3 DEF Execs
<1>5. [[x EXCEPT !.at = at] EXCEPT !.event = event] = y
  <2>1. [x EXCEPT !.at = at] = [run |-> x.run, at |-> at, event |-> x.event]
    BY <1>1 DEF ExecType
  <2>2. [[run |-> x.run, at |-> at, event |-> x.event] EXCEPT !.event = event] = y
    OBVIOUS
  <2>3. QED
    BY <2>1, <2>2
<1> HIDE DEF y
<1>6. execs' = [execs EXCEPT ![e] = y]
  BY <1>4, <1>5
<1>7. execs'[e] = y /\ \A d \in ExecIds : d # e => execs'[d] = execs[d]
  BY <1>6 DEF Execs
<1>8. execs' \in Execs
  BY <1>2, <1>6 DEF Execs
<1>9. QED
  BY <1>7, <1>8 DEF y

LEMMA Spawning ==
  ASSUME execs \in Execs, NEW r \in RunIds \cup {0}, NEW e \in ExecIds,
         execs' = [execs EXCEPT ![e] = [run |-> r, at |-> "spawned", event |-> "none"]]
  PROVE  /\ execs' \in Execs
         /\ \A d \in ExecIds : d # e => execs'[d] = execs[d]
         /\ execs'[e].run = r /\ execs'[e].at = "spawned"
<1> DEFINE y == [run |-> r, at |-> "spawned", event |-> "none"]
<1>1. y \in ExecType
  BY DEF ExecType
<1>2. y.run = r /\ y.at = "spawned"
  OBVIOUS
<1> HIDE DEF y
<1>3. execs' = [execs EXCEPT ![e] = y]
  BY DEF y
<1>4. QED
  BY <1>1, <1>2, <1>3 DEF Execs

LEMMA Ending ==
  ASSUME execs \in Execs, NEW e \in ExecIds, execs' = [execs EXCEPT ![e] = Idle]
  PROVE  /\ execs' \in Execs
         /\ \A d \in ExecIds : d # e => execs'[d] = execs[d]
         /\ execs'[e].run = 0 /\ execs'[e].at = "idle"
<1>1. Idle \in ExecType /\ Idle.run = 0 /\ Idle.at = "idle"
  BY DEF Idle, ExecType
<1>2. QED
  BY <1>1 DEF Execs

(* After an emission: back to work after a usage event, and otherwise nearly done. *)
LEMMA AfterIs ==
  ASSUME execs \in Execs, NEW e \in ExecIds, After(e)
  PROVE  /\ execs' \in Execs
         /\ \A d \in ExecIds : d # e => execs'[d] = execs[d]
         /\ \/ /\ execs[e].event = "usage"
               /\ execs'[e].run = execs[e].run /\ execs'[e].at = "works"
            \/ /\ execs[e].event # "usage"
               /\ execs'[e].run = 0 /\ execs'[e].at = "idle"
            \/ /\ execs[e].event # "usage"
               /\ execs'[e].run = execs[e].run /\ execs'[e].at = "replies"
<1>1. CASE execs[e].event = "usage"
  BY <1>1, GoesOn, Zenon DEF After
<1>2. CASE execs[e].event = "error"
  <2>1. execs' = [execs EXCEPT ![e] = Idle]
    BY <1>2, Zenon DEF After
  <2>2. QED
    BY <1>2, <2>1, Ending
<1>3. CASE execs[e].event \notin {"usage", "error"}
  <2>1. Goes(e, "replies", "none")
    BY <1>3, Zenon DEF After
  <2>2. QED
    BY <1>3, <2>1, GoesOn
<1>4. QED
  BY <1>1, <1>2, <1>3

(* A step of an execution leaves the others alone, and its own run unless it ends. *)
LEMMA ExecuteOne ==
  ASSUME ExecInv, NEW e \in ExecIds, Execute(e)
  PROVE  /\ ExecInv'
         /\ execs[e].at # "idle"
         /\ \A d \in ExecIds : d # e => execs'[d] = execs[d]
         /\ execs'[e].run \in {0, execs[e].run}
<1> USE DEF ExecInv
<1>1. ASSUME execs' \in Execs, execs[e].at # "idle",
             \A d \in ExecIds : d # e => execs'[d] = execs[d],
             execs'[e].run \in {0, execs[e].run},
             execs'[e].at \in {"tells", "logged"} => execs'[e].event \in Events,
             execs'[e].at = "idle" => execs'[e].run = 0
      PROVE  /\ ExecInv'
             /\ execs[e].at # "idle"
             /\ \A d \in ExecIds : d # e => execs'[d] = execs[d]
             /\ execs'[e].run \in {0, execs[e].run}
  BY <1>1 DEF Speaks
<1>2. CASE Begin(e)
  <2>1. Goes(e, "works", "none") /\ execs[e].at = "spawned"
    BY <1>2 DEF Begin
  <2>2. QED
    BY <1>1, <2>1, GoesOn
<1>3. CASE Use(e)
  <2>1. Goes(e, "tells", "usage") /\ execs[e].at = "works"
    BY <1>3 DEF Use
  <2>2. QED
    BY <1>1, <2>1, GoesOn, EventNames
<1>4. CASE Settle(e)
  <2>1. PICK event \in DOMAIN Leaves : Goes(e, "tells", event)
    BY <1>4 DEF Settle
  <2>2. event \in Events /\ execs[e].at = "works"
    BY <1>4, <2>1, EventNames DEF Settle
  <2>3. QED
    BY <1>1, <2>1, <2>2, GoesOn
<1>5. CASE Log(e)
  <2>1. Goes(e, "logged", execs[e].event) /\ execs[e].at = "tells"
    BY <1>5, Zenon DEF Log
  <2>2. execs[e].event \in Events
    BY <2>1 DEF Speaks
  <2>3. QED
    BY <1>1, <2>1, <2>2, GoesOn
<1>6. CASE Publish(e) \/ Swallow(e)
  <2>1. After(e) /\ execs[e].at \in {"tells", "logged"}
    BY <1>6, Zenon DEF Publish, Swallow
  <2>2. QED
    BY <1>1, <2>1, AfterIs
<1>7. CASE CallBack(e)
  <2>1. CASE execs' = [execs EXCEPT ![e] = Idle]
    BY <1>1, <1>7, <2>1, Ending DEF CallBack
  <2>2. CASE Goes(e, "tells", "error")
    BY <1>1, <1>7, <2>2, GoesOn, EventNames DEF CallBack
  <2>3. QED
    BY <1>7, <2>1, <2>2 DEF CallBack
<1>8. QED
  BY <1>2, <1>3, <1>4, <1>5, <1>6, <1>7, Zenon DEF Execute

(* ... and of the sockets at most what the one of its run is told. *)
LEMMA ExecuteTells ==
  ASSUME ExecInv, sockets \in Sockets, NEW e \in ExecIds, Execute(e)
  PROVE  /\ sockets' \in Sockets
         /\ \A q \in RunIds : q # execs[e].run => sockets'[q] = sockets[q]
         /\ \A q \in RunIds : sockets'[q].state = sockets[q].state
                              /\ sockets'[q].phase = sockets[q].phase
<1> DEFINE r == execs[e].run
           event == execs[e].event
<1>0. r \in RunIds \cup {0}
  BY DEF ExecInv, Execs, ExecType
<1>1. CASE UNCHANGED sockets
  BY <1>1
<1>2. CASE r \in RunIds /\ sockets' = Misses(r)
  BY <1>2, MissesOne
<1>3. CASE r \in RunIds /\ event \in Events /\ sockets' = Puts(r, event)
  BY ZenonT(60), <1>3, PutsOne
<1>4. CASE r = 0 /\ (sockets' = Misses(r) \/ sockets' = Puts(r, event))
  <2>1. 0 \notin RunIds
    BY WorkbenchAssumption DEF RunIds
  <2>2. UNCHANGED sockets
    BY <1>4, <2>1 DEF Misses, Puts, Sockets
  <2>3. QED
    BY <1>1, <2>2
<1>5. execs[e].at \in {"tells", "logged"} => event \in Events
  BY DEF ExecInv, Speaks
<1>6. CASE Begin(e) \/ Use(e) \/ Settle(e) \/ CallBack(e)
  BY <1>1, <1>6, Zenon DEF Begin, Use, Settle, CallBack
<1>7. CASE Log(e)
  <2>1. execs[e].at = "tells" /\ (UNCHANGED sockets \/ sockets' = Puts(r, event)
                                  \/ sockets' = Misses(r))
    BY <1>7, Zenon DEF Log
  <2>2. QED
    BY <1>0, <1>1, <1>2, <1>3, <1>4, <1>5, <2>1
<1>8. CASE Publish(e)
  <2>1. execs[e].at = "logged" /\ (UNCHANGED sockets \/ sockets' = Puts(r, event))
    BY <1>8, Zenon DEF Publish
  <2>2. QED
    BY <1>0, <1>1, <1>3, <1>4, <1>5, <2>1
<1>9. CASE Swallow(e)
  <2>1. UNCHANGED sockets \/ sockets' = Misses(r)
    BY <1>9, Zenon DEF Swallow
  <2>2. QED
    BY <1>0, <1>1, <1>2, <1>4, <2>1
<1>10. QED
  BY <1>6, <1>7, <1>8, <1>9, Zenon DEF Execute

(* What the socket's server and the page do to it. *)
LEMMA HearsOne ==
  ASSUME sockets \in Sockets, NEW r \in RunIds, Hear(r)
  PROVE  /\ sockets' \in Sockets /\ ws' = ws
         /\ \A q \in RunIds : q # r => sockets'[q] = sockets[q]
         /\ \A q \in RunIds : sockets'[q].state = sockets[q].state
                              /\ sockets'[q].told = sockets[q].told
<1> DEFINE s == sockets[r]
<1>1. s \in SocketType
  BY DEF Sockets
<1>2. s.queue \in Queues /\ s.phase \in Phases /\ s.told \in BOOLEAN /\ <<>> \in Queues
  BY <1>1, SocketIs DEF Queues
<1>3. ASSUME NEW d \in SocketType, d.state = s.state, d.told = s.told,
             sockets' = [sockets EXCEPT ![r] = d]
      PROVE  /\ sockets' \in Sockets
             /\ \A q \in RunIds : q # r => sockets'[q] = sockets[q]
             /\ \A q \in RunIds : sockets'[q].state = sockets[q].state
                                  /\ sockets'[q].told = sockets[q].told
  BY <1>3 DEF Sockets
<1>4. CASE Replay(r)
  <2> DEFINE q == IF runs[r].status = "absent" THEN <<>> ELSE s.queue
             d == [s EXCEPT !.phase = "replayed", !.queue = q]
  <2>1. q \in Queues
    BY <1>2
  <2>2. sockets' = [sockets EXCEPT ![r] = d] /\ ws' = ws
    BY <1>4 DEF Replay, Sockets
  <2> HIDE DEF q
  <2>3. d \in SocketType /\ d.state = s.state /\ d.told = s.told
    BY ZenonT(60), <1>1, <2>1, Phased DEF Phases
  <2> HIDE DEF d
  <2>4. QED
    BY <1>3, <2>2, <2>3
<1>5. CASE Subscribe(r)
  <2> DEFINE d == [s EXCEPT !.phase = "live"]
  <2>1. sockets' = [sockets EXCEPT ![r] = d] /\ ws' = ws
    BY <1>5 DEF Subscribe, Sockets
  <2>2. d \in SocketType /\ d.state = s.state /\ d.told = s.told
    BY <1>1, Subscribed DEF Phases
  <2> HIDE DEF d
  <2>3. QED
    BY <1>3, <2>1, <2>2
<1>6. CASE Deliver(r)
  <2> DEFINE q == Tail(s.queue)
             d == [s EXCEPT !.queue = q]
  <2>0. s.queue # <<>>
    BY <1>6 DEF Deliver
  <2>1. q \in Queues
    BY <1>2, <2>0, QueueTaken
  <2>2. sockets' = [sockets EXCEPT ![r] = d] /\ ws' = ws
    BY <1>6 DEF Deliver, Sockets
  <2> HIDE DEF q
  <2>3. d \in SocketType /\ d.state = s.state /\ d.told = s.told
    BY <1>1, <2>1, Taken
  <2> HIDE DEF d
  <2>4. QED
    BY <1>3, <2>2, <2>3
<1>7. QED
  BY <1>4, <1>5, <1>6 DEF Hear

(* Every step keeps at most one socket open, the one of wsRef. *)
LEMMA SocketStep == SocketInv /\ ExecInv /\ [Next]_vars => SocketInv'
<1> SUFFICES ASSUME SocketInv, ExecInv, [Next]_vars
             PROVE  SocketInv'
  OBVIOUS
<1> USE DEF SocketInv, OneSocket
<1>0. ASSUME UNCHANGED wires
      PROVE  SocketInv'
  BY <1>0 DEF wires
<1>1. ASSUME NEW w \in Workflows, Open(w)
      PROVE  SocketInv'
  BY <1>1, GoToKeeps DEF Open
<1>2. ASSUME NEW w \in Workflows, Delete(w)
      PROVE  SocketInv'
  BY <1>2, <1>0 DEF Delete
<1>3. CASE Create \/ Return \/ Draw \/ Save \/ Validate \/ Schedule \/ Start \/ Reply
  <2>1. UNCHANGED wires
    BY <1>3 DEF Create, Return, Draw, Save, Validate, Schedule, Start, Reply
  <2>2. QED
    BY <2>1, <1>0
<1>4. CASE Leave
  <2>1. sockets' = CloseSocket(ws)
    BY <1>4 DEF Leave
  <2>2. QED
    BY <2>1, NoneOpen
<1>5. ASSUME NEW c \in calls, Proceed(c)
      PROVE  SocketInv'
  <2>1. CASE Serve(c) \/ Check(c) \/ Checked(c) \/ Rejected(c)
    <3>1. UNCHANGED wires
      BY <2>1 DEF Serve, Check, Checked, Rejected
    <3>2. QED
      BY <3>1, <1>0
  <2>2. CASE Created(c)
    BY <2>2, GoToKeeps DEF Created
  <2>3. CASE Answered(c)
    <3>1. CASE StartAnswered(c)
      BY <3>1, StartAnsweredKeeps
    <3>2. CASE \/ LoadAnswered(c) \/ DeleteAnswered(c) \/ ScheduleAnswered(c) \/ SaveAnswered(c)
               \/ UNCHANGED wires
      <4>1. UNCHANGED wires
        BY <3>2 DEF LoadAnswered, DeleteAnswered, ScheduleAnswered, SaveAnswered
      <4>2. QED
        BY <4>1, <1>0
    <3>3. \/ StartAnswered(c) \/ LoadAnswered(c) \/ DeleteAnswered(c) \/ ScheduleAnswered(c)
          \/ SaveAnswered(c) \/ UNCHANGED wires
      BY <2>3, Zenon DEF Answered
    <3>4. QED
      BY <3>1, <3>2, <3>3
  <2>4. QED
    BY <1>5, <2>1, <2>2, <2>3 DEF Proceed
<1>6. ASSUME NEW c \in calls, Lose(c)
      PROVE  SocketInv'
  BY <1>6, <1>0 DEF Lose
<1>7. ASSUME NEW e \in ExecIds, Execute(e)
      PROVE  SocketInv'
  <2>1. UNCHANGED ws
    BY <1>7 DEF Execute
  <2>2. QED
    BY <1>7, <2>1, ExecuteTells
<1>8. ASSUME NEW r \in RunIds, Approve(r)
      PROVE  SocketInv'
  BY <1>8, <1>0 DEF Approve
<1>9. ASSUME NEW r \in RunIds, Hear(r)
      PROVE  SocketInv'
  BY <1>9, HearsOne
<1>12. ASSUME NEW r \in RunIds, Break(r)
      PROVE  SocketInv'
  <2>1. sockets' = CloseSocket(r) /\ ws' = ws
    BY <1>12 DEF Break
  <2>2. QED
    BY <2>1, Closing
<1>10. CASE UNCHANGED vars
  BY <1>10, <1>0 DEF vars
<1>11. QED
  BY <1>1, <1>2, <1>3, <1>4, <1>5, <1>6, <1>7, <1>8, <1>9, <1>10, <1>12 DEF Next, User

LEMMA SocketInit == Init => SocketInv
  BY NoSocketIs DEF Init, SocketInv, Sockets, OneSocket

-----------------------------------------------------------------------------
(* Types.                                                                  *)

Statuses == {"absent", "pending", "running", "waiting_human", "completed", "failed"}
RunType == [wf : Workflows \cup {None}, status : Statuses]

Types ==
  /\ TypeOK
  /\ clicks \in Nat
  /\ stored \in [Workflows -> Drawings]
  /\ canvas \in Drawings
  /\ runs \in [RunIds -> RunType]
  /\ Speaks

LEMMA TypesExec == Types => ExecInv
  BY DEF Types, TypeOK, ExecInv, Execs

LEMMA TypesExecNext == Types' => ExecInv'
  BY DEF Types, TypeOK, ExecInv, Execs

(* A request of a new click, and what may be changed in one. *)
LEMMA NewCall ==
  ASSUME clicks' \in Nat, NEW k \in Kinds, NEW w \in Workflows \cup {None}
  PROVE  /\ Call(k, w) \in CallType
         /\ Call(k, w).kind = k /\ Call(k, w).wf = w /\ Call(k, w).at = "sent"
         /\ Call(k, w).run = 0 /\ ~Call(k, w).gone
  BY DEF Call, CallType, NoDrawing, Drawings

LEMMA MovedCall ==
  ASSUME NEW c \in CallType, NEW a \in {"sent", "served", "checking", "refused"}
  PROVE  LET d == [c EXCEPT !.at = a]
         IN  /\ d \in CallType
             /\ d.at = a /\ d.kind = c.kind /\ d.wf = c.wf /\ d.run = c.run
             /\ d.drawing = c.drawing /\ d.asked = c.asked
             /\ d.alone = c.alone
             /\ d.gone = c.gone
  BY DEF CallType

LEMMA LeftCall ==
  ASSUME NEW c \in CallType
  PROVE  LET d == [c EXCEPT !.gone = TRUE]
         IN  /\ d \in CallType
             /\ d.at = c.at /\ d.kind = c.kind /\ d.wf = c.wf /\ d.run = c.run
             /\ d.drawing = c.drawing /\ d.asked = c.asked
             /\ d.alone = c.alone
             /\ d.gone
  BY DEF CallType

LEMMA JoinedCall ==
  ASSUME NEW c \in CallType
  PROVE  LET d == [c EXCEPT !.alone = FALSE]
         IN  /\ d \in CallType
             /\ d.at = c.at /\ d.kind = c.kind /\ d.wf = c.wf /\ d.run = c.run
             /\ d.drawing = c.drawing /\ d.asked = c.asked
             /\ d.gone = c.gone
             /\ ~d.alone
  BY DEF CallType

(* A write: what it carries, and whether it is alone. *)
Write(k, w) == [Call(k, w) EXCEPT !.drawing = canvas, !.alone = Writes(w) = {}]

LEMMA NewWrite ==
  ASSUME clicks' \in Nat, canvas \in Drawings, NEW k \in Kinds, NEW w \in Workflows \cup {None}
  PROVE  /\ Write(k, w) \in CallType
         /\ Write(k, w).kind = k /\ Write(k, w).wf = w /\ Write(k, w).at = "sent"
         /\ Write(k, w).drawing = canvas /\ ~Write(k, w).gone
         /\ Write(k, w).alone => Writes(w) = {}
<1> DEFINE b == Writes(w) = {}
           c == Call(k, w)
<1>1. b \in BOOLEAN
  OBVIOUS
<1>2. c \in CallType /\ c.kind = k /\ c.wf = w /\ c.at = "sent" /\ ~c.gone
  BY NewCall
<1> HIDE DEF b, c
<1>3. [c EXCEPT !.drawing = canvas, !.alone = b] \in CallType
  BY <1>1, <1>2 DEF CallType
<1>4. /\ [c EXCEPT !.drawing = canvas, !.alone = b].kind = k
      /\ [c EXCEPT !.drawing = canvas, !.alone = b].wf = w
      /\ [c EXCEPT !.drawing = canvas, !.alone = b].at = "sent"
      /\ [c EXCEPT !.drawing = canvas, !.alone = b].drawing = canvas
      /\ ~[c EXCEPT !.drawing = canvas, !.alone = b].gone
  BY <1>2 DEF CallType
<1>5. [c EXCEPT !.drawing = canvas, !.alone = b].alone => b
  BY <1>1, <1>2 DEF CallType
<1>6. QED
  BY <1>3, <1>4, <1>5 DEF Write, b, c

(* What an execution or a request makes of a row. *)
LEMMA WrittenType ==
  ASSUME runs \in [RunIds -> RunType], NEW r \in RunIds \cup {0}, NEW x \in Statuses
  PROVE  /\ Written(r, x) \in [RunIds -> RunType]
         /\ \A q \in RunIds : Written(r, x)[q].wf = runs[q].wf
         /\ \A q \in RunIds : q # r => Written(r, x)[q] = runs[q]
         /\ r \in RunIds => Written(r, x)[r].status
                             = IF runs[r].status = "absent" THEN "absent" ELSE x
<1>1. CASE r \in RunIds
  <2> DEFINE st == IF runs[r].status = "absent" THEN "absent" ELSE x
             d == [runs[r] EXCEPT !.status = st]
  <2>1. runs[r] \in RunType /\ st \in Statuses
    BY <1>1 DEF Statuses
  <2>2. Written(r, x) = [runs EXCEPT ![r] = d]
    BY <1>1 DEF Written, RunType
  <2> HIDE DEF st
  <2>3. d \in RunType /\ d.wf = runs[r].wf /\ d.status = st
    BY <2>1 DEF RunType
  <2> HIDE DEF d
  <2>4. QED
    BY <1>1, <2>2, <2>3 DEF st
<1>2. CASE r \notin RunIds
  BY <1>2 DEF Written
<1>3. QED
  BY <1>1, <1>2

LEMMA LeavesType == \A event \in DOMAIN Leaves : Leaves[event] \in Statuses
  BY DEF Leaves, Statuses

LEMMA TypesInit == Init => Types
<1> SUFFICES ASSUME Init PROVE Types
  OBVIOUS
<1>1. stored \in [Workflows -> Drawings]
  BY DEF Init, Drawings
<1>2. opened \in Workflows \cup {None} /\ wf = opened
  BY WorkbenchAssumption DEF Init
<1>3. NoDrawing \in Drawings
  BY DEF NoDrawing, Drawings
<1>4. canvas \in Drawings
  BY <1>1, <1>2, <1>3 DEF Init
<1>5. runs \in [RunIds -> RunType]
  <2>1. NoRun \in RunType
    BY DEF NoRun, RunType, Statuses
  <2>2. QED
    BY <2>1 DEF Init
<1>6. sockets \in [RunIds -> SocketType]
  BY NoSocketIs DEF Init
<1>7. execs \in [ExecIds -> ExecType] /\ Speaks
  <2>1. Idle \in ExecType /\ Idle.at = "idle" /\ Idle.run = 0
    BY DEF Idle, ExecType
  <2>2. QED
    BY <2>1 DEF Init, Speaks
<1>8. QED
  BY <1>1, <1>2, <1>4, <1>5, <1>6, <1>7, WorkbenchAssumption DEF Init, Types, TypeOK

LEMMA SendWriteTypes ==
  ASSUME Types, clicks' \in Nat, NEW k \in Kinds, SendWrite(k, wf)
  PROVE  calls' \subseteq CallType
<1>1. calls' = {[c EXCEPT !.alone = FALSE] : c \in Writes(wf)} \cup (calls \ Writes(wf))
               \cup {Write(k, wf)}
  BY DEF SendWrite, Write
<1>2. wf \in Workflows \cup {None} /\ canvas \in Drawings /\ calls \subseteq CallType
  BY DEF Types, TypeOK
<1>3. Write(k, wf) \in CallType
  BY <1>2, NewWrite
<1>4. \A c \in Writes(wf) : [c EXCEPT !.alone = FALSE] \in CallType
  BY <1>2, JoinedCall DEF Writes
<1>5. QED
  BY <1>1, <1>2, <1>3, <1>4

(* The steps of the user. *)
LEMMA UserTypes ==
  ASSUME Types, sockets' \in Sockets, User
  PROVE  Types'
<1> USE DEF backend, work, page, panel, wires, Speaks
<1>1. clicks' \in Nat
  <2>1. Click
    BY DEF User, Open, Delete, Create, Leave, Return, Draw, Save, Validate, Schedule,
           Start, Reply, OnPage
  <2>2. QED
    BY <2>1 DEF Click, Types
<1>2. sockets' \in [RunIds -> SocketType]
  BY DEF Sockets
<1>3. calls \subseteq CallType /\ opened \in Workflows \cup {None} /\ wf \in Workflows \cup {None}
      /\ canvas \in Drawings /\ run \in RunIds \cup {0} /\ asker \in RunIds \cup {0}
      /\ born \subseteq Workflows
  BY DEF Types, TypeOK
<1>4. {"load", "create", "save", "validate", "schedule", "delete", "start", "reply"} \subseteq Kinds
  BY DEF Kinds
<1>5. ASSUME NEW w \in Workflows, Open(w) PROVE Types'
  <2>1. calls' \subseteq CallType /\ opened' = w /\ mounted' = TRUE
    BY <1>1, <1>3, <1>4, <1>5, NewCall DEF Open, GoTo
  <2>2. UNCHANGED <<backend, page, ws, upsets>>
    BY <1>5 DEF Open
  <2>3. QED
    BY <1>1, <1>2, <2>1, <2>2 DEF Types, TypeOK
<1>6. ASSUME NEW w \in Workflows, Delete(w) PROVE Types'
  <2> DEFINE b == wf = w
             c == Call("delete", w)
  <2>1. c \in CallType /\ b \in BOOLEAN
    BY <1>1, <1>4, NewCall
  <2> HIDE DEF b, c
  <2>2. [c EXCEPT !.shown = b] \in CallType
    BY <2>1 DEF CallType
  <2>3. calls' = calls \cup {[c EXCEPT !.shown = b]}
    BY <1>6 DEF Delete, b, c
  <2>4. QED
    BY <1>1, <1>2, <1>3, <1>6, <2>2, <2>3 DEF Delete, frame, Types, TypeOK
<1>7. CASE Create
  <2>1. calls' \subseteq CallType
    BY <1>1, <1>3, <1>4, <1>7, NewCall DEF Create
  <2>2. QED
    BY <1>1, <1>2, <1>7, <2>1 DEF Create, frame, Types, TypeOK
<1>8. CASE Leave
  <2>1. calls' \subseteq CallType
    BY <1>3, <1>8, LeftCall DEF Leave
  <2>2. QED
    BY <1>1, <1>2, <1>8, <2>1 DEF Leave, Types, TypeOK, Drawings, NoDrawing
<1>9. CASE Return
  <2>1. calls' \subseteq CallType
    BY <1>1, <1>3, <1>4, <1>9, NewCall DEF Return
  <2>2. QED
    BY <1>1, <1>2, <1>9, <2>1 DEF Return, Types, TypeOK
<1>10. CASE Draw
  <2>1. canvas' \in Drawings
    BY <1>1, <1>3, <1>10 DEF Draw, Drawings
  <2>2. QED
    BY <1>1, <1>2, <1>10, <2>1 DEF Draw, frame, Types, TypeOK
<1>11. CASE Save \/ Validate
  <2>1. calls' \subseteq CallType
    BY <1>1, <1>4, <1>11, SendWriteTypes DEF Save, Validate
  <2>2. QED
    BY <1>1, <1>2, <1>11, <2>1 DEF Save, Validate, frame, Types, TypeOK
<1>12. CASE Schedule
  <2>1. calls' \subseteq CallType
    BY <1>1, <1>3, <1>4, <1>12, NewCall DEF Schedule
  <2>2. QED
    BY <1>1, <1>2, <1>12, <2>1 DEF Schedule, frame, Types, TypeOK
<1>13. CASE Start
  <2>1. calls' \subseteq CallType
    BY <1>1, <1>3, <1>4, <1>13, NewCall DEF Start
  <2>2. QED
    BY <1>1, <1>2, <1>13, <2>1 DEF Start, frame, Types, TypeOK
<1>14. CASE Reply
  <2> DEFINE c == Call("reply", wf)
  <2>1. c \in CallType
    BY <1>1, <1>3, <1>4, NewCall
  <2> HIDE DEF c
  <2>2. [c EXCEPT !.run = run, !.asked = asker] \in CallType
    BY <1>3, <2>1 DEF CallType
  <2>3. calls' = calls \cup {[c EXCEPT !.run = run, !.asked = asker]}
    BY <1>14 DEF Reply, c
  <2>4. QED
    BY <1>1, <1>2, <1>3, <1>14, <2>2, <2>3 DEF Reply, frame, Types, TypeOK
<1>15. QED
  BY <1>5, <1>6, <1>7, <1>8, <1>9, <1>10, <1>11, <1>12, <1>13, <1>14 DEF User

(* A task is created. *)
LEMMA SpawnTypes ==
  ASSUME Types, NEW r \in RunIds \cup {0}, Spawn(r)
  PROVE  ExecInv' /\ doubled' \subseteq RunIds
<1>1. PICK e \in ExecIds :
        execs' = [execs EXCEPT ![e] = [run |-> r, at |-> "spawned", event |-> "none"]]
  BY DEF Spawn
<1>2. ExecInv
  BY TypesExec
<1>3. /\ execs' \in Execs
      /\ \A d \in ExecIds : d # e => execs'[d] = execs[d]
      /\ execs'[e].run = r /\ execs'[e].at = "spawned"
  BY <1>1, <1>2, Spawning DEF ExecInv
<1>4. QED
  BY <1>2, <1>3 DEF ExecInv, Speaks, Spawn, Types, TypeOK

(* The backend answers a request. *)
LEMMA ServeTypes ==
  ASSUME Types, sockets' \in Sockets, NEW c \in calls, Serve(c)
  PROVE  Types'
<1>1. c \in CallType /\ calls \subseteq CallType /\ UNCHANGED <<frame, page, wires, clicks>>
  BY DEF Types, TypeOK, Serve
<1>2. ASSUME calls' \subseteq CallType, upsets' \subseteq Upsets, UNCHANGED backend
      PROVE  Types'
  BY <1>1, <1>2 DEF Types, TypeOK, Speaks, frame, page, panel, wires, backend, work
<1>3. ASSUME NEW d \in CallType, Becomes(c, d)
      PROVE  calls' \subseteq CallType
  BY <1>1, <1>3 DEF Becomes
<1>4. Served(c) => calls' \subseteq CallType
  BY <1>1, <1>3, MovedCall DEF Served
<1>5. CASE Refuse(c)
  <2>1. calls' \subseteq CallType
    BY <1>1, <1>3, <1>5, MovedCall DEF Refuse
  <2>2. QED
    BY <1>2, <1>5, <2>1 DEF Refuse, Types, TypeOK, Upsets
<1>6. CASE ServeLoad(c)
  <2>1. stored[c.wf] \in Drawings
    BY <1>6 DEF ServeLoad, Types, TypeOK
  <2>2. [c EXCEPT !.at = "served", !.drawing = stored[c.wf]] \in CallType
    BY <1>1, <2>1 DEF CallType
  <2>3. QED
    BY <1>2, <1>3, <1>6, <2>2 DEF ServeLoad, Types, TypeOK
<1>7. CASE ServeWrite(c)
  <2>1. stored' \in [Workflows -> Drawings]
    BY <1>1, <1>7 DEF ServeWrite, Types, CallType
  <2>2. QED
    BY <1>1, <1>4, <1>7, <2>1 DEF ServeWrite, Types, TypeOK, frame, page, panel, wires, work, Speaks
<1>8. CASE ServeSchedule(c)
  BY <1>2, <1>4, <1>8 DEF ServeSchedule, Types, TypeOK
<1>9. CASE ServeDelete(c)
  <2>1. runs' \in [RunIds -> RunType]
    BY <1>9 DEF ServeDelete, Types, RunType, Statuses
  <2>2. exists' \subseteq born /\ upsets' \subseteq Upsets
    BY <1>9 DEF ServeDelete, Types, TypeOK, Upsets
  <2>3. QED
    BY <1>1, <1>4, <1>9, <2>1, <2>2
       DEF ServeDelete, Types, TypeOK, frame, page, panel, wires, work, Speaks
<1>10. CASE ServeCreate(c)
  <2>1. PICK w \in Workflows : /\ born' = born \cup {w} /\ exists' = exists \cup {w}
                               /\ Becomes(c, [c EXCEPT !.at = "served", !.wf = w])
    BY <1>10 DEF ServeCreate
  <2>2. [c EXCEPT !.at = "served", !.wf = w] \in CallType
    BY <1>1 DEF CallType
  <2>3. QED
    BY <1>1, <1>3, <1>10, <2>1, <2>2
    DEF ServeCreate, Types, TypeOK, frame, page, panel, wires, work, Speaks
<1>11. CASE ServeStart(c)
  <2>1. PICK r \in RunIds :
          /\ runs' = [runs EXCEPT ![r].wf = c.wf, ![r].status = "pending"]
          /\ Becomes(c, [c EXCEPT !.at = "served", !.run = r])
          /\ Spawn(r)
    BY <1>11 DEF ServeStart
  <2>2. [c EXCEPT !.at = "served", !.run = r] \in CallType
    BY <1>1 DEF CallType
  <2>3. c.wf \in Workflows \cup {None}
    BY <1>1 DEF CallType
  <2>4. runs' \in [RunIds -> RunType]
    <3>1. runs \in [RunIds -> RunType]
      BY DEF Types
    <3>2. runs' = [runs EXCEPT ![r] = [runs[r] EXCEPT !.wf = c.wf, !.status = "pending"]]
      BY <2>1, <3>1 DEF RunType
    <3>3. [runs[r] EXCEPT !.wf = c.wf, !.status = "pending"] \in RunType
      BY <2>3, <3>1 DEF RunType, Statuses
    <3>4. QED
      BY <3>1, <3>2, <3>3
  <2>5. ExecInv' /\ doubled' \subseteq RunIds
    BY <2>1, SpawnTypes
  <2>6. QED
    BY <1>1, <1>3, <1>11, <2>1, <2>2, <2>4, <2>5
    DEF ServeStart, Types, TypeOK, ExecInv, Execs, frame, page, panel, wires
<1>12. CASE ServeReply(c)
  <2>1. c.run \in RunIds \cup {0} /\ Spawn(c.run)
    BY <1>1, <1>12 DEF ServeReply, CallType
  <2>2. ExecInv' /\ doubled' \subseteq RunIds
    BY <2>1, SpawnTypes
  <2>3. QED
    BY <1>1, <1>4, <1>12, <2>2
    DEF ServeReply, Types, TypeOK, ExecInv, Execs, frame, page, panel, wires
<1>13. QED
  BY <1>5, <1>6, <1>7, <1>8, <1>9, <1>10, <1>11, <1>12 DEF Serve

(* Answers reach the page, and requests are lost. *)
LEMMA GoToTypes ==
  ASSUME Types, sockets' \in Sockets, UNCHANGED <<backend, page, ws, upsets, clicks>>,
         NEW c \in calls, GoTo(c.wf, calls \ {c})
  PROVE  Types'
<1>1. c \in CallType /\ calls \subseteq CallType /\ clicks' \in Nat
  BY DEF Types, TypeOK
<1>2. c.wf \in Workflows \cup {None} /\ "load" \in Kinds
  BY <1>1 DEF CallType, Kinds
<1>3. opened' = c.wf /\ mounted' = TRUE
  BY DEF GoTo
<1>4. calls' \subseteq CallType
  BY <1>1, <1>2, NewCall DEF GoTo
<1>5. QED
  BY <1>1, <1>2, <1>3, <1>4 DEF Types, TypeOK, Speaks, Sockets, backend, work, page, panel

LEMMA AnsweredTypes ==
  ASSUME Types, sockets' \in Sockets, NEW c \in calls, Answered(c)
  PROVE  Types'
<1> USE DEF page, panel, frame, wires
<1>1. c \in CallType /\ calls' \subseteq CallType /\ UNCHANGED <<backend, clicks>>
  BY DEF Types, TypeOK, Answered
<1>2. /\ c.wf \in Workflows \cup {None} /\ c.drawing \in Drawings
      /\ c.run \in RunIds \cup {0}
  BY <1>1 DEF CallType
<1>3. ASSUME wf' \in Workflows \cup {None}, canvas' \in Drawings,
             run' \in RunIds \cup {0}, asker' \in RunIds \cup {0}, ws' \in RunIds \cup {0},
             upsets' \subseteq Upsets, UNCHANGED frame
      PROVE  Types'
  BY <1>1, <1>3 DEF Types, TypeOK, Speaks, Sockets, backend, work
<1>4. CASE LoadAnswered(c)
  BY <1>2, <1>3, <1>4 DEF LoadAnswered, Types, TypeOK
<1>5. CASE StartAnswered(c)
  BY <1>2, <1>3, <1>5 DEF StartAnswered, Types, TypeOK
<1>6. CASE DeleteAnswered(c)
  BY <1>3, <1>6 DEF DeleteAnswered, Types, TypeOK
<1>7. CASE ScheduleAnswered(c)
  BY <1>2, <1>3, <1>7 DEF ScheduleAnswered, Types, TypeOK, Upsets
<1>8. CASE SaveAnswered(c)
  BY <1>3, <1>8 DEF SaveAnswered, Types, TypeOK
<1>9. CASE UNCHANGED <<frame, page, wires, upsets>>
  BY <1>3, <1>9 DEF Types, TypeOK
<1>10. \/ LoadAnswered(c) \/ StartAnswered(c) \/ DeleteAnswered(c) \/ ScheduleAnswered(c)
       \/ SaveAnswered(c) \/ UNCHANGED <<frame, page, wires, upsets>>
  BY Zenon DEF Answered
<1>11. QED
  BY <1>4, <1>5, <1>6, <1>7, <1>8, <1>9, <1>10

(* The other steps of a request. *)
LEMMA RequestTypes ==
  ASSUME Types, sockets' \in Sockets, NEW c \in calls,
         Check(c) \/ Checked(c) \/ Created(c) \/ Rejected(c) \/ Lose(c)
  PROVE  Types'
<1> USE DEF page, panel, frame, wires, backend, work
<1>1. c \in CallType /\ calls \subseteq CallType
  BY DEF Types, TypeOK
<1>2. ASSUME calls' \subseteq CallType, upsets' \subseteq Upsets,
             UNCHANGED <<born, exists, stored, runs, execs, doubled>>,
             UNCHANGED <<frame, wf, canvas, panel, wires, clicks>>
      PROVE  Types'
  BY <1>2 DEF Types, TypeOK, Speaks, backend, work
<1>3. ASSUME NEW d \in CallType, Becomes(c, d)
      PROVE  calls' \subseteq CallType
  BY <1>1, <1>3 DEF Becomes
<1>4. upsets \subseteq Upsets
  BY DEF Types, TypeOK
<1>5. CASE Check(c)
  <2>1. calls' \subseteq CallType
    BY <1>1, <1>3, <1>5, MovedCall DEF Check
  <2>2. QED
    BY <1>2, <1>4, <1>5, <2>1 DEF Check
<1>6. CASE Checked(c)
  BY <1>1, <1>2, <1>4, <1>6 DEF Checked
<1>7. CASE Created(c)
  BY <1>7, GoToTypes DEF Created
<1>8. CASE Rejected(c)
  BY <1>1, <1>2, <1>4, <1>8 DEF Rejected
<1>9. CASE Lose(c)
  <2>1. calls' \subseteq CallType
    BY <1>1, <1>3, <1>9, MovedCall DEF Lose
  <2>2. upsets' \subseteq Upsets
    BY <1>4, <1>9 DEF Lose, Upsets
  <2>3. QED
    BY <1>2, <1>9, <2>1, <2>2 DEF Lose
<1>10. QED
  BY <1>5, <1>6, <1>7, <1>8, <1>9

(* The steps of the executions and of the sockets. *)
LEMMA ExecuteTypes ==
  ASSUME Types, sockets' \in Sockets, NEW e \in ExecIds, Execute(e)
  PROVE  Types'
<1> DEFINE r == execs[e].run
<1>1. ExecInv /\ ExecInv'
  BY TypesExec, ExecuteOne
<1>2. r \in RunIds \cup {0}
  BY <1>1 DEF ExecInv, Execs, ExecType
<1>3. UNCHANGED <<born, exists, stored, frame, page, ws, calls, clicks, upsets, doubled>>
  BY Zenon DEF Execute, Begin, Use, Settle, Log, Publish, Swallow, CallBack
<1>4. UNCHANGED runs \/ \E x \in Statuses : runs' = Written(r, x)
  <2>1. CASE Begin(e)
    BY <2>1 DEF Begin, Statuses
  <2>2. CASE Settle(e)
    BY <2>2, LeavesType DEF Settle
  <2>3. CASE CallBack(e)
    BY <2>3 DEF CallBack, Statuses
  <2>4. CASE Use(e) \/ Log(e) \/ Publish(e) \/ Swallow(e)
    BY <2>4, Zenon DEF Use, Log, Publish, Swallow
  <2>5. QED
    BY <2>1, <2>2, <2>3, <2>4 DEF Execute
<1>5. runs' \in [RunIds -> RunType]
  <2>1. runs \in [RunIds -> RunType]
    BY DEF Types
  <2>2. ASSUME NEW x \in Statuses PROVE Written(r, x) \in [RunIds -> RunType]
    BY <1>2, <2>1, WrittenType
  <2>3. QED
    BY <1>4, <2>1, <2>2
<1>6. QED
  BY <1>1, <1>3, <1>5 DEF Types, TypeOK, ExecInv, Execs, Sockets, frame, page, panel

LEMMA HearTypes ==
  ASSUME Types, sockets' \in Sockets, NEW r \in RunIds, Hear(r)
  PROVE  Types'
<1> USE DEF page, panel, frame, backend, work, Speaks
<1>1. CASE Replay(r) \/ Subscribe(r)
  BY <1>1 DEF Replay, Subscribe, Types, TypeOK, Sockets
<1>2. CASE Deliver(r)
  <2>1. asker' \in RunIds \cup {0} /\ upsets' \subseteq Upsets
    BY <1>2 DEF Deliver, Types, TypeOK, Upsets
  <2>2. QED
    BY <1>2, <2>1 DEF Deliver, Types, TypeOK, Sockets
<1>3. QED
  BY <1>1, <1>2 DEF Hear

LEMMA OutsideTypes ==
  ASSUME Types, sockets' \in Sockets, NEW r \in RunIds, Approve(r) \/ Break(r)
  PROVE  Types'
<1>1. CASE Approve(r)
  <2>1. ExecInv' /\ doubled' \subseteq RunIds
    BY <1>1, SpawnTypes DEF Approve
  <2>2. clicks' \in Nat
    BY <1>1 DEF Approve, Click, Types
  <2>3. QED
    BY <1>1, <2>1, <2>2
    DEF Approve, Types, TypeOK, ExecInv, Execs, Sockets, frame, page, panel, wires
<1>2. CASE Break(r)
  <2>1. upsets' \subseteq Upsets
    BY <1>2 DEF Break, Types, TypeOK, Upsets
  <2>2. QED
    BY <1>2, <2>1
    DEF Break, Types, TypeOK, Speaks, Sockets, work, frame, page, panel
<1>3. QED
  BY <1>1, <1>2

LEMMA TypesStep == Types /\ SocketInv /\ [Next]_vars => Types'
<1> SUFFICES ASSUME Types, SocketInv, [Next]_vars PROVE Types'
  OBVIOUS
<1>1. sockets' \in Sockets
  BY SocketStep, TypesExec DEF SocketInv
<1>2. CASE UNCHANGED vars
  BY <1>2 DEF vars, backend, work, frame, page, panel, wires, Types, TypeOK, Speaks
<1>3. ASSUME NEW c \in calls, Proceed(c) \/ Lose(c) PROVE Types'
  BY <1>1, <1>3, ServeTypes, AnsweredTypes, RequestTypes DEF Proceed
<1>4. QED
  BY <1>1, <1>2, <1>3, UserTypes, ExecuteTypes, HearTypes, OutsideTypes DEF Next

PageInv == Types /\ SocketInv

LEMMA PageInit == Init => PageInv
  BY SocketInit, TypesInit DEF PageInv

LEMMA PageStep == PageInv /\ [Next]_vars => PageInv'
  BY TypesStep, SocketStep, TypesExec DEF PageInv

\* The rows, the page, the sockets and the requests of a workflow's page keep their
\* types (WorkflowBuilder.tsx:68-77), for any workflows, clicks, runs and losses.
THEOREM PageTypes == Spec => []TypeOK
  BY PageInit, PageStep, PTL DEF Spec, PageInv, Types

(* However the clicks, answers and losses of a page interleave, the panel hears one
   socket: the one wsRef holds. *)
THEOREM OneVoice == Spec => []OneSocket
  BY PageInit, PageStep, PTL DEF Spec, PageInv, SocketInv

-----------------------------------------------------------------------------
(* What the executions, the socket and Telegram leave alone.               *)

Outsider ==
  \/ \E e \in ExecIds : Execute(e)
  \/ \E r \in RunIds : Replay(r) \/ Subscribe(r) \/ Approve(r) \/ Break(r)

LEMMA OutsideSame ==
  ASSUME Outsider
  PROVE  /\ UNCHANGED <<born, exists, stored, frame, page, calls, ws>>
         /\ upsets \subseteq upsets'
<1>1. CASE \E e \in ExecIds : Execute(e)
  BY <1>1 DEF Execute
<1>2. ASSUME NEW r \in RunIds, Replay(r) \/ Subscribe(r) \/ Approve(r) \/ Break(r)
      PROVE  /\ UNCHANGED <<born, exists, stored, frame, page, calls, ws>>
             /\ upsets \subseteq upsets'
  BY <1>2 DEF Replay, Subscribe, Approve, Break, backend, wires
<1>3. QED
  BY <1>1, <1>2 DEF Outsider

LEMMA OutsideDelivers ==
  ASSUME NEW r \in RunIds, Deliver(r)
  PROVE  /\ UNCHANGED <<born, exists, stored, frame, wf, canvas, run, verdict, calls, ws>>
         /\ upsets \subseteq upsets'
  BY DEF Deliver, backend

LEMMA NextIs ==
  ASSUME Next
  PROVE  \/ User \/ Outsider
         \/ \E c \in calls : Proceed(c) \/ Lose(c)
         \/ \E r \in RunIds : Deliver(r)
  BY DEF Next, Outsider, Hear

-----------------------------------------------------------------------------
(* What a write says.                                                      *)

IsWrite(c) == c.kind \in {"save", "validate"}

(* Two writes of one workflow know of each other, and what one that is alone has
   written is still there. *)
Writing ==
  /\ \A c \in calls : IsWrite(c) => c.wf # None
  /\ \A c, d \in calls : IsWrite(c) /\ IsWrite(d) /\ c.wf = d.wf /\ c # d => ~c.alone
  /\ \A c \in calls :
       IsWrite(c) /\ c.alone /\ c.at \in {"served", "checking"} => stored[c.wf] = c.drawing
  /\ verdict # "wrong"

(* Steps that send no write and store nothing. *)
LEMMA WritingSame ==
  ASSUME Writing, \A d \in calls' : d \in calls \/ ~IsWrite(d),
         UNCHANGED stored, verdict' # "wrong"
  PROVE  Writing'
  BY DEF Writing

(* A request moves on. *)
LEMMA WritingMoved ==
  ASSUME Writing, NEW c \in calls, NEW d, Becomes(c, d),
         d.kind = c.kind, d.wf = c.wf, d.drawing = c.drawing, d.alone = c.alone,
         IsWrite(c) /\ c.alone /\ d.at \in {"served", "checking"}
           => stored'[c.wf] = c.drawing,
         \A w \in Workflows : stored'[w] = stored[w] \/ (IsWrite(c) /\ w = c.wf),
         \A e \in calls : e.wf \in Workflows \cup {None},
         UNCHANGED verdict
  PROVE  Writing'
<1>1. \A e \in calls' : e = d \/ (e \in calls /\ e # c)
  BY DEF Becomes
<1>2. IsWrite(d) <=> IsWrite(c)
  BY DEF IsWrite
<1>3. \A e \in calls' : IsWrite(e) => e.wf # None
  BY <1>1, <1>2 DEF Writing
<1>4. ASSUME NEW e \in calls', NEW f \in calls', IsWrite(e), IsWrite(f), e.wf = f.wf, e # f
      PROVE  ~e.alone
  BY <1>1, <1>2, <1>4 DEF Writing
<1>5. ASSUME NEW e \in calls', IsWrite(e), e.alone, e.at \in {"served", "checking"}
      PROVE  stored'[e.wf] = e.drawing
  <2>1. CASE e = d
    BY <1>2, <1>5, <2>1
  <2>2. CASE e \in calls /\ e # c
    <3>1. e.wf \in Workflows /\ stored[e.wf] = e.drawing
      BY <1>5, <2>2 DEF Writing
    <3>2. ~(IsWrite(c) /\ e.wf = c.wf)
      BY <1>5, <2>2 DEF Writing
    <3>3. QED
      BY <3>1, <3>2
  <2>3. QED
    BY <1>1, <2>1, <2>2
<1>6. QED
  BY <1>3, <1>4, <1>5 DEF Writing

(* A write is sent: whatever it meets is told. *)
LEMMA WritingSent ==
  ASSUME PageInv, Writing, clicks' \in Nat, wf # None, NEW k \in {"save", "validate"},
         SendWrite(k, wf), UNCHANGED stored, verdict' # "wrong"
  PROVE  Writing'
<1> DEFINE W == Writes(wf)
<1>1. calls \subseteq CallType /\ canvas \in Drawings /\ wf \in Workflows \cup {None} /\ k \in Kinds
  BY DEF PageInv, Types, TypeOK, Kinds
<1>2. calls' = {[c EXCEPT !.alone = FALSE] : c \in W} \cup (calls \ W) \cup {Write(k, wf)}
  BY DEF SendWrite, Write
<1>3. /\ Write(k, wf).kind = k /\ Write(k, wf).wf = wf /\ Write(k, wf).at = "sent"
      /\ Write(k, wf).alone => W = {}
  BY <1>1, NewWrite
<1>4. \A e \in calls' :
        \/ e = Write(k, wf)
        \/ e \in calls \ W
        \/ W # {} /\ e.wf = wf /\ ~e.alone
  <2>1. \A c \in W : [c EXCEPT !.alone = FALSE].wf = wf /\ ~[c EXCEPT !.alone = FALSE].alone
    BY <1>1, JoinedCall DEF Writes
  <2>2. QED
    BY <1>2, <2>1
<1>5. \A e \in calls \ W : IsWrite(e) => e.wf # wf
  BY DEF Writes, IsWrite
<1> HIDE DEF W
<1>6. \A e \in calls' : IsWrite(e) => e.wf # None
  BY <1>3, <1>4 DEF Writing
<1>7. ASSUME NEW e \in calls', NEW f \in calls', IsWrite(e), IsWrite(f), e.wf = f.wf, e # f
      PROVE  ~e.alone
  BY <1>3, <1>4, <1>5, <1>7 DEF Writing
<1>8. ASSUME NEW e \in calls', IsWrite(e), e.alone, e.at \in {"served", "checking"}
      PROVE  stored'[e.wf] = e.drawing
  BY <1>3, <1>4, <1>8 DEF Writing
<1>9. QED
  BY <1>6, <1>7, <1>8 DEF Writing

LEMMA WritingStep == PageInv /\ Writing /\ [Next]_vars => Writing'
<1> SUFFICES ASSUME PageInv, Writing, [Next]_vars PROVE Writing'
  OBVIOUS
<1> USE DEF backend, work, page, panel, frame, wires
<1>1. /\ calls \subseteq CallType /\ clicks \in Nat /\ wf \in Workflows \cup {None}
      /\ born \subseteq Workflows /\ exists \subseteq Workflows
      /\ stored \in [Workflows -> Drawings]
      /\ opened \in Workflows \cup {None}
  BY DEF PageInv, Types, TypeOK
<1>2. verdict # "wrong" /\ \A e \in calls : e.wf \in Workflows \cup {None}
  BY <1>1 DEF Writing, CallType
<1>3. Click => clicks' \in Nat
  BY <1>1 DEF Click
<1>4. ASSUME clicks' \in Nat, NEW k \in Kinds \ {"save", "validate"},
             NEW w \in Workflows \cup {None}
      PROVE  ~IsWrite(Call(k, w))
  BY <1>4, NewCall DEF IsWrite
<1>5. {"load", "create", "schedule", "start"} \subseteq Kinds \ {"save", "validate"}
  BY DEF Kinds
<1>6. ASSUME clicks' \in Nat, NEW w \in Workflows \cup {None}, NEW others \in SUBSET calls,
             GoTo(w, others), UNCHANGED <<stored, verdict>>
      PROVE  Writing'
  <2>1. \A d \in calls' : d \in calls \/ ~IsWrite(d)
    BY <1>4, <1>5, <1>6 DEF GoTo
  <2>2. QED
    BY <1>2, <1>6, <2>1, WritingSame
<1>7. ASSUME NEW w \in Workflows, Open(w) PROVE Writing'
  BY <1>3, <1>6, <1>7 DEF Open
<1>8. ASSUME NEW w \in Workflows, Delete(w) PROVE Writing'
  <2>1. clicks' \in Nat /\ "delete" \in Kinds
    BY <1>3, <1>8 DEF Delete, Kinds
  <2> DEFINE b == wf = w
             c == Call("delete", w)
  <2>2. c \in CallType /\ c.kind = "delete"
    BY <2>1, NewCall
  <2>3. calls' = calls \cup {[c EXCEPT !.shown = b]}
    BY <1>8 DEF Delete
  <2> HIDE DEF b, c
  <2>4. ~IsWrite([c EXCEPT !.shown = b])
    BY <2>2 DEF CallType, IsWrite
  <2>5. QED
    BY <1>2, <1>8, <2>3, <2>4, WritingSame DEF Delete
<1>9. CASE Create \/ Return \/ Schedule \/ Start
  <2>1. \A d \in calls' : d \in calls \/ ~IsWrite(d)
    BY <1>1, <1>3, <1>4, <1>5, <1>9 DEF Create, Return, Schedule, Start, OnPage
  <2>2. QED
    BY <1>2, <1>9, <2>1, WritingSame DEF Create, Return, Schedule, Start
<1>10. CASE Leave
  <2> DEFINE G(c) == [c EXCEPT !.gone = TRUE]
  <2>1. \A e \in calls' : \E c \in calls : e = G(c)
    BY <1>10 DEF Leave
  <2>2. \A c \in calls : /\ G(c).kind = c.kind /\ G(c).wf = c.wf /\ G(c).at = c.at
                         /\ G(c).drawing = c.drawing
                         /\ G(c).alone = c.alone
    BY <1>1, LeftCall
  <2>3. UNCHANGED stored /\ verdict' # "wrong"
    BY <1>10 DEF Leave
  <2> HIDE DEF G
  <2>4. QED
    BY <2>1, <2>2, <2>3 DEF Writing, IsWrite
<1>11. CASE Draw
  BY <1>2, <1>11, WritingSame DEF Draw
<1>12. CASE Save \/ Validate
  <2>1. wf # None /\ clicks' \in Nat
    BY <1>3, <1>12 DEF Save, Validate, OnPage, Listed
  <2>2. \/ SendWrite("save", wf)
        \/ SendWrite("validate", wf)
    BY <1>12 DEF Save, Validate
  <2>3. QED
    BY <1>12, <2>1, <2>2, WritingSent DEF Save, Validate
<1>13. CASE Reply
  <2>1. clicks' \in Nat /\ "reply" \in Kinds
    BY <1>3, <1>13 DEF Reply, OnPage, Kinds
  <2> DEFINE c == Call("reply", wf)
  <2>2. c \in CallType /\ c.kind = "reply"
    BY <1>1, <2>1, NewCall
  <2>3. calls' = calls \cup {[c EXCEPT !.run = run, !.asked = asker]}
    BY <1>13 DEF Reply
  <2> HIDE DEF c
  <2>4. ~IsWrite([c EXCEPT !.run = run, !.asked = asker])
    BY <2>2 DEF CallType, IsWrite
  <2>5. QED
    BY <1>2, <1>13, <2>3, <2>4, WritingSame DEF Reply
<1>14. ASSUME NEW c \in calls, NEW a \in {"sent", "served", "checking", "refused"},
              Becomes(c, [c EXCEPT !.at = a]), UNCHANGED <<stored, verdict>>,
              IsWrite(c) /\ a \in {"served", "checking"} => c.at \in {"served", "checking"}
       PROVE  Writing'
  <2> DEFINE d == [c EXCEPT !.at = a]
  <2>1. /\ d.kind = c.kind /\ d.wf = c.wf /\ d.drawing = c.drawing /\ d.at = a
        /\ d.alone = c.alone
    BY <1>1, MovedCall
  <2> HIDE DEF d
  <2>2. Becomes(c, d)
    BY <1>14 DEF d
  <2>3. IsWrite(c) /\ c.alone /\ d.at \in {"served", "checking"} => stored'[c.wf] = c.drawing
    BY <1>14, <2>1 DEF Writing
  <2>4. QED
    BY <1>2, <1>14, <2>1, <2>2, <2>3, WritingMoved
<1>15. ASSUME NEW c \in calls, Serve(c) PROVE Writing'
  <2>1. CASE Refuse(c)
    BY <1>14, <1>15, <2>1 DEF Refuse, Serve
  <2>2. CASE ServeLoad(c)
    <3>1. [c EXCEPT !.at = "served", !.drawing = stored[c.wf]].kind = "load"
      BY <1>1, <2>2 DEF ServeLoad, CallType
    <3>2. QED
      BY <1>2, <1>15, <2>2, <3>1, WritingSame DEF ServeLoad, Serve, Becomes, IsWrite
  <2>3. CASE ServeWrite(c)
    <3> DEFINE d == [c EXCEPT !.at = "served"]
    <3>1. /\ d.kind = c.kind /\ d.wf = c.wf /\ d.drawing = c.drawing
          /\ d.alone = c.alone
      BY <1>1, MovedCall
    <3>2. Becomes(c, d) /\ IsWrite(c) /\ c.wf \in Workflows
          /\ stored' = [stored EXCEPT ![c.wf] = c.drawing] /\ UNCHANGED verdict
      BY <1>1, <1>15, <2>3 DEF ServeWrite, Served, IsWrite, Serve
    <3> HIDE DEF d
    <3>3. QED
      BY <1>1, <1>2, <3>1, <3>2, WritingMoved
  <2>4. CASE ServeSchedule(c) \/ ServeDelete(c) \/ ServeReply(c)
    <3>1. ~IsWrite(c) /\ UNCHANGED <<stored, verdict>> /\ Served(c)
      BY <1>15, <2>4 DEF ServeSchedule, ServeDelete, ServeReply, IsWrite, Serve
    <3>2. QED
      BY <1>14, <3>1 DEF Served
  <2>5. CASE ServeCreate(c)
    <3>1. \A w \in Workflows : [c EXCEPT !.at = "served", !.wf = w].kind = "create"
      BY <1>1, <2>5 DEF ServeCreate, CallType
    <3>2. QED
      BY <1>2, <1>15, <2>5, <3>1, WritingSame DEF ServeCreate, Serve, Becomes, IsWrite
  <2>6. CASE ServeStart(c)
    <3>1. \A r \in RunIds : [c EXCEPT !.at = "served", !.run = r].kind = "start"
      BY <1>1, <2>6 DEF ServeStart, CallType
    <3>2. QED
      BY <1>2, <1>15, <2>6, <3>1, WritingSame DEF ServeStart, Serve, Becomes, IsWrite
  <2>7. QED
    BY <1>15, <2>1, <2>2, <2>3, <2>4, <2>5, <2>6 DEF Serve
<1>16. ASSUME NEW c \in calls, Check(c) PROVE Writing'
  BY <1>14, <1>16 DEF Check
<1>17. ASSUME NEW c \in calls, Lose(c) PROVE Writing'
  BY <1>14, <1>17 DEF Lose
<1>18. ASSUME NEW c \in calls, IsWrite(c), c.at \in {"served", "checking"}
       PROVE  Told(c) # "wrong"
  BY <1>18 DEF Told, Writing
<1>19. ASSUME NEW c \in calls, Checked(c) \/ Rejected(c) PROVE Writing'
  <2>1. verdict' # "wrong"
    BY <1>2, <1>18, <1>19 DEF Checked, Rejected, IsWrite
  <2>2. QED
    BY <1>19, <2>1, WritingSame DEF Checked, Rejected
<1>20. ASSUME NEW c \in calls, Answered(c) PROVE Writing'
  <2>1. \/ LoadAnswered(c) \/ StartAnswered(c) \/ DeleteAnswered(c) \/ ScheduleAnswered(c)
        \/ UNCHANGED page
        \/ c.kind = "save" /\ c.at = "served" /\ SaveAnswered(c)
    BY <1>20, Zenon DEF Answered
  <2>2. verdict' # "wrong"
    BY <1>2, <1>18, <2>1
    DEF LoadAnswered, StartAnswered, DeleteAnswered, ScheduleAnswered, SaveAnswered, IsWrite
  <2>3. QED
    BY <1>20, <2>2, WritingSame DEF Answered
<1>21. ASSUME NEW c \in calls, Created(c) PROVE Writing'
  BY <1>1, <1>2, <1>6, <1>21 DEF Created
<1>22. CASE Outsider \/ \E r \in RunIds : Deliver(r)
  <2>1. UNCHANGED <<stored, verdict, calls>>
    BY <1>22, OutsideSame, OutsideDelivers
  <2>2. QED
    BY <1>2, <2>1, WritingSame
<1>23. CASE UNCHANGED vars
  BY <1>2, <1>23, WritingSame DEF vars
<1>24. QED
  BY <1>7, <1>8, <1>9, <1>10, <1>11, <1>12, <1>13, <1>15, <1>16, <1>17, <1>19, <1>20, <1>21,
     <1>22, <1>23, NextIs DEF User, Proceed

\* What save and validate report is about the drawing that was on screen at the click
\* (WorkflowBuilder.tsx:244-264), unless another write of the workflow was in flight with
\* it, for any workflows, clicks and losses.
THEOREM VerdictsAreRight == Spec => []VerdictOnScreen
<1>1. Init => Writing
  BY DEF Init, Writing
<1>2. QED
  BY <1>1, PageInit, PageStep, WritingStep, PTL DEF Spec, Writing, VerdictOnScreen

-----------------------------------------------------------------------------
(* Where a request of the next state comes from.                           *)

Moved(c, d) ==
  /\ d.kind = c.kind /\ d.wf = c.wf /\ d.run = c.run
  /\ d.drawing = c.drawing /\ d.asked = c.asked
  /\ c.gone => d.gone
  /\ d.kind = "load" /\ d.at = "served" => c.at = "served"
  /\ d.at = "refused" => c.at = "refused" \/ "failed" \in upsets'

Loaded(d) == d.kind = "load" /\ d.at = "served" /\ d.wf \in Workflows /\ d.drawing = stored[d.wf]

Made(c, d) ==
  d.kind \in {"create", "start"} /\ d.at = "served" /\ c.kind = d.kind /\ (c.gone => d.gone)

Sent(d) ==
  /\ d.at = "sent"
  /\ IsWrite(d) => wf # None /\ d.wf = wf /\ d.drawing = canvas
  /\ d.kind = "reply" => Reply /\ d.run = run /\ d.asked = asker
  /\ d.kind = "start" => Start

Comes(d) == Sent(d) \/ Loaded(d) \/ \E c \in calls : Moved(c, d) \/ Made(c, d)

LEMMA StaysComes ==
  ASSUME NEW d \in calls
  PROVE  Comes(d)
  BY DEF Comes, Moved

(* A request that becomes another, beside those that stay. *)
LEMMA BecomesComes ==
  ASSUME NEW c \in calls, NEW d, Becomes(c, d), Comes(d)
  PROVE  \A e \in calls' : Comes(e)
  BY StaysComes DEF Becomes

LEMMA MovesComes ==
  ASSUME PageInv, NEW c \in calls, NEW a \in {"served", "checking", "refused"},
         Becomes(c, [c EXCEPT !.at = a]),
         a = "served" => c.kind # "load",
         a = "refused" => "failed" \in upsets'
  PROVE  \A e \in calls' : Comes(e)
<1> DEFINE d == [c EXCEPT !.at = a]
<1>1. c \in CallType
  BY DEF PageInv, Types, TypeOK
<1>2. Moved(c, d)
  <2>1. /\ d.kind = c.kind /\ d.wf = c.wf /\ d.run = c.run /\ d.drawing = c.drawing
        /\ d.asked = c.asked /\ d.at = a
        /\ d.gone = c.gone
    BY <1>1, MovedCall
  <2> HIDE DEF d
  <2>2. QED
    BY <2>1 DEF Moved
<1> HIDE DEF d
<1>3. Comes(d)
  BY <1>2 DEF Comes
<1>4. QED
  BY <1>3, BecomesComes DEF d

LEMMA CallsStep ==
  ASSUME PageInv, [Next]_vars
  PROVE  \A d \in calls' : Comes(d)
<1> DEFINE Goal == \A d \in calls' : Comes(d)
<1> USE DEF backend, work, page, panel, frame, wires
<1>1. /\ calls \subseteq CallType /\ clicks \in Nat /\ wf \in Workflows \cup {None}
      /\ canvas \in Drawings /\ opened \in Workflows \cup {None}
      /\ run \in RunIds \cup {0} /\ asker \in RunIds \cup {0}
      /\ born \subseteq Workflows /\ exists \subseteq Workflows
  BY DEF PageInv, Types, TypeOK
<1>2. Click => clicks' \in Nat
  BY <1>1 DEF Click
<1>3. ASSUME clicks' \in Nat, NEW k \in Kinds \ {"save", "validate", "reply"},
             NEW w \in Workflows \cup {None}, k = "start" => Start
      PROVE  Comes(Call(k, w))
  BY <1>3, NewCall DEF Comes, Sent, IsWrite
<1>4. {"load", "create", "schedule", "start"} \subseteq Kinds \ {"save", "validate", "reply"}
  BY DEF Kinds
<1>5. ASSUME UNCHANGED calls PROVE Goal
  BY <1>5, StaysComes
<1>6. ASSUME clicks' \in Nat, NEW w \in Workflows \cup {None}, NEW others \in SUBSET calls,
             GoTo(w, others)
      PROVE  Goal
  BY <1>3, <1>4, <1>6, StaysComes DEF GoTo
<1>7. ASSUME NEW w \in Workflows, Open(w) PROVE Goal
  BY <1>2, <1>6, <1>7 DEF Open
<1>8. ASSUME NEW w \in Workflows, Delete(w) PROVE Goal
  <2>1. clicks' \in Nat /\ "delete" \in Kinds
    BY <1>2, <1>8 DEF Delete, Kinds
  <2> DEFINE b == wf = w
             c == Call("delete", w)
  <2>2. c \in CallType /\ c.kind = "delete" /\ c.at = "sent"
    BY <2>1, NewCall
  <2>3. calls' = calls \cup {[c EXCEPT !.shown = b]}
    BY <1>8 DEF Delete
  <2> HIDE DEF b, c
  <2>4. [c EXCEPT !.shown = b].kind = "delete" /\ [c EXCEPT !.shown = b].at = "sent"
    BY <2>2 DEF CallType
  <2>5. Comes([c EXCEPT !.shown = b])
    BY <2>4 DEF Comes, Sent, IsWrite
  <2>6. QED
    BY <2>3, <2>5, StaysComes
<1>9. CASE Create \/ Return \/ Schedule \/ Start
  BY <1>1, <1>2, <1>3, <1>4, <1>9, StaysComes DEF Create, Return, Schedule, Start, OnPage
<1>10. CASE Leave
  <2> DEFINE G(c) == [c EXCEPT !.gone = TRUE]
  <2>1. \A e \in calls' : \E c \in calls : e = G(c)
    BY <1>10 DEF Leave
  <2>2. \A c \in calls : /\ G(c).kind = c.kind /\ G(c).wf = c.wf /\ G(c).run = c.run
                         /\ G(c).at = c.at /\ G(c).drawing = c.drawing
                         /\ G(c).asked = c.asked
                         /\ G(c).gone
    BY <1>1, LeftCall
  <2> HIDE DEF G
  <2>3. QED
    BY <2>1, <2>2 DEF Comes, Moved
<1>11. CASE Save \/ Validate
  <2>1. wf # None /\ clicks' \in Nat
    BY <1>2, <1>11 DEF Save, Validate, OnPage, Listed
  <2>2. PICK k \in {"save", "validate"} : SendWrite(k, wf)
    BY <1>11 DEF Save, Validate
  <2>3. calls' = {[c EXCEPT !.alone = FALSE] : c \in Writes(wf)} \cup (calls \ Writes(wf))
                 \cup {Write(k, wf)}
    BY <2>2 DEF SendWrite, Write
  <2>4. Comes(Write(k, wf))
    <3>1. k \in Kinds
      BY DEF Kinds
    <3>2. /\ Write(k, wf).kind = k /\ Write(k, wf).wf = wf /\ Write(k, wf).at = "sent"
          /\ Write(k, wf).drawing = canvas
      BY <1>1, <2>1, <3>1, NewWrite
    <3>3. QED
      BY <2>1, <3>2 DEF Comes, Sent
  <2>5. ASSUME NEW c \in Writes(wf) PROVE Comes([c EXCEPT !.alone = FALSE])
    <3> DEFINE d == [c EXCEPT !.alone = FALSE]
    <3>1. c \in calls
      BY DEF Writes
    <3>2. /\ d.kind = c.kind /\ d.wf = c.wf /\ d.run = c.run
          /\ d.at = c.at /\ d.drawing = c.drawing /\ d.asked = c.asked
          /\ d.gone = c.gone
      BY <1>1, <3>1, JoinedCall
    <3> HIDE DEF d
    <3>3. Comes(d)
      BY <3>1, <3>2 DEF Comes, Moved
    <3>4. QED
      BY <3>3 DEF d
  <2>6. QED
    BY <2>3, <2>4, <2>5, StaysComes
<1>12. CASE Reply
  <2>1. clicks' \in Nat /\ "reply" \in Kinds
    BY <1>2, <1>12 DEF Reply, OnPage, Kinds
  <2> DEFINE c == Call("reply", wf)
  <2>2. c \in CallType /\ c.kind = "reply" /\ c.at = "sent"
    BY <1>1, <2>1, NewCall
  <2>3. calls' = calls \cup {[c EXCEPT !.run = run, !.asked = asker]}
    BY <1>12 DEF Reply
  <2> HIDE DEF c
  <2>4. LET d == [c EXCEPT !.run = run, !.asked = asker]
        IN  d.kind = "reply" /\ d.at = "sent" /\ d.run = run /\ d.asked = asker
    BY <1>1, <2>2 DEF CallType
  <2>5. Comes([c EXCEPT !.run = run, !.asked = asker])
    BY <1>12, <2>4 DEF Comes, Sent, IsWrite
  <2>6. QED
    BY <2>3, <2>5, StaysComes
<1>13. ASSUME NEW c \in calls, Serve(c) PROVE Goal
  <2>1. CASE Refuse(c)
    BY <2>1, MovesComes DEF Refuse
  <2>2. CASE ServeLoad(c)
    <3> DEFINE d == [c EXCEPT !.at = "served", !.drawing = stored[c.wf]]
    <3>1. /\ d.kind = "load" /\ d.wf = c.wf /\ d.drawing = stored[c.wf]
          /\ d.at = "served"
      BY <1>1, <2>2 DEF ServeLoad, CallType
    <3>2. Becomes(c, d) /\ c.wf \in Workflows
      BY <1>1, <2>2 DEF ServeLoad
    <3> HIDE DEF d
    <3>3. Comes(d)
      BY <3>1, <3>2 DEF Comes, Loaded
    <3>4. QED
      BY <3>2, <3>3, BecomesComes
  <2>3. CASE ServeWrite(c) \/ ServeSchedule(c) \/ ServeDelete(c) \/ ServeReply(c)
    BY <2>3, MovesComes DEF ServeWrite, ServeSchedule, ServeDelete, ServeReply, Served
  <2>4. CASE ServeCreate(c)
    <3>1. PICK w \in Workflows : Becomes(c, [c EXCEPT !.at = "served", !.wf = w])
      BY <2>4 DEF ServeCreate
    <3> DEFINE d == [c EXCEPT !.at = "served", !.wf = w]
    <3>2. d.kind = c.kind /\ d.at = "served" /\ c.kind = "create"
      BY <1>1, <2>4 DEF ServeCreate, CallType
    <3>3. d.gone = c.gone
      BY <1>1 DEF CallType
    <3> HIDE DEF d
    <3>4. Comes(d)
      BY <3>2, <3>3 DEF Comes, Made
    <3>5. QED
      BY <3>1, <3>4, BecomesComes DEF d
  <2>5. CASE ServeStart(c)
    <3>1. PICK r \in RunIds : Becomes(c, [c EXCEPT !.at = "served", !.run = r])
      BY <2>5 DEF ServeStart
    <3> DEFINE d == [c EXCEPT !.at = "served", !.run = r]
    <3>2. d.kind = c.kind /\ d.at = "served" /\ c.kind = "start"
      BY <1>1, <2>5 DEF ServeStart, CallType
    <3>3. d.gone = c.gone
      BY <1>1 DEF CallType
    <3> HIDE DEF d
    <3>4. Comes(d)
      BY <3>2, <3>3 DEF Comes, Made
    <3>5. QED
      BY <3>1, <3>4, BecomesComes DEF d
  <2>6. QED
    BY <1>13, <2>1, <2>2, <2>3, <2>4, <2>5 DEF Serve
<1>14. ASSUME NEW c \in calls, Check(c) \/ Lose(c) PROVE Goal
  BY <1>14, MovesComes DEF Check, Lose
<1>15. ASSUME NEW c \in calls, Checked(c) \/ Rejected(c) \/ Answered(c) PROVE Goal
  BY <1>15, StaysComes DEF Checked, Rejected, Answered
<1>16. ASSUME NEW c \in calls, Created(c) PROVE Goal
  <2>1. clicks' \in Nat /\ c.wf \in Workflows \cup {None}
    BY <1>1, <1>16 DEF Created, CallType
  <2>2. QED
    BY <1>6, <1>16, <2>1 DEF Created
<1>17. CASE Outsider \/ \E r \in RunIds : Deliver(r)
  BY <1>5, <1>17, OutsideSame, OutsideDelivers
<1>18. CASE UNCHANGED vars
  BY <1>5, <1>18 DEF vars
<1>19. CASE Draw
  BY <1>5, <1>19 DEF Draw
<1>20. QED
  BY <1>7, <1>8, <1>9, <1>10, <1>11, <1>12, <1>13, <1>14, <1>15, <1>16, <1>17, <1>18, <1>19,
     NextIs
  DEF User, Proceed

-----------------------------------------------------------------------------
(* Whose drawing goes where.                                               *)

Home ==
  /\ \A w \in Workflows : stored[w].of = w
  /\ \A c \in calls : IsWrite(c) \/ (c.kind = "load" /\ c.at = "served") => c.drawing.of = c.wf
  /\ wf # None => canvas.of = wf

LEMMA HomeStep ==
  ASSUME PageInv, Home, [Next]_vars, "title" \notin upsets'
  PROVE  Home'
<1> USE DEF backend, work, page, panel, frame, wires
<1>1. /\ stored \in [Workflows -> Drawings] /\ canvas \in Drawings
      /\ exists \subseteq Workflows
      /\ \A c \in calls : c \in CallType
  BY DEF PageInv, Types, TypeOK
<1>2. ASSUME NEW d \in calls', IsWrite(d) \/ (d.kind = "load" /\ d.at = "served")
      PROVE  d.drawing.of = d.wf
  <2>1. Comes(d)
    BY <1>2, CallsStep
  <2>2. QED
    BY <1>2, <2>1 DEF Comes, Sent, Loaded, Moved, Made, Home, IsWrite
<1>3. \A w \in Workflows : stored'[w].of = w
  <2>1. ASSUME NEW c \in calls, ServeWrite(c) PROVE \A w \in Workflows : stored'[w].of = w
    BY <1>1, <2>1 DEF ServeWrite, Home, IsWrite
  <2>2. CASE UNCHANGED stored
    BY <2>2 DEF Home
  <2>3. UNCHANGED stored \/ \E c \in calls : ServeWrite(c)
    BY NextIs, OutsideSame, OutsideDelivers
       DEF User, Proceed, Open, Delete, Create, Leave, Return, Draw, Save, Validate,
           Schedule, Start, Reply, Serve, Refuse, ServeLoad, ServeSchedule, ServeDelete,
           ServeCreate, ServeStart, ServeReply, Check, Checked, Answered, Created, Rejected,
           Lose, vars
  <2>4. QED
    BY <2>1, <2>2, <2>3
<1>4. wf' # None => canvas'.of = wf'
  <2>1. CASE UNCHANGED <<wf, canvas>>
    BY <2>1 DEF Home
  <2>2. CASE Leave
    BY <2>2 DEF Leave
  <2>3. CASE Draw
    BY <1>1, <2>3 DEF Draw, Home, Drawings
  <2>4. ASSUME NEW c \in calls, Answered(c), ~UNCHANGED <<wf, canvas>>
        PROVE  wf' # None => canvas'.of = wf'
    <3>1. \/ c.kind = "load" /\ LoadAnswered(c)
          \/ DeleteAnswered(c)
          \/ ScheduleAnswered(c)
      BY <2>4, Zenon DEF Answered, StartAnswered, SaveAnswered, page
    <3>2. c.at = "served"
      BY <2>4 DEF Answered
    <3>3. CASE c.kind = "load" /\ LoadAnswered(c)
      BY <3>2, <3>3 DEF LoadAnswered, Home
    <3>4. CASE DeleteAnswered(c)
      BY <3>4 DEF DeleteAnswered, Home
    <3>5. CASE ScheduleAnswered(c)
      <4>1. c.gone \/ canvas.of = c.wf
        BY <3>5 DEF ScheduleAnswered
      <4>2. QED
        BY <3>5, <4>1 DEF ScheduleAnswered, Home
    <3>6. QED
      BY <3>1, <3>3, <3>4, <3>5
  <2>5. UNCHANGED <<wf, canvas>> \/ Leave \/ Draw \/ \E c \in calls : Answered(c)
    BY NextIs, OutsideSame, OutsideDelivers
       DEF User, Proceed, Open, Delete, Create, Return, Save, Validate, Schedule, Start,
           Reply, Serve, Check, Checked, Created, Rejected, Lose, vars
  <2>6. QED
    BY <2>1, <2>2, <2>3, <2>4, <2>5
<1>5. QED
  BY <1>2, <1>3, <1>4 DEF Home

(* What has been upset stays so. *)
LEMMA UpsetsGrow == [Next]_vars => upsets \subseteq upsets'
<1> SUFFICES ASSUME [Next]_vars PROVE upsets \subseteq upsets'
  OBVIOUS
<1>1. ASSUME NEW c \in calls, Answered(c) PROVE upsets \subseteq upsets'
  <2>1. UNCHANGED upsets \/ ScheduleAnswered(c)
    BY <1>1, Zenon DEF Answered, LoadAnswered, StartAnswered, DeleteAnswered, SaveAnswered
  <2>2. QED
    BY <2>1 DEF ScheduleAnswered
<1>2. QED
  BY <1>1, NextIs, OutsideSame, OutsideDelivers
  DEF User, Proceed, Open, Delete, Create, Leave, Return, Draw, Save, Validate, Schedule,
      Start, Reply, Serve, Refuse, ServeLoad, ServeWrite, ServeSchedule, ServeDelete,
      ServeCreate, ServeStart, ServeReply, backend, work, Check, Checked, Created, Rejected, Lose,
      vars

\* A workflow is only ever overwritten with a drawing of its own (save,
\* WorkflowBuilder.tsx:244-253), however loads, creations and saves overtake each other,
\* until the answer of a schedule has set the id alone.
THEOREM SavesComeHome == Spec => []SavesStayHome
<1> DEFINE HInv == "title" \notin upsets => Home
<1>1. Init => Home
  <2> SUFFICES ASSUME Init PROVE Home
    OBVIOUS
  <2>1. opened \in Workflows \cup {None} /\ calls = {} /\ wf = opened
        /\ stored = [w \in Workflows |-> [of |-> w, at |-> 0]]
        /\ canvas = IF opened = None THEN NoDrawing ELSE stored[opened]
    BY WorkbenchAssumption DEF Init
  <2>2. QED
    BY <2>1 DEF Home
<1>2. PageInv /\ HInv /\ [Next]_vars => HInv'
  BY HomeStep, UpsetsGrow
<1>3. HInv => SavesStayHome
  BY DEF Home, SavesStayHome
<1>4. Home => HInv
  OBVIOUS
<1> HIDE DEF HInv
<1>5. QED
  BY <1>1, <1>2, <1>3, <1>4, PageInit, PageStep, PTL DEF Spec

-----------------------------------------------------------------------------
(* Who asks, and who is answered.                                          *)

(* The run of the panel is the run of its socket, or there is none. *)
Joined == run \in {0, ws}

Asking ==
  /\ \A c \in calls : c.kind = "reply" => c.asked = c.run
  /\ InFlight("start") => hud # "waiting_human"
  /\ hud = "waiting_human" /\ run # 0 => asker = run

(* What becomes of the panel in a step. *)
PanelSame == UNCHANGED <<panel, ws>>
PanelLeft == run' = 0 /\ hud' = "" /\ ws' \in {0, ws}
PanelStarts == Start /\ UNCHANGED <<run, ws>> /\ hud' = "running"
PanelReplies == Reply /\ UNCHANGED <<run, ws, asker>> /\ hud' = "running"
PanelJoins == \E c \in calls : Answered(c) /\ c.kind = "start" /\ StartAnswered(c)
PanelHears == \E r \in RunIds : Deliver(r)

\* A page that is still there takes the run it has started.
PanelTakes == \E c \in calls : Answered(c) /\ c.kind = "start" /\ StartAnswered(c) /\ ~c.gone

LEMMA PanelStep ==
  [Next]_vars => PanelSame \/ PanelLeft \/ PanelStarts \/ PanelReplies \/ PanelJoins \/ PanelHears
<1> SUFFICES ASSUME [Next]_vars
             PROVE  \/ PanelSame \/ PanelLeft \/ PanelStarts \/ PanelReplies
                    \/ PanelJoins \/ PanelHears
  OBVIOUS
<1> USE DEF page, wires, panel
<1>1. ASSUME NEW c \in calls, Answered(c) PROVE PanelSame \/ PanelLeft \/ PanelJoins
  <2>1. \/ LoadAnswered(c) \/ DeleteAnswered(c) \/ ScheduleAnswered(c) \/ SaveAnswered(c)
        \/ UNCHANGED <<frame, page, wires, upsets>>
        \/ c.kind = "start" /\ StartAnswered(c)
    BY <1>1, Zenon DEF Answered
  <2>2. QED
    BY <1>1, <2>1 DEF PanelSame, PanelLeft, PanelJoins, LoadAnswered, DeleteAnswered,
                      ScheduleAnswered, SaveAnswered
<1>2. ASSUME NEW w \in Workflows, Open(w) \/ Delete(w) PROVE PanelSame
  BY <1>2 DEF Open, Delete, PanelSame
<1>3. CASE Create \/ Return \/ Draw \/ Save \/ Validate \/ Schedule
  BY <1>3 DEF Create, Return, Draw, Save, Validate, Schedule, PanelSame
<1>4. CASE Leave
  BY <1>4 DEF Leave, PanelLeft
<1>5. CASE Start
  BY <1>5 DEF Start, PanelStarts
<1>6. CASE Reply
  BY <1>6 DEF Reply, PanelReplies
<1>7. ASSUME NEW c \in calls,
             Serve(c) \/ Check(c) \/ Checked(c) \/ Created(c) \/ Rejected(c) \/ Lose(c)
      PROVE  PanelSame
  BY <1>7 DEF Serve, Check, Checked, Created, Rejected, Lose, PanelSame
<1>8. CASE Outsider
  BY <1>8, OutsideSame DEF PanelSame
<1>9. CASE UNCHANGED vars
  BY <1>9 DEF vars, PanelSame
<1>10. QED
  BY <1>1, <1>2, <1>3, <1>4, <1>5, <1>6, <1>7, <1>8, <1>9, NextIs DEF User, Proceed, PanelHears

LEMMA JoinedStep == PageInv /\ Joined /\ [Next]_vars => Joined'
<1> SUFFICES ASSUME PageInv, Joined, [Next]_vars PROVE Joined'
  OBVIOUS
<1>1. CASE PanelSame \/ PanelLeft \/ PanelStarts \/ PanelReplies
  BY <1>1 DEF PanelSame, PanelLeft, PanelStarts, PanelReplies, Joined, panel
<1>2. CASE PanelJoins \/ PanelHears
  BY <1>2 DEF PanelJoins, PanelHears, StartAnswered, Deliver, Joined
<1>3. QED
  BY <1>1, <1>2, PanelStep

(* A start in flight has just been sent, or was in flight. *)
LEMMA StartsInFlight ==
  ASSUME PageInv, [Next]_vars, InFlight("start")'
  PROVE  Start \/ InFlight("start")
<1>1. PICK d \in calls' : d.kind = "start" /\ ~d.gone
  BY DEF InFlight
<1>2. Comes(d)
  BY CallsStep
<1>3. QED
  BY <1>1, <1>2 DEF Comes, Sent, Loaded, Moved, Made, InFlight

LEMMA AskingStep ==
  ASSUME PageInv, Joined, Asking, [Next]_vars, "crossed" \notin upsets'
  PROVE  Asking'
<1> USE DEF panel
<1>1. ASSUME NEW d \in calls', d.kind = "reply" PROVE d.asked = d.run
  <2>1. Comes(d)
    BY CallsStep
  <2>2. Reply => hud = "waiting_human" /\ run # 0
    BY DEF Reply
  <2>3. QED
    BY <1>1, <2>1, <2>2 DEF Comes, Sent, Loaded, Moved, Made, Asking
<1>2. Start => hud' = "running"
  BY DEF Start
<1>3. /\ InFlight("start") /\ ~Start => hud' # "waiting_human"
      /\ hud' = "waiting_human" /\ run' # 0 => asker' = run'
  <2>1. CASE PanelSame
    BY <2>1 DEF PanelSame, Asking
  <2>2. CASE PanelLeft \/ PanelStarts \/ PanelReplies
    BY <2>2 DEF PanelLeft, PanelStarts, PanelReplies
  <2>3. CASE PanelJoins
    <3>1. PICK c \in calls : c.kind = "start" /\ StartAnswered(c)
      BY <2>3 DEF PanelJoins
    <3>2. CASE c.gone
      BY <3>1, <3>2 DEF StartAnswered, Asking
    <3>3. CASE ~c.gone
      BY <3>1, <3>3 DEF StartAnswered, Asking, InFlight
    <3>4. QED
      BY <3>2, <3>3
  <2>4. CASE PanelHears
    <3>1. PICK r \in RunIds : Deliver(r)
      BY <2>4 DEF PanelHears
    <3>2. r = ws
      BY <3>1 DEF Deliver, PageInv, SocketInv, OneSocket
    <3> DEFINE event == Head(sockets[r].queue)
    <3>3. hud' = Shows[event] /\ run' = run
      BY <3>1 DEF Deliver
    <3>4. CASE event = "interrupt"
      <4>1. ~InFlight("start") /\ asker' = r
        BY <3>1, <3>4 DEF Deliver
      <4>2. QED
        BY <3>2, <3>3, <4>1 DEF Joined
    <3>5. CASE event # "interrupt"
      <4>1. sockets[r].queue \in Queues /\ sockets[r].queue # <<>>
        BY <3>1, SocketIs DEF Deliver, PageInv, SocketInv, Sockets
      <4>2. event \in Events
        BY <4>1, QueueTaken
      <4>3. hud' # "waiting_human"
        BY <3>3, <3>5, <4>2, EventNames DEF Shows
      <4>4. QED
        BY <4>3
    <3>6. QED
      BY <3>4, <3>5
  <2>5. QED
    BY <2>1, <2>2, <2>3, <2>4, PanelStep
<1>4. InFlight("start")' => hud' # "waiting_human"
  BY <1>2, <1>3, StartsInFlight
<1>5. QED
  BY <1>1, <1>3, <1>4 DEF Asking, InFlight

\* A reply goes to the run that asked (sendReply, WorkflowBuilder.tsx:311-316), for any
\* clicks, runs and losses, until a run asks while the next one is being created.
THEOREM RepliesReach == Spec => []ReplyReachesAsker
<1> DEFINE AInv == "crossed" \notin upsets => Asking
<1>1. Init => Asking /\ Joined
  BY DEF Init, Asking, Joined, InFlight
<1>2. PageInv /\ Joined /\ AInv /\ [Next]_vars => AInv'
  BY AskingStep, UpsetsGrow
<1>3. AInv => ReplyReachesAsker
  BY DEF Asking, ReplyReachesAsker
<1>4. Asking => AInv
  OBVIOUS
<1> HIDE DEF AInv
<1>5. QED
  BY <1>1, <1>2, <1>3, <1>4, PageInit, PageStep, JoinedStep, PTL DEF Spec

-----------------------------------------------------------------------------
(* What becomes of a run and of its executions in a step.                  *)

Fine == "failed" \notin upsets

\* The executions of r are the same as before.
SameExecs(r) ==
  \A e \in ExecIds : execs'[e].run = r \/ execs[e].run = r => execs'[e] = execs[e]

Same(r) == runs'[r] = runs[r] /\ SameExecs(r)

\* A task was created for r, which may be new; if nobody took it for doubled, it has one.
Spawned(r) ==
  /\ \E e \in ExecIds :
       /\ execs'[e].run = r /\ execs'[e].at = "spawned"
       /\ r \notin doubled' => \A d \in ExecIds \ {e} : execs'[d].run # r
  /\ \/ runs'[r] = runs[r]
     \/ runs[r].wf = None /\ runs'[r].wf # None /\ runs'[r].status = "pending"

\* An execution of r goes on.
Works(r) == \E e \in ExecIds : execs[e].run = r /\ Execute(e)

\* Its workflow was deleted.
Deleted(r) == "failed" \in upsets' /\ runs'[r].wf = runs[r].wf /\ SameExecs(r)

LEMMA SpawnSpawns ==
  ASSUME PageInv, NEW q \in RunIds \cup {0}, Spawn(q), NEW r \in RunIds
  PROVE  /\ r # q => SameExecs(r)
         /\ r = q => \E e \in ExecIds :
                       /\ execs'[e].run = r /\ execs'[e].at = "spawned"
                       /\ r \notin doubled' => \A d \in ExecIds \ {e} : execs'[d].run # r
<1>1. PICK e \in ExecIds :
        /\ execs[e] = Idle
        /\ execs' = [execs EXCEPT ![e] = [run |-> q, at |-> "spawned", event |-> "none"]]
  BY DEF Spawn
<1>2. ExecInv
  BY TypesExec DEF PageInv
<1>3. /\ \A d \in ExecIds : d # e => execs'[d] = execs[d]
      /\ execs'[e].run = q /\ execs'[e].at = "spawned"
  BY <1>1, <1>2, Spawning DEF ExecInv
<1>4. Idle.run = 0 /\ r # 0
  BY DEF Idle, RunIds
<1>5. ASSUME r = q, r \notin doubled' PROVE \A d \in ExecIds \ {e} : execs'[d].run # r
  <2>1. ~Busy(r)
    BY <1>5 DEF Spawn
  <2>2. QED
    BY <2>1, <1>3 DEF Busy
<1>6. ASSUME r # q PROVE SameExecs(r)
  BY <1>1, <1>3, <1>4, <1>6 DEF SameExecs
<1>7. QED
  BY <1>3, <1>5, <1>6

(* A step of an execution writes the row of its own run, which stays if it is there. *)
LEMMA WritesOne ==
  ASSUME ExecInv, runs \in [RunIds -> RunType], NEW e \in ExecIds, Execute(e), NEW q \in RunIds
  PROVE  /\ q # execs[e].run => runs'[q] = runs[q]
         /\ runs'[q].wf = runs[q].wf
         /\ runs[q].status # "absent" => runs'[q].status # "absent"
<1> DEFINE r == execs[e].run
<1>1. r \in RunIds \cup {0}
  BY DEF ExecInv, Execs, ExecType
<1>2. UNCHANGED runs \/ \E x \in Statuses \ {"absent"} : runs' = Written(r, x)
  <2>1. CASE Begin(e)
    BY <2>1 DEF Begin, Statuses
  <2>2. CASE Settle(e)
    BY <2>2 DEF Settle, Leaves, Statuses
  <2>3. CASE CallBack(e)
    BY <2>3 DEF CallBack, Statuses
  <2>4. CASE Use(e) \/ Log(e) \/ Publish(e) \/ Swallow(e)
    BY <2>4, Zenon DEF Use, Log, Publish, Swallow
  <2>5. QED
    BY <2>1, <2>2, <2>3, <2>4 DEF Execute
<1> HIDE DEF r
<1>3. ASSUME NEW x \in Statuses \ {"absent"}, runs' = Written(r, x)
      PROVE  /\ q # r => runs'[q] = runs[q]
             /\ runs'[q].wf = runs[q].wf
             /\ runs[q].status # "absent" => runs'[q].status # "absent"
  BY <1>1, <1>3, WrittenType
<1>4. QED
  BY <1>2, <1>3 DEF r

LEMMA WorkStep ==
  ASSUME PageInv, [Next]_vars, NEW r \in RunIds
  PROVE  /\ Same(r) \/ Spawned(r) \/ Works(r) \/ Deleted(r)
         /\ doubled \subseteq doubled'
<1> DEFINE Goal == /\ Same(r) \/ Spawned(r) \/ Works(r) \/ Deleted(r)
                   /\ doubled \subseteq doubled'
<1> USE DEF backend, work
<1>1. runs \in [RunIds -> RunType] /\ calls \subseteq CallType /\ ExecInv
  BY TypesExec DEF PageInv, Types, TypeOK
<1>2. ASSUME UNCHANGED <<runs, execs, doubled>> PROVE Goal
  BY <1>2 DEF Same, SameExecs
<1>3. ASSUME NEW q \in RunIds \cup {0}, Spawn(q), UNCHANGED runs PROVE Goal
  <2>1. CASE q # r
    BY <1>3, <2>1, SpawnSpawns DEF Same, Spawn
  <2>2. CASE q = r
    BY <1>3, <2>2, SpawnSpawns DEF Spawned, Spawn
  <2>3. QED
    BY <2>1, <2>2
<1>4. ASSUME NEW c \in calls, Serve(c) PROVE Goal
  <2>1. CASE Refuse(c) \/ ServeLoad(c) \/ ServeWrite(c) \/ ServeSchedule(c) \/ ServeCreate(c)
    BY <1>2, <2>1 DEF Refuse, ServeLoad, ServeWrite, ServeSchedule, ServeCreate
  <2>2. CASE ServeDelete(c)
    <3>1. UNCHANGED <<execs, doubled>>
      BY <2>2 DEF ServeDelete
    <3>2. CASE r \in Runs(c.wf)
      <4>1. runs'[r].wf = runs[r].wf /\ "failed" \in upsets'
        BY <1>1, <2>2, <3>2 DEF ServeDelete, RunType
      <4>2. QED
        BY <3>1, <4>1 DEF Deleted, SameExecs
    <3>3. CASE r \notin Runs(c.wf)
      <4>1. runs'[r] = runs[r]
        BY <2>2, <3>3 DEF ServeDelete
      <4>2. QED
        BY <3>1, <4>1 DEF Same, SameExecs
    <3>4. QED
      BY <3>2, <3>3
  <2>3. CASE ServeStart(c)
    <3>1. PICK q \in RunIds :
            /\ runs[q].wf = None /\ Spawn(q)
            /\ runs' = [runs EXCEPT ![q].wf = c.wf, ![q].status = "pending"]
      BY <2>3 DEF ServeStart
    <3>2. c.wf # None
      BY <2>3, WorkbenchAssumption DEF ServeStart, PageInv, Types, TypeOK
    <3> DEFINE d == [runs[q] EXCEPT !.wf = c.wf, !.status = "pending"]
    <3>3. runs' = [runs EXCEPT ![q] = d]
      BY <1>1, <3>1 DEF RunType
    <3>4. d.wf = c.wf /\ d.status = "pending"
      BY <1>1 DEF RunType
    <3> HIDE DEF d
    <3>5. CASE q # r
      <4>1. runs'[r] = runs[r]
        BY <1>1, <3>3, <3>5
      <4>2. QED
        BY <3>1, <3>5, <4>1, SpawnSpawns DEF Same, Spawn
    <3>6. CASE q = r
      <4>1. runs'[r].wf # None /\ runs'[r].status = "pending"
        BY <1>1, <3>2, <3>3, <3>4, <3>6
      <4>2. QED
        BY <3>1, <3>6, <4>1, SpawnSpawns DEF Spawned, Spawn
    <3>7. QED
      BY <3>5, <3>6
  <2>4. CASE ServeReply(c)
    BY <1>1, <1>3, <2>4 DEF ServeReply, CallType
  <2>5. QED
    BY <1>4, <2>1, <2>2, <2>3, <2>4 DEF Serve
<1>5. ASSUME NEW q \in RunIds, Approve(q) PROVE Goal
  BY <1>3, <1>5 DEF Approve
<1>6. ASSUME NEW c \in calls, ~Serve(c), Proceed(c) \/ Lose(c) PROVE Goal
  <2>1. UNCHANGED <<runs, execs, doubled>>
    BY <1>6 DEF Proceed, Check, Checked, Answered, Created, Rejected, Lose
  <2>2. QED
    BY <1>2, <2>1
<1>7. CASE User
  <2>1. UNCHANGED <<runs, execs, doubled>>
    BY <1>7 DEF User, Open, Delete, Create, Leave, Return, Draw, Save, Validate, Schedule,
                Start, Reply
  <2>2. QED
    BY <1>2, <2>1
<1>8. ASSUME NEW q \in RunIds, Hear(q) \/ Break(q) PROVE Goal
  BY <1>2, <1>8 DEF Hear, Replay, Subscribe, Deliver, Break
<1>9. ASSUME NEW e \in ExecIds, Execute(e) PROVE Goal
  <2>0. UNCHANGED doubled
    BY <1>9, Zenon DEF Execute, Begin, Use, Settle, Log, Publish, Swallow, CallBack
  <2>1. CASE execs[e].run = r
    BY <1>9, <2>0, <2>1 DEF Works
  <2>2. CASE execs[e].run # r
    <3>1. SameExecs(r)
      BY <1>1, <1>9, <2>2, ExecuteOne DEF SameExecs, RunIds
    <3>2. runs'[r] = runs[r]
      BY <1>1, <1>9, <2>2, WritesOne
    <3>3. QED
      BY <2>0, <3>1, <3>2 DEF Same
  <2>3. QED
    BY <2>1, <2>2
<1>10. CASE UNCHANGED vars
  BY <1>2, <1>10 DEF vars
<1>11. QED
  BY <1>4, <1>5, <1>6, <1>7, <1>8, <1>9, <1>10 DEF Next

(* A run that was started belongs to its workflow for good. *)
LEMMA StartedStays ==
  ASSUME PageInv, [Next]_vars, NEW r \in RunIds, runs[r].wf # None
  PROVE  runs'[r].wf # None
<1>1. ASSUME NEW e \in ExecIds, Execute(e) PROVE runs'[r].wf = runs[r].wf
  BY <1>1, WritesOne, TypesExec DEF PageInv, Types
<1>2. QED
  BY <1>1, WorkStep DEF Same, Spawned, Works, Deleted

Alive == Fine => \A r \in RunIds : runs[r].wf # None => runs[r].status # "absent"

LEMMA AliveStep == PageInv /\ Alive /\ [Next]_vars => Alive'
<1> SUFFICES ASSUME PageInv, Alive, [Next]_vars, Fine', NEW r \in RunIds, runs'[r].wf # None
             PROVE  runs'[r].status # "absent"
  BY DEF Alive
<1>1. Fine
  BY UpsetsGrow DEF Fine
<1>2. ASSUME NEW e \in ExecIds, Execute(e) PROVE runs'[r].status # "absent"
  <2>1. runs'[r].wf = runs[r].wf /\ (runs[r].status # "absent" => runs'[r].status # "absent")
    BY <1>2, WritesOne, TypesExec DEF PageInv, Types
  <2>2. QED
    BY <1>1, <2>1 DEF Alive
<1>3. QED
  BY <1>1, <1>2, WorkStep DEF Same, Spawned, Works, Deleted, Alive, Fine

\* A run of which two executions never overlapped has at most one.
OneExec ==
  \A r \in RunIds \ doubled : \A d, e \in ExecIds : execs[d].run = r /\ execs[e].run = r => d = e

LEMMA OneExecStep == PageInv /\ OneExec /\ [Next]_vars => OneExec'
<1> SUFFICES ASSUME PageInv, OneExec, [Next]_vars, NEW r \in RunIds, r \notin doubled',
                    NEW d \in ExecIds, NEW e \in ExecIds, execs'[d].run = r, execs'[e].run = r
             PROVE  d = e
  BY DEF OneExec
<1>1. r \notin doubled
  BY WorkStep
<1>2. CASE SameExecs(r)
  BY <1>1, <1>2 DEF SameExecs, OneExec
<1>3. CASE Spawned(r)
  BY <1>3 DEF Spawned
<1>4. ASSUME NEW x \in ExecIds, execs[x].run = r, Execute(x) PROVE d = e
  <2>1. \A y \in ExecIds : y # x => execs'[y] = execs[y]
    BY <1>4, ExecuteOne, TypesExec DEF PageInv
  <2>2. execs[d].run = r /\ execs[e].run = r
    BY <1>4, <2>1
  <2>3. QED
    BY <1>1, <2>2 DEF OneExec
<1>5. QED
  BY <1>2, <1>3, <1>4, WorkStep DEF Same, Works, Deleted

-----------------------------------------------------------------------------
(* What becomes of the requests that the panel waits for.                  *)

(* Only what failed is refused. *)
Refused == \A c \in calls : c.at = "refused" => "failed" \in upsets

Replied(r) == \E c \in calls : c.kind = "reply" /\ c.at = "sent" /\ ~c.gone /\ c.run = r

LEMMA RefusedStep == PageInv /\ Refused /\ [Next]_vars => Refused'
<1> SUFFICES ASSUME PageInv, Refused, [Next]_vars, NEW d \in calls', d.at = "refused"
             PROVE  "failed" \in upsets'
  BY DEF Refused
<1>1. Comes(d)
  BY CallsStep
<1>2. QED
  BY <1>1, UpsetsGrow DEF Comes, Sent, Loaded, Moved, Made, Refused

(* A start in flight stays so, unless it is answered, fails, or the page is left. *)
LEMMA StartKept ==
  ASSUME PageInv, Refused, [Next]_vars, InFlight("start")
  PROVE  \/ InFlight("start")' \/ "failed" \in upsets' \/ (run' = 0 /\ hud' = "")
         \/ PanelTakes
<1>1. PICK s \in calls : s.kind = "start" /\ ~s.gone
  BY DEF InFlight
<1>2. CASE s \in calls'
  BY <1>1, <1>2 DEF InFlight
<1>3. s \in CallType /\ upsets \subseteq upsets' /\ calls \subseteq CallType
  BY UpsetsGrow DEF PageInv, Types, TypeOK
<1>4. CASE Leave
  BY <1>4 DEF Leave
<1>5. ASSUME NEW k, NEW w, SendWrite(k, w) PROVE s \in calls'
  BY <1>1, <1>5 DEF SendWrite, Writes
<1>6. CASE User
  BY <1>2, <1>4, <1>5, <1>6
  DEF User, Open, GoTo, Delete, Create, Return, Draw, Save, Validate, Schedule, Start, Reply
<1>7. ASSUME NEW c \in calls, c # s, Proceed(c) \/ Lose(c) PROVE s \in calls'
  BY <1>7 DEF Proceed, Serve, Refuse, ServeLoad, ServeWrite, ServeSchedule, ServeDelete,
              ServeCreate, ServeStart, ServeReply, Served, Becomes, Check, Checked, Answered,
              Created, GoTo, Rejected, Lose
<1>8. CASE Proceed(s) \/ Lose(s)
  <2>1. Refuse(s) => "failed" \in upsets'
    BY DEF Refuse
  <2>2. CASE Serve(s)
    <3>1. CASE ServeStart(s)
      <4>1. PICK r \in RunIds : Becomes(s, [s EXCEPT !.at = "served", !.run = r])
        BY <3>1 DEF ServeStart
      <4>2. LET d == [s EXCEPT !.at = "served", !.run = r]
            IN  d \in calls' /\ d.kind = "start" /\ ~d.gone
        BY <1>1, <1>3, <4>1 DEF Becomes, CallType
      <4>3. QED
        BY <4>2 DEF InFlight
    <3>2. Refuse(s) \/ ServeStart(s)
      BY <1>1, <2>2 DEF Serve, ServeLoad, ServeWrite, ServeSchedule, ServeDelete, ServeCreate,
                        ServeReply
    <3>3. QED
      BY <2>1, <3>1, <3>2
  <2>3. CASE Answered(s)
    <3>1. StartAnswered(s)
      BY <1>1, <2>3, Zenon DEF Answered
    <3>2. QED
      BY <1>1, <2>3, <3>1 DEF PanelTakes
  <2>4. CASE Rejected(s)
    BY <1>3, <2>4 DEF Rejected, Refused
  <2>5. CASE Lose(s)
    BY <2>5 DEF Lose
  <2>6. QED
    BY <1>1, <1>8, <2>2, <2>3, <2>4, <2>5 DEF Proceed, Check, Checked, Created
<1>9. CASE Outsider \/ \E q \in RunIds : Deliver(q)
  BY <1>2, <1>9, OutsideSame, OutsideDelivers
<1>10. CASE UNCHANGED vars
  BY <1>2, <1>10 DEF vars
<1>11. QED
  BY <1>2, <1>6, <1>7, <1>8, <1>9, <1>10, NextIs

(* A reply that was sent is on its way until there is a task for its run. *)
LEMMA ReplyKept ==
  ASSUME PageInv, Refused, [Next]_vars, NEW r \in RunIds, Replied(r)
  PROVE  \/ Replied(r)' \/ "failed" \in upsets' \/ (run' = 0 /\ hud' = "")
         \/ Spawned(r)
<1>1. PICK s \in calls : s.kind = "reply" /\ s.at = "sent" /\ ~s.gone /\ s.run = r
  BY DEF Replied
<1>2. CASE s \in calls'
  BY <1>1, <1>2 DEF Replied
<1>3. CASE Leave
  BY <1>3 DEF Leave
<1>4. ASSUME NEW k, NEW w, SendWrite(k, w) PROVE s \in calls'
  BY <1>1, <1>4 DEF SendWrite, Writes
<1>5. CASE User
  BY <1>2, <1>3, <1>4, <1>5
  DEF User, Open, GoTo, Delete, Create, Return, Draw, Save, Validate, Schedule, Start, Reply
<1>6. ASSUME NEW c \in calls, c # s, Proceed(c) \/ Lose(c) PROVE s \in calls'
  BY <1>6 DEF Proceed, Serve, Refuse, ServeLoad, ServeWrite, ServeSchedule, ServeDelete,
              ServeCreate, ServeStart, ServeReply, Served, Becomes, Check, Checked, Answered,
              Created, GoTo, Rejected, Lose
<1>7. CASE Proceed(s) \/ Lose(s)
  <2>1. CASE Refuse(s) \/ Lose(s)
    BY <2>1 DEF Refuse, Lose
  <2>2. CASE ServeReply(s)
    <3>1. Spawn(r) /\ UNCHANGED runs
      BY <1>1, <2>2 DEF ServeReply
    <3>2. QED
      BY <3>1, SpawnSpawns DEF Spawned
  <2>3. QED
    BY <1>1, <1>7, <2>1, <2>2
    DEF Proceed, Serve, ServeLoad, ServeWrite, ServeSchedule, ServeDelete, ServeCreate,
        ServeStart, Check, Checked, Answered, Created, Rejected
<1>8. CASE Outsider \/ \E q \in RunIds : Deliver(q)
  BY <1>2, <1>8, OutsideSame, OutsideDelivers
<1>9. CASE UNCHANGED vars
  BY <1>2, <1>9 DEF vars
<1>10. QED
  BY <1>2, <1>5, <1>6, <1>7, <1>8, <1>9, NextIs

(* A load in flight stays so, unless it is answered, fails, or the page is left. *)
LEMMA LoadKept ==
  ASSUME PageInv, Refused, [Next]_vars, InFlight("load")
  PROVE  \/ InFlight("load")' \/ "failed" \in upsets' \/ (run' = 0 /\ hud' = "")
<1>1. PICK s \in calls : s.kind = "load" /\ ~s.gone
  BY DEF InFlight
<1>2. CASE s \in calls'
  BY <1>1, <1>2 DEF InFlight
<1>3. s \in CallType /\ upsets \subseteq upsets' /\ calls \subseteq CallType
  BY UpsetsGrow DEF PageInv, Types, TypeOK
<1>4. CASE Leave
  BY <1>4 DEF Leave
<1>5. ASSUME NEW k, NEW w, SendWrite(k, w) PROVE s \in calls'
  BY <1>1, <1>5 DEF SendWrite, Writes
<1>6. CASE User
  BY <1>2, <1>4, <1>5, <1>6
  DEF User, Open, GoTo, Delete, Create, Return, Draw, Save, Validate, Schedule, Start, Reply
<1>7. ASSUME NEW c \in calls, c # s, Proceed(c) \/ Lose(c) PROVE s \in calls'
  BY <1>7 DEF Proceed, Serve, Refuse, ServeLoad, ServeWrite, ServeSchedule, ServeDelete,
              ServeCreate, ServeStart, ServeReply, Served, Becomes, Check, Checked, Answered,
              Created, GoTo, Rejected, Lose
<1>8. CASE Proceed(s) \/ Lose(s)
  <2>1. Refuse(s) => "failed" \in upsets'
    BY DEF Refuse
  <2>2. CASE Serve(s)
    <3>1. CASE ServeLoad(s)
      <4>1. Becomes(s, [s EXCEPT !.at = "served", !.drawing = stored[s.wf]])
        BY <3>1 DEF ServeLoad
      <4>2. LET d == [s EXCEPT !.at = "served", !.drawing = stored[s.wf]]
            IN  d \in calls' /\ d.kind = "load" /\ ~d.gone
        BY <1>1, <1>3, <4>1 DEF Becomes, CallType
      <4>3. QED
        BY <4>2 DEF InFlight
    <3>2. Refuse(s) \/ ServeLoad(s)
      BY <1>1, <2>2 DEF Serve, ServeStart, ServeWrite, ServeSchedule, ServeDelete, ServeCreate,
                        ServeReply
    <3>3. QED
      BY <2>1, <3>1, <3>2
  <2>3. CASE Answered(s)
    <3>1. LoadAnswered(s)
      BY <1>1, <2>3, Zenon DEF Answered
    <3>2. QED
      BY <3>1 DEF LoadAnswered
  <2>4. CASE Rejected(s)
    BY <1>3, <2>4 DEF Rejected, Refused
  <2>5. CASE Lose(s)
    BY <2>5 DEF Lose
  <2>6. QED
    BY <1>1, <1>8, <2>2, <2>3, <2>4, <2>5 DEF Proceed, Check, Checked, Created
<1>9. CASE Outsider \/ \E q \in RunIds : Deliver(q)
  BY <1>2, <1>9, OutsideSame, OutsideDelivers
<1>10. CASE UNCHANGED vars
  BY <1>2, <1>10 DEF vars
<1>11. QED
  BY <1>2, <1>6, <1>7, <1>8, <1>9, <1>10, NextIs

-----------------------------------------------------------------------------
(* createRun names a new run: no other answer under way and no socket of   *)
(* the page has it.                                                        *)

(* A start that is served and not yet answered. *)
Begins(c) == c.kind = "start" /\ c.at = "served"

Newborn ==
  /\ ws # 0 => runs[ws].wf # None
  /\ \A c \in calls : Begins(c) => c.run \in RunIds /\ c.run # ws /\ runs[c.run].wf # None
  /\ \A c, d \in calls : Begins(c) /\ Begins(d) /\ c.run = d.run => c = d

(* What becomes of the starts that were served. *)
LEMMA BeginsStep ==
  ASSUME PageInv, [Next]_vars
  PROVE  \/ \E c \in calls : Serve(c) /\ ServeStart(c)
         \/ Leave
         \/ \A d \in calls' : Begins(d) => d \in calls
<1> DEFINE Goal == \A d \in calls' : Begins(d) => d \in calls
<1> USE DEF backend, work, page, panel, frame, wires
<1>1. calls \subseteq CallType /\ clicks \in Nat /\ opened \in Workflows \cup {None}
      /\ wf \in Workflows \cup {None}
  BY DEF PageInv, Types, TypeOK
<1>2. ASSUME NEW d, calls' \subseteq calls \cup {d}, ~Begins(d) PROVE Goal
  BY <1>2
<1>3. ASSUME NEW c \in CallType, NEW a \in {"sent", "served", "checking", "refused"},
             a = "served" => c.kind # "start", Becomes(c, [c EXCEPT !.at = a])
      PROVE  Goal
  <2>1. ~Begins([c EXCEPT !.at = a])
    BY <1>3, MovedCall DEF Begins
  <2> QED
    BY <1>2, <1>3, <2>1 DEF Becomes
<1>4. ASSUME NEW k, NEW w PROVE ~Begins(Call(k, w))
  BY DEF Begins, Call
<1>5. ASSUME NEW w, NEW others \in SUBSET calls, GoTo(w, others) PROVE Goal
  BY <1>2, <1>4, <1>5 DEF GoTo
<1>6. ASSUME NEW w \in Workflows, Open(w) PROVE Goal
  BY <1>5, <1>6 DEF Open
<1>7. ASSUME NEW w \in Workflows, Delete(w) PROVE Goal
  <2> DEFINE b == wf = w
             c == Call("delete", w)
             e == [c EXCEPT !.shown = b]
  <2>1. calls' = calls \cup {e}
    BY <1>7 DEF Delete
  <2>2. e.at = "sent"
    BY DEF Call
  <2> HIDE DEF e
  <2> QED
    BY <1>2, <2>1, <2>2 DEF Begins
<1>8. CASE Create \/ Return \/ Schedule \/ Start
  BY <1>4, <1>8 DEF Create, Return, Schedule, Start
<1>9. CASE Save \/ Validate
  <2>1. PICK k \in {"save", "validate"} : SendWrite(k, wf)
    BY <1>9 DEF Save, Validate
  <2>2. calls' = {[c EXCEPT !.alone = FALSE] : c \in Writes(wf)} \cup (calls \ Writes(wf))
                 \cup {Write(k, wf)}
    BY <2>1 DEF SendWrite, Write
  <2>3. ASSUME NEW c \in Writes(wf) PROVE ~Begins([c EXCEPT !.alone = FALSE])
    BY <1>1, JoinedCall DEF Writes, Begins
  <2>4. ~Begins(Write(k, wf))
    <3> DEFINE b == Writes(wf) = {}
               c == Call(k, wf)
    <3>1. [c EXCEPT !.drawing = canvas, !.alone = b].at = "sent"
      BY DEF Call
    <3> QED
      BY <3>1 DEF Write, Begins
  <2> QED
    BY <2>2, <2>3, <2>4
<1>10. CASE Reply
  <2> DEFINE c == Call("reply", wf)
             e == [c EXCEPT !.run = run, !.asked = asker]
  <2>1. calls' = calls \cup {e}
    BY <1>10 DEF Reply
  <2>2. e.at = "sent"
    BY DEF Call
  <2> HIDE DEF e
  <2> QED
    BY <1>2, <2>1, <2>2 DEF Begins
<1>11. ASSUME NEW c \in calls, Serve(c), ~ServeStart(c) PROVE Goal
  <2>1. CASE Refuse(c)
    BY <1>1, <1>3, <2>1 DEF Refuse
  <2>2. CASE ServeLoad(c)
    <3> DEFINE e == [c EXCEPT !.at = "served", !.drawing = stored[c.wf]]
    <3>1. e.kind = "load" /\ calls' \subseteq calls \cup {e}
      BY <1>1, <2>2 DEF ServeLoad, Becomes, CallType
    <3> HIDE DEF e
    <3> QED
      BY <1>2, <3>1 DEF Begins
  <2>3. CASE ServeWrite(c) \/ ServeSchedule(c) \/ ServeDelete(c) \/ ServeReply(c)
    BY <1>1, <1>3, <2>3 DEF ServeWrite, ServeSchedule, ServeDelete, ServeReply, Served
  <2>4. CASE ServeCreate(c)
    <3>1. PICK w \in Workflows : Becomes(c, [c EXCEPT !.at = "served", !.wf = w])
      BY <2>4 DEF ServeCreate
    <3> DEFINE e == [c EXCEPT !.at = "served", !.wf = w]
    <3>2. e.kind = "create" /\ calls' \subseteq calls \cup {e}
      BY <1>1, <2>4, <3>1 DEF ServeCreate, Becomes, CallType
    <3> HIDE DEF e
    <3> QED
      BY <1>2, <3>2 DEF Begins
  <2> QED
    BY <1>11, <2>1, <2>2, <2>3, <2>4 DEF Serve
<1>12. ASSUME NEW c \in calls, Check(c) \/ Lose(c) PROVE Goal
  BY <1>1, <1>3, <1>12 DEF Check, Lose
<1>13. ASSUME NEW c \in calls, Checked(c) \/ Rejected(c) \/ Answered(c) PROVE Goal
  BY <1>13 DEF Checked, Rejected, Answered
<1>14. ASSUME NEW c \in calls, Created(c) PROVE Goal
  BY <1>5, <1>14 DEF Created
<1>15. CASE Outsider \/ \E q \in RunIds : Deliver(q)
  BY <1>15, OutsideSame, OutsideDelivers
<1>16. CASE Draw \/ UNCHANGED vars
  BY <1>16 DEF Draw, vars
<1> QED
  BY <1>6, <1>7, <1>8, <1>9, <1>10, <1>11, <1>12, <1>13, <1>14, <1>15, <1>16,
     NextIs
  DEF User, Proceed

(* wsRef changes with the answer of a start, and when the page is left. *)
LEMMA WsStep ==
  ASSUME [Next]_vars
  PROVE  \/ ws' \in {0, ws}
         \/ \E c \in calls : /\ Answered(c) /\ c.kind = "start" /\ StartAnswered(c)
                             /\ ~c.gone /\ ws' = c.run
<1>1. CASE PanelSame \/ PanelLeft \/ PanelStarts \/ PanelReplies
  BY <1>1 DEF PanelSame, PanelLeft, PanelStarts, PanelReplies
<1>2. CASE PanelHears
  BY <1>2 DEF PanelHears, Deliver
<1>3. CASE PanelJoins
  BY <1>3 DEF PanelJoins, StartAnswered
<1> QED
  BY <1>1, <1>2, <1>3, PanelStep

LEMMA NewbornStep == PageInv /\ Newborn /\ [Next]_vars => Newborn'
<1> SUFFICES ASSUME PageInv, Newborn, [Next]_vars PROVE Newborn'
  OBVIOUS
<1>1. calls \subseteq CallType /\ ws \in RunIds \cup {0} /\ runs \in [RunIds -> RunType]
  BY DEF PageInv, Types, TypeOK
<1>2. ASSUME \A d \in calls' : Begins(d) =>
               \E c \in calls : /\ Begins(c) /\ d.run = c.run
                                /\ d = c \/ (d = [c EXCEPT !.gone = TRUE] /\ Leave),
             Leave \/ \A d \in calls' : Begins(d) => d \in calls
      PROVE  Newborn'
  <2>1. ws' # 0 => runs'[ws'].wf # None
    <3>1. CASE ws' \in {0, ws}
      BY <1>1, <3>1, StartedStays DEF Newborn
    <3>2. ASSUME NEW c \in calls, Answered(c), c.kind = "start", ws' = c.run
          PROVE  runs'[ws'].wf # None
      BY <3>2, StartedStays DEF Answered, Newborn, Begins
    <3> QED
      BY <3>1, <3>2, WsStep
  <2>2. ASSUME NEW d \in calls', Begins(d)
        PROVE  d.run \in RunIds /\ d.run # ws' /\ runs'[d.run].wf # None
    <3>1. PICK c \in calls : Begins(c) /\ d.run = c.run
                             /\ (d = c \/ (d = [c EXCEPT !.gone = TRUE] /\ Leave))
      BY <1>2, <2>2
    <3>2. c.run \in RunIds /\ c.run # ws /\ runs[c.run].wf # None
      BY <3>1 DEF Newborn
    <3>3. d.run \in RunIds /\ runs'[d.run].wf # None
      BY <3>1, <3>2, StartedStays
    <3>4. d.run # ws'
      <4>1. CASE ws' \in {0, ws}
        BY <3>1, <3>2, <4>1 DEF RunIds
      <4>2. ASSUME NEW e \in calls, Answered(e), e.kind = "start", StartAnswered(e),
                   ws' = e.run, e.run = d.run
            PROVE  FALSE
        <5>1. Begins(e) /\ calls' = calls \ {e}
          BY <4>2 DEF Answered, Begins
        <5>2. e = c
          BY <3>1, <4>2, <5>1 DEF Newborn
        <5>3. d # c
          BY <5>1, <5>2
        <5>4. Leave
          BY <3>1, <5>3
        <5>5. ws' = 0
          BY <5>4 DEF Leave
        <5> QED
          BY <3>1, <3>2, <4>2, <5>5 DEF RunIds
      <4> QED
        BY <4>1, <4>2, WsStep
    <3> QED
      BY <3>3, <3>4
  <2>3. ASSUME NEW d \in calls', NEW e \in calls', Begins(d), Begins(e), d.run = e.run
        PROVE  d = e
    <3>1. CASE \A x \in calls' : Begins(x) => x \in calls
      BY <2>3, <3>1 DEF Newborn
    <3>2. CASE Leave
      <4> DEFINE G(c) == [c EXCEPT !.gone = TRUE]
      <4>1. \A x \in calls' : \E c \in calls : x = G(c)
        BY <3>2 DEF Leave
      <4>2. PICK c \in calls : d = G(c)
        BY <4>1
      <4>3. PICK b \in calls : e = G(b)
        BY <4>1
      <4>4. \A x \in calls : G(x).kind = x.kind /\ G(x).at = x.at /\ G(x).run = x.run
        BY <1>1, LeftCall
      <4>5. Begins(c) /\ Begins(b) /\ c.run = b.run
        BY <2>3, <4>2, <4>3, <4>4 DEF Begins
      <4>6. c = b
        BY <4>5 DEF Newborn
      <4> QED
        BY <4>2, <4>3, <4>6
    <3> QED
      BY <1>2, <3>1, <3>2
  <2> QED
    BY <2>1, <2>2, <2>3 DEF Newborn, Begins
<1>3. CASE Leave
  <2> DEFINE G(c) == [c EXCEPT !.gone = TRUE]
  <2>1. \A x \in calls' : \E c \in calls : x = G(c)
    BY <1>3 DEF Leave
  <2>2. \A x \in calls : G(x).kind = x.kind /\ G(x).at = x.at /\ G(x).run = x.run
    BY <1>1, LeftCall
  <2> HIDE DEF G
  <2>3. \A d \in calls' : Begins(d) =>
          \E c \in calls : Begins(c) /\ d.run = c.run /\ d = G(c)
    BY <2>1, <2>2 DEF Begins
  <2> QED
    BY <1>2, <1>3, <2>3 DEF G
<1>4. CASE \A d \in calls' : Begins(d) => d \in calls
  BY <1>2, <1>4
<1>5. ASSUME NEW c \in calls, Serve(c), ServeStart(c) PROVE Newborn'
  <2>1. PICK r \in RunIds :
          /\ runs[r].wf = None
          /\ runs' = [runs EXCEPT ![r].wf = c.wf, ![r].status = "pending"]
          /\ Becomes(c, [c EXCEPT !.at = "served", !.run = r])
    BY <1>5 DEF ServeStart
  <2>2. ws' = ws /\ c.wf \in exists /\ exists \subseteq Workflows
    BY <1>5 DEF Serve, ServeStart, wires, PageInv, Types, TypeOK
  <2>3. runs'[r].wf # None
    BY <1>1, <2>1, <2>2, WorkbenchAssumption DEF RunType
  <2> DEFINE e == [c EXCEPT !.at = "served", !.run = r]
  <2>4. e.run = r /\ calls' = (calls \ {c}) \cup {e}
    BY <1>1, <2>1 DEF Becomes, CallType
  <2> HIDE DEF e
  <2>5. r # ws /\ \A d \in calls : Begins(d) => d.run # r
    BY <2>1 DEF Newborn, RunIds
  <2>6. ws' # 0 => runs'[ws'].wf # None
    BY <1>1, <2>2, StartedStays DEF Newborn
  <2>7. \A d \in calls' : Begins(d) => d.run \in RunIds /\ d.run # ws' /\ runs'[d.run].wf # None
    BY <2>2, <2>3, <2>4, <2>5, StartedStays DEF Newborn
  <2>8. \A d, f \in calls' : Begins(d) /\ Begins(f) /\ d.run = f.run => d = f
    BY <2>4, <2>5 DEF Newborn
  <2> QED
    BY <2>6, <2>7, <2>8 DEF Newborn, Begins
<1> QED
  BY <1>3, <1>4, <1>5, BeginsStep

-----------------------------------------------------------------------------
(* What becomes of a socket in a step.                                     *)

\* createRun has named r, and the page hears its socket.
Takes(r) ==
  /\ \E c \in calls : Answered(c) /\ c.kind = "start" /\ c.run = r
  /\ ws' = r /\ run' = r
  /\ sockets'[r].state = "open" /\ sockets'[r].phase = sockets[r].phase
  /\ sockets'[r].queue = sockets[r].queue /\ sockets'[r].told = sockets[r].told

\* ... or would, if it were not gone.
Leaks(r) ==
  /\ \E c \in calls : Answered(c) /\ c.kind = "start" /\ c.run = r
  /\ sockets'[r].state = "leaked"

Left == run' = 0 /\ hud' = ""

\* It is closed for a reason.
Closes(r) ==
  /\ sockets'[r].state = "closed"
  /\ \/ r = ws /\ (InFlight("load")' \/ Left \/ PanelTakes)
     \/ sockets[r].state = "open" /\ ~Fine'

LEMMA SocketMove ==
  ASSUME PageInv, Newborn, [Next]_vars, NEW r \in RunIds
  PROVE  sockets'[r] = sockets[r] \/ Takes(r) \/ Leaks(r) \/ Closes(r) \/ Hear(r) \/ Works(r)
<1> DEFINE Goal ==
      sockets'[r] = sockets[r] \/ Takes(r) \/ Leaks(r) \/ Closes(r) \/ Hear(r) \/ Works(r)
<1> USE DEF wires
<1>1. sockets \in Sockets /\ ws \in RunIds \cup {0} /\ SocketInv
  BY DEF PageInv, SocketInv, Types, TypeOK
<1>2. ASSUME UNCHANGED sockets PROVE Goal
  BY <1>2
<1>3. ASSUME NEW q, q # r \/ (CloseSocket(q)[r].state = "closed" => Closes(r)),
             sockets' = CloseSocket(q)
      PROVE  Goal
  <2>1. CASE q # r
    BY <1>1, <1>3, <2>1, Closing
  <2>2. CASE q = r
    <3>1. CloseSocket(q)[r] = ClosedSocket
      BY <1>1, <2>2 DEF CloseSocket, Sockets
    <3>2. CloseSocket(q)[r].state = "closed"
      BY <3>1, NoSocketIs
    <3>3. QED
      BY <1>3, <2>2, <3>2
  <2>3. QED
    BY <2>1, <2>2
<1>4. ASSUME NEW w, NEW others, GoTo(w, others) PROVE Goal
  <2>1. Call("load", w) \in calls' => InFlight("load")'
    BY DEF InFlight, Call
  <2>2. UNCHANGED sockets \/ (sockets' = CloseSocket(ws) /\ InFlight("load")')
    BY <1>4, <2>1 DEF GoTo
  <2>3. QED
    BY <1>2, <1>3, <2>2 DEF Closes
<1>5. ASSUME NEW c \in calls, Answered(c) PROVE Goal
  <2>1. \/ LoadAnswered(c) \/ DeleteAnswered(c) \/ ScheduleAnswered(c) \/ SaveAnswered(c)
        \/ UNCHANGED <<frame, page, wires, upsets>>
        \/ c.kind = "start" /\ StartAnswered(c)
    BY <1>5, Zenon DEF Answered
  <2>2. CASE c.kind = "start" /\ StartAnswered(c)
    <3> DEFINE q == IF c.gone THEN 0 ELSE ws
               C == CloseSocket(q)
    <3>1. c.run \in RunIds /\ c.run # ws /\ 0 \notin RunIds
      BY <1>5, <2>2, WorkbenchAssumption DEF Answered, Newborn, Begins, RunIds
    <3>2. /\ \A p \in RunIds : p # c.run => sockets'[p] = C[p]
          /\ LET s == C[c.run]
             IN  /\ sockets'[c.run].state = IF c.gone THEN "leaked" ELSE "open"
                 /\ sockets'[c.run].phase = s.phase /\ sockets'[c.run].queue = s.queue
                 /\ sockets'[c.run].told = s.told
      BY <1>1, <2>2, <3>1, Opens
    <3>3. \A p \in RunIds : p # q => C[p] = sockets[p]
      BY <1>1, Closing
    <3>4. CASE c.run = r /\ c.gone
      BY <1>5, <2>2, <3>2, <3>4 DEF Leaks
    <3>5. CASE c.run = r /\ ~c.gone
      <4>1. C[r] = sockets[r]
        BY <3>1, <3>3, <3>5
      <4>2. ws' = r /\ run' = r
        BY <2>2, <3>5 DEF StartAnswered
      <4>3. QED
        BY <1>5, <2>2, <3>2, <3>5, <4>1, <4>2 DEF Takes
    <3>6. CASE c.run # r /\ (r # ws \/ c.gone)
      BY <3>1, <3>2, <3>3, <3>6
    <3>7. CASE c.run # r /\ r = ws /\ ~c.gone
      <4>1. sockets'[r] = ClosedSocket
        BY <1>1, <3>2, <3>7 DEF CloseSocket, Sockets
      <4>2. PanelTakes
        BY <1>5, <2>2, <3>7 DEF PanelTakes
      <4>3. QED
        BY <3>7, <4>1, <4>2, NoSocketIs DEF Closes
    <3>8. QED
      BY <3>4, <3>5, <3>6, <3>7
  <2>3. QED
    BY <1>2, <2>1, <2>2 DEF LoadAnswered, DeleteAnswered, ScheduleAnswered, SaveAnswered
<1>6. ASSUME NEW q \in RunIds, Break(q) PROVE Goal
  <2>1. sockets[q].state = "open" /\ sockets' = CloseSocket(q) /\ ~Fine'
    BY <1>6 DEF Break, Fine
  <2>2. QED
    BY <1>3, <2>1 DEF Closes
<1>7. ASSUME NEW c \in calls, Serve(c) \/ Check(c) \/ Checked(c) \/ Rejected(c) \/ Lose(c)
      PROVE  Goal
  BY <1>2, <1>7 DEF Serve, Check, Checked, Rejected, Lose
<1>8. ASSUME NEW c \in calls, Created(c) PROVE Goal
  BY <1>4, <1>8 DEF Created
<1>9. CASE Leave
  <2>1. sockets' = CloseSocket(ws) /\ Left
    BY <1>9 DEF Leave, Left
  <2>2. QED
    BY <1>3, <2>1 DEF Closes
<1>10. CASE User
  BY <1>2, <1>4, <1>9, <1>10
  DEF User, Open, Delete, Create, Return, Draw, Save, Validate, Schedule, Start, Reply
<1>11. ASSUME NEW q \in RunIds, Hear(q) PROVE Goal
  BY <1>1, <1>11, HearsOne
<1>12. ASSUME NEW e \in ExecIds, Execute(e) PROVE Goal
  <2>1. r # execs[e].run => sockets'[r] = sockets[r]
    BY <1>1, <1>12, ExecuteTells, TypesExec DEF PageInv
  <2>2. QED
    BY <1>12, <2>1 DEF Works
<1>13. ASSUME NEW q \in RunIds, Approve(q) PROVE Goal
  BY <1>2, <1>13 DEF Approve
<1>14. CASE UNCHANGED vars
  BY <1>2, <1>14 DEF vars
<1> QED
  BY <1>5, <1>6, <1>7, <1>8, <1>10, <1>11, <1>12, <1>13, <1>14 DEF Next, Proceed

\* No socket of the page is that of a run that was not started, or not answered.
Fresh ==
  /\ \A r \in RunIds : runs[r].wf = None => sockets[r].state = "none"
  /\ \A c \in calls : Begins(c) => sockets[c.run].state = "none"

LEMMA FreshStep == PageInv /\ Newborn /\ Fresh /\ [Next]_vars => Fresh'
<1> SUFFICES ASSUME PageInv, Newborn, Fresh, [Next]_vars PROVE Fresh'
  OBVIOUS
<1>1. calls \subseteq CallType /\ sockets \in Sockets /\ ExecInv
  BY TypesExec DEF PageInv, SocketInv, Types, TypeOK
<1>2. ASSUME NEW c \in calls, Answered(c), c.kind = "start"
      PROVE  Begins(c) /\ calls' = calls \ {c}
  BY <1>2 DEF Answered, Begins
<1>3. ASSUME NEW r \in RunIds, Hear(r) \/ Works(r) PROVE sockets'[r].state = sockets[r].state
  BY <1>1, <1>3, HearsOne, ExecuteTells DEF Works
<1>4. ASSUME NEW r \in RunIds, runs'[r].wf = None PROVE sockets'[r].state = "none"
  <2>1. runs[r].wf = None
    BY <1>4, StartedStays
  <2>2. sockets[r].state = "none" /\ r # ws
    BY <2>1 DEF Fresh, Newborn, RunIds
  <2>3. ~Takes(r) /\ ~Leaks(r)
    BY <1>2, <2>1 DEF Takes, Leaks, Newborn
  <2>4. QED
    BY <1>3, <2>2, <2>3, SocketMove DEF Closes
<1>5. ASSUME NEW d \in calls', Begins(d), d \in calls PROVE sockets'[d.run].state = "none"
  <2>1. d.run \in RunIds /\ d.run # ws /\ sockets[d.run].state = "none"
    BY <1>5 DEF Newborn, Fresh
  <2>2. ~Takes(d.run) /\ ~Leaks(d.run)
    BY <1>2, <1>5 DEF Takes, Leaks, Newborn
  <2>3. QED
    BY <1>3, <2>1, <2>2, SocketMove DEF Closes
<1>6. CASE Leave
  <2> DEFINE G(c) == [c EXCEPT !.gone = TRUE]
  <2>1. \A d \in calls' : \E c \in calls : d = G(c)
    BY <1>6 DEF Leave
  <2>5. \A c \in calls : G(c).kind = c.kind /\ G(c).at = c.at /\ G(c).run = c.run
    BY <1>1, LeftCall
  <2> HIDE DEF G
  <2>2. \A d \in calls' : Begins(d) => \E c \in calls : Begins(c) /\ d.run = c.run
    BY <2>1, <2>5 DEF Begins
  <2>3. \A r \in RunIds : r # ws => sockets'[r] = sockets[r]
    BY <1>1, <1>6, Closing DEF Leave
  <2>4. QED
    BY <1>4, <2>2, <2>3 DEF Fresh, Newborn, Begins
<1>7. ASSUME NEW c \in calls, Serve(c), ServeStart(c) PROVE Fresh'
  <2>1. PICK r \in RunIds : runs[r].wf = None /\ Becomes(c, [c EXCEPT !.at = "served", !.run = r])
    BY <1>7 DEF ServeStart
  <2> DEFINE e == [c EXCEPT !.at = "served", !.run = r]
  <2>2. e.run = r /\ calls' = (calls \ {c}) \cup {e}
    BY <1>1, <2>1 DEF Becomes, CallType
  <2> HIDE DEF e
  <2>3. sockets' = sockets
    BY <1>7 DEF Serve, wires
  <2>4. QED
    BY <1>4, <2>1, <2>2, <2>3 DEF Fresh, Begins
<1>8. QED
  BY <1>4, <1>5, <1>6, <1>7, BeginsStep DEF Fresh, Begins

-----------------------------------------------------------------------------
(* What the panel shows, and what it waits for.                            *)

Pending(r) == InFlight("start") \/ Replied(r)

(* While the page hears r, what it shows changes with the clicks. *)
LEMMA HudKept ==
  ASSUME PageInv, Joined, Newborn, Refused, [Next]_vars, Fine',
         NEW r \in RunIds, sockets[r].state = "open", sockets'[r].state = "open",
         ~Deliver(r), ~Spawned(r)
  PROVE  Pending(r)' \/ Left \/ (hud' = hud /\ run' = run /\ ~Pending(r))
<1> DEFINE Goal == Pending(r)' \/ Left \/ (hud' = hud /\ run' = run /\ ~Pending(r))
<1>1. PageInv'
  BY PageStep
<1>2. r = ws /\ r = ws'
  BY <1>1 DEF PageInv, SocketInv, OneSocket
<1>3. ~PanelHears
  BY <1>2 DEF PanelHears, Deliver, PageInv, SocketInv, OneSocket
<1>4. ~PanelTakes
  <2>1. ASSUME NEW c \in calls, Answered(c), c.kind = "start", StartAnswered(c), ~c.gone
        PROVE  FALSE
    <3>1. Begins(c) /\ ws' = c.run
      BY <2>1 DEF Answered, Begins, StartAnswered
    <3>2. QED
      BY <1>2, <3>1 DEF Newborn
  <2>2. QED
    BY <2>1 DEF PanelTakes
<1>5. CASE PanelStarts
  <2>1. Call("start", wf) \in calls'
    BY <1>5 DEF PanelStarts, Start
  <2>2. QED
    BY <2>1 DEF Pending, InFlight, Call
<1>6. CASE PanelReplies
  <2>1. run = r
    BY <1>2, <1>6 DEF PanelReplies, Reply, Joined
  <2>2. clicks' \in Nat /\ wf \in Workflows \cup {None} /\ "reply" \in Kinds
    BY <1>6 DEF PanelReplies, Reply, OnPage, Click, PageInv, Types, TypeOK, Kinds
  <2> DEFINE c == Call("reply", wf)
             d == [c EXCEPT !.run = run, !.asked = asker]
  <2>3. c \in CallType /\ c.kind = "reply" /\ c.at = "sent" /\ ~c.gone
    BY <2>2, NewCall
  <2>4. d \in calls'
    BY <1>6 DEF PanelReplies, Reply
  <2> HIDE DEF c
  <2>5. d.kind = "reply" /\ d.at = "sent" /\ ~d.gone /\ d.run = r
    BY <2>1, <2>3 DEF CallType
  <2> HIDE DEF d
  <2>6. QED
    BY <2>4, <2>5 DEF Pending, Replied
<1>7. ASSUME hud' = hud, run' = run PROVE Goal
  <2>1. CASE InFlight("start")
    BY <1>4, <2>1, StartKept DEF Pending, Left, Fine
  <2>2. CASE Replied(r)
    BY <2>2, ReplyKept DEF Pending, Left, Fine
  <2>3. QED
    BY <1>7, <2>1, <2>2 DEF Pending
<1>8. CASE PanelLeft
  BY <1>8 DEF PanelLeft, Left
<1>9. CASE PanelSame
  BY <1>7, <1>9 DEF PanelSame, panel
<1>10. CASE PanelJoins
  BY <1>4, <1>7, <1>10 DEF PanelJoins, PanelTakes, StartAnswered
<1>11. QED
  BY <1>3, <1>5, <1>6, <1>8, <1>9, <1>10, PanelStep

(* What the server and the page make of the open socket of a run that is there. *)
LEMMA HearMoves ==
  ASSUME PageInv, NEW r \in RunIds, Hear(r), runs[r].status # "absent"
  PROVE  /\ sockets[r].state = "open" /\ sockets'[r].state = "open"
         /\ sockets'[r].phase # "accepted" /\ sockets'[r].told = sockets[r].told
         /\ UNCHANGED <<run, ws, calls>>
         /\ \/ sockets'[r].queue = sockets[r].queue /\ UNCHANGED hud
            \/ /\ sockets[r].queue \in Queues /\ sockets[r].queue # <<>>
               /\ sockets'[r].queue = Tail(sockets[r].queue)
               /\ hud' = Shows[Head(sockets[r].queue)]
<1> DEFINE s == sockets[r]
<1> USE DEF page, panel
<1>1. sockets \in Sockets
  BY DEF PageInv, SocketInv
<1>2. s \in SocketType /\ s.queue \in Queues
  BY <1>1, SocketIs DEF Sockets
<1>3. CASE Replay(r)
  <2> DEFINE q == IF runs[r].status = "absent" THEN <<>> ELSE s.queue
             d == [s EXCEPT !.phase = "replayed", !.queue = q]
  <2>1. q = s.queue /\ q \in Queues
    BY <1>2
  <2>2. sockets' = [sockets EXCEPT ![r] = d]
    BY <1>1, <1>3 DEF Replay, Sockets
  <2> HIDE DEF q, s
  <2>3. d.state = s.state /\ d.told = s.told /\ d.queue = q /\ d.phase = "replayed"
    <3>1. "replayed" \in Phases
      BY DEF Phases
    <3>2. ASSUME NEW x \in SocketType, NEW p \in Phases, NEW y \in Queues
          PROVE  LET z == [x EXCEPT !.phase = p, !.queue = y]
                 IN  z.state = x.state /\ z.phase = p /\ z.queue = y /\ z.told = x.told
      BY Phased, SocketIs
    <3>3. QED
      BY <1>2, <2>1, <3>1, <3>2
  <2> HIDE DEF d
  <2>4. sockets'[r] = d
    BY <1>1, <2>2 DEF Sockets
  <2>5. QED
    BY <1>3, <2>1, <2>3, <2>4 DEF Replay, s
<1>4. CASE Subscribe(r)
  <2> DEFINE d == [s EXCEPT !.phase = "live"]
  <2>1. sockets'[r] = d
    BY <1>1, <1>4 DEF Subscribe, Sockets
  <2>2. d.state = s.state /\ d.told = s.told /\ d.queue = s.queue /\ d.phase = "live"
    BY <1>2, Subscribed DEF Phases
  <2> HIDE DEF d
  <2>3. QED
    BY <1>4, <2>1, <2>2 DEF Subscribe
<1>5. CASE Deliver(r)
  <2> DEFINE q == Tail(s.queue)
             d == [s EXCEPT !.queue = q]
  <2>0. s.queue # <<>>
    BY <1>5 DEF Deliver
  <2>1. q \in Queues
    BY <1>2, <2>0, QueueTaken
  <2>2. sockets'[r] = d
    BY <1>1, <1>5 DEF Deliver, Sockets
  <2> HIDE DEF q
  <2>3. d.state = s.state /\ d.told = s.told /\ d.queue = q /\ d.phase = s.phase
    BY <1>2, <2>1, Taken
  <2> HIDE DEF d
  <2>4. QED
    BY <1>2, <1>5, <2>0, <2>2, <2>3 DEF Deliver, q
<1>6. QED
  BY <1>3, <1>4, <1>5 DEF Hear

-----------------------------------------------------------------------------
(* What the executions of a run have told.                                 *)

\* It has settled its run, and is about to tell.
Settling(e) == execs[e].at \in {"tells", "logged"} /\ execs[e].event # "usage"

\* It has settled its run and logged that.
Through(e) == execs[e].at = "replies" \/ (execs[e].at = "logged" /\ execs[e].event # "usage")

\* Nothing more of r will be logged, except that a callback fails.
Quiet(r) == \A e \in ExecIds : execs[e].run = r => Through(e)

\* What an execution is about to tell is what it made of the row, if it is the only one.
Truth ==
  Fine => \A r \in RunIds \ doubled : \A e \in ExecIds :
    runs[r].wf # None /\ execs[e].run = r /\ Settling(e) => runs[r].status = Leaves[execs[e].event]

(* An execution of a run that is there, once it is quiet again. *)
LEMMA WorksMoves ==
  ASSUME PageInv, NEW r \in RunIds, runs[r].status # "absent",
         NEW e \in ExecIds, execs[e].run = r, Execute(e), Quiet(r)'
  PROVE  /\ UNCHANGED <<page, ws, calls>>
         /\ runs'[r] = runs[r]
         /\ \/ sockets'[r] = sockets[r] /\ Quiet(r)
            \/ sockets'[r].state \notin {"none", "open"}
            \/ sockets'[r].told = FALSE
            \/ /\ Settling(e) /\ sockets'[r].state = sockets[r].state
               /\ sockets'[r].queue # <<>> /\ Last(sockets'[r].queue) = execs[e].event
<1> DEFINE Goal ==
      /\ runs'[r] = runs[r]
      /\ \/ sockets'[r] = sockets[r] /\ Quiet(r)
         \/ sockets'[r].state \notin {"none", "open"}
         \/ sockets'[r].told = FALSE
         \/ /\ Settling(e) /\ sockets'[r].state = sockets[r].state
            /\ sockets'[r].queue # <<>> /\ Last(sockets'[r].queue) = execs[e].event
<1>0. UNCHANGED <<page, ws, calls>>
  BY DEF Execute
<1>1. ExecInv /\ sockets \in Sockets /\ sockets[r].queue \in Queues
  BY TypesExec, SocketIs DEF PageInv, SocketInv, Sockets
<1>2. \A d \in ExecIds : d # e => execs'[d] = execs[d]
  BY <1>1, ExecuteOne
<1>3. execs'[e].run = r => Through(e)'
  BY DEF Quiet
<1>4. Through(e) => Quiet(r)
  BY <1>2 DEF Quiet, Through
<1>5. Gone(e) <=> FALSE
  BY DEF Gone
<1>6. ASSUME execs[e].event \in Events, UNCHANGED runs, Settling(e),
             sockets' = Puts(r, execs[e].event)
      PROVE  Goal
  BY ZenonT(60), <1>1, <1>6, PutsOne, QueuePut
<1>7. ASSUME UNCHANGED runs, sockets' = Misses(r) PROVE Goal
  BY <1>1, <1>7, MissesOne
<1>8. ASSUME UNCHANGED runs, sockets' = sockets, Through(e) PROVE Goal
  BY <1>4, <1>8
<1>9. CASE Begin(e)
  <2>1. Goes(e, "works", "none")
    BY <1>9 DEF Begin
  <2>2. QED
    BY <1>1, <1>3, <2>1, GoesOn DEF Through, ExecInv
<1>10. CASE Use(e)
  <2>1. Goes(e, "tells", "usage")
    BY <1>10 DEF Use
  <2>2. QED
    BY <1>1, <1>3, <2>1, GoesOn, EventNames DEF Through, ExecInv
<1>11. CASE Settle(e)
  <2>1. PICK event \in DOMAIN Leaves : Goes(e, "tells", event)
    BY <1>11 DEF Settle
  <2>2. event \in Events
    BY <2>1, EventNames
  <2>3. QED
    BY <1>1, <1>3, <2>1, <2>2, GoesOn DEF Through, ExecInv
<1>12. CASE Log(e)
  <2>1. Goes(e, "logged", execs[e].event) /\ execs[e].at = "tells" /\ UNCHANGED runs
    BY <1>12, Zenon DEF Log
  <2>2. execs[e].event \in Events
    BY <1>1, <2>1 DEF ExecInv, Speaks
  <2>3. execs[e].event # "usage"
    BY <1>1, <1>3, <2>1, <2>2, GoesOn DEF Through, ExecInv
  <2>4. \/ sockets' = sockets /\ sockets[r].state \notin {"none", "open"}
        \/ sockets' = Puts(r, execs[e].event)
        \/ sockets' = Misses(r)
    BY <1>12, Zenon DEF Log
  <2>5. QED
    BY <1>0, <1>6, <1>7, <2>1, <2>2, <2>3, <2>4 DEF Settling
<1>13. ASSUME After(e), execs[e].at = "logged" PROVE execs[e].event \in Events /\ Through(e)
  <2>1. execs[e].event \in Events
    BY <1>1, <1>13 DEF ExecInv, Speaks
  <2>2. execs[e].event # "usage"
    BY <1>1, <1>3, <1>13, AfterIs DEF Through, ExecInv
  <2>3. QED
    BY <1>13, <2>1, <2>2 DEF Through
<1>14. CASE Publish(e)
  <2>1. /\ execs[e].at = "logged" /\ After(e) /\ UNCHANGED runs
        /\ sockets' = Puts(r, execs[e].event) \/ sockets' = sockets
    BY <1>14, Zenon DEF Publish
  <2>2. execs[e].event \in Events /\ Through(e)
    BY <1>13, <2>1
  <2>3. QED
    BY <1>0, <1>6, <1>8, <2>1, <2>2 DEF Settling, Through
<1>15. CASE Swallow(e)
  <2>1. /\ After(e) /\ UNCHANGED runs
        /\ sockets' = Misses(r) \/ (execs[e].at = "logged" /\ sockets' = sockets)
    BY <1>15, Zenon DEF Swallow
  <2>2. QED
    BY <1>0, <1>7, <1>8, <1>13, <2>1
<1>16. CASE CallBack(e)
  <2>1. execs[e].at = "replies" /\ sockets' = sockets
    BY <1>16 DEF CallBack
  <2>2. CASE UNCHANGED runs
    BY <1>0, <1>8, <2>1, <2>2 DEF Through
  <2>3. CASE Goes(e, "tells", "error")
    BY <1>1, <1>3, <2>3, GoesOn, EventNames DEF Through, ExecInv
  <2>4. QED
    BY <1>16, <2>2, <2>3 DEF CallBack
<1>17. Goal
  BY <1>9, <1>10, <1>11, <1>12, <1>14, <1>15, <1>16, Zenon DEF Execute
<1>18. QED
  BY <1>0, <1>17

LEMMA TruthStep == PageInv /\ Alive /\ OneExec /\ Truth /\ [Next]_vars => Truth'
<1> SUFFICES ASSUME PageInv, Alive, OneExec, Truth, [Next]_vars, Fine',
                    NEW r \in RunIds, r \notin doubled', NEW e \in ExecIds,
                    runs'[r].wf # None, execs'[e].run = r, Settling(e)'
             PROVE  runs'[r].status = Leaves[execs'[e].event]
  BY DEF Truth
<1>1. Fine /\ r \notin doubled
  BY UpsetsGrow, WorkStep DEF Fine
<1>2. CASE Same(r)
  BY <1>1, <1>2 DEF Same, SameExecs, Truth, Settling
<1>3. ~Spawned(r)
  BY DEF Spawned, Settling
<1>4. ASSUME NEW x \in ExecIds, execs[x].run = r, Execute(x)
      PROVE  runs'[r].status = Leaves[execs'[e].event]
  <2>1. ExecInv /\ runs \in [RunIds -> RunType]
    BY TypesExec DEF PageInv, Types
  <2>2. e = x
    <3>1. e # x => execs'[e] = execs[e]
      BY <1>4, <2>1, ExecuteOne
    <3>2. QED
      BY <1>1, <1>4, <3>1 DEF OneExec
  <2>3. runs[r].wf # None /\ runs[r].status # "absent"
    BY <1>1, <1>4, <2>1, WritesOne DEF Alive
  <2>4. execs'[e].at \in {"tells", "logged"} /\ execs'[e].event # "usage"
    BY DEF Settling
  <2>5. ASSUME NEW s \in Statuses, runs' = Written(r, s) PROVE runs'[r].status = s
    BY <2>1, <2>3, <2>5, WrittenType
  <2>6. CASE Begin(x)
    <3>1. Goes(x, "works", "none")
      BY <2>6 DEF Begin
    <3>2. QED
      BY <2>1, <2>2, <2>4, <3>1, GoesOn DEF ExecInv
  <2>7. CASE Use(x)
    <3>1. Goes(x, "tells", "usage")
      BY <2>7 DEF Use
    <3>2. QED
      BY <2>1, <2>2, <2>4, <3>1, GoesOn, EventNames DEF ExecInv
  <2>8. CASE Settle(x)
    <3>1. PICK event \in DOMAIN Leaves :
            Goes(x, "tells", event) /\ runs' = Written(r, Leaves[event])
      BY <1>4, <2>8 DEF Settle
    <3>2. execs'[x].event = event
      BY <2>1, <3>1, GoesOn, EventNames DEF ExecInv
    <3>3. Leaves[event] \in Statuses
      BY <3>1, LeavesType
    <3>4. QED
      BY <2>2, <2>5, <3>1, <3>2, <3>3
  <2>9. CASE Log(x)
    <3>1. Goes(x, "logged", execs[x].event) /\ execs[x].at = "tells" /\ UNCHANGED runs
      BY <2>9, Zenon DEF Log
    <3>2. execs[x].event \in Events
      BY <2>1, <3>1 DEF ExecInv, Speaks
    <3>3. execs'[x].event = execs[x].event
      BY <2>1, <3>1, <3>2, GoesOn DEF ExecInv
    <3>4. QED
      BY <1>1, <1>4, <2>2, <2>3, <2>4, <3>1, <3>3 DEF Truth, Settling
  <2>10. CASE Publish(x) \/ Swallow(x)
    <3>1. After(x)
      BY <2>10, Zenon DEF Publish, Swallow
    <3>2. QED
      BY <2>1, <2>2, <2>4, <3>1, AfterIs DEF ExecInv
  <2>11. CASE CallBack(x)
    <3>1. CASE execs' = [execs EXCEPT ![x] = Idle]
      BY <2>1, <2>2, <2>4, <3>1, Ending DEF ExecInv
    <3>2. CASE Goes(x, "tells", "error") /\ runs' = Written(r, "failed")
      <4>1. execs'[x].event = "error"
        BY <2>1, <3>2, GoesOn, EventNames DEF ExecInv
      <4>2. runs'[r].status = "failed"
        BY <2>5, <3>2 DEF Statuses
      <4>3. QED
        BY <2>2, <4>1, <4>2 DEF Leaves
    <3>3. QED
      BY <1>4, <2>11, <3>1, <3>2 DEF CallBack
  <2>12. QED
    BY <1>4, <2>6, <2>7, <2>8, <2>9, <2>10, <2>11, Zenon DEF Execute
<1>5. QED
  BY <1>2, <1>3, <1>4, WorkStep DEF Works, Deleted, Fine

-----------------------------------------------------------------------------
(* What the panel shows of a run that has told everything.                 *)

\* The page hears r or will, and r has nothing to tell that is not on its way.
Heard(r) ==
  /\ runs[r].wf # None /\ Quiet(r)
  /\ sockets[r].state \in {"none", "open"} /\ sockets[r].told

\* What is on its way, and what is shown, stay in a step.
Keeps(r) ==
  /\ sockets'[r].queue = sockets[r].queue
  /\ sockets[r].state = "open" =>
       /\ sockets'[r].state = "open"
       /\ sockets[r].phase # "accepted" => sockets'[r].phase # "accepted"
       /\ Pending(r)' \/ Left \/ (hud' = hud /\ run' = run /\ ~Pending(r))

\* The page is told the next event.
TakesNext(r) ==
  /\ sockets[r].queue \in Queues /\ sockets[r].queue # <<>>
  /\ sockets'[r].queue = Tail(sockets[r].queue)
  /\ sockets'[r].state = "open" /\ sockets'[r].phase # "accepted"
  /\ hud' = Shows[Head(sockets[r].queue)]

\* An event that settles r is on its way.
Tells(r) ==
  /\ runs[r].wf # None
  /\ sockets'[r].queue # <<>>
  /\ \E e \in ExecIds : /\ execs[e].run = r /\ Settling(e)
                        /\ Last(sockets'[r].queue) = execs[e].event

LEMMA HeardStep ==
  ASSUME PageInv, Joined, Newborn, Fresh, Alive, Refused, [Next]_vars, Fine',
         NEW r \in RunIds, Heard(r)'
  PROVE  runs'[r] = runs[r] /\ (Tells(r) \/ (Heard(r) /\ (Keeps(r) \/ TakesNext(r))))
<1> DEFINE Goal == runs'[r] = runs[r] /\ (Tells(r) \/ (Heard(r) /\ (Keeps(r) \/ TakesNext(r))))
<1>1. Fine /\ ExecInv /\ runs \in [RunIds -> RunType]
  BY UpsetsGrow, TypesExec DEF Fine, PageInv, Types
<1>2. ~Spawned(r)
  BY DEF Spawned, Heard, Quiet, Through
<1>3. ASSUME UNCHANGED <<hud, run, calls>>
      PROVE  Pending(r)' \/ (hud' = hud /\ run' = run /\ ~Pending(r))
  BY <1>3 DEF Pending, InFlight, Replied
<1>4. ASSUME NEW e \in ExecIds, execs[e].run = r, Execute(e) PROVE Goal
  <2>1. runs[r].wf # None /\ runs[r].status # "absent"
    BY <1>1, <1>4, WritesOne DEF Heard, Alive
  <2>2. /\ UNCHANGED <<page, calls>>
        /\ runs'[r] = runs[r]
        /\ \/ sockets'[r] = sockets[r] /\ Quiet(r)
           \/ sockets'[r].state \notin {"none", "open"}
           \/ sockets'[r].told = FALSE
           \/ /\ Settling(e)
              /\ sockets'[r].queue # <<>> /\ Last(sockets'[r].queue) = execs[e].event
    BY <1>4, <2>1, WorksMoves DEF Heard
  <2>3. CASE sockets'[r] = sockets[r] /\ Quiet(r)
    <3>1. Heard(r)
      BY <2>1, <2>3 DEF Heard
    <3>2. Keeps(r)
      BY <1>3, <2>2, <2>3 DEF Keeps, page, panel
    <3>3. QED
      BY <2>2, <3>1, <3>2
  <2>4. CASE /\ Settling(e)
             /\ sockets'[r].queue # <<>> /\ Last(sockets'[r].queue) = execs[e].event
    BY <1>4, <2>1, <2>2, <2>4 DEF Tells
  <2>5. QED
    BY <2>2, <2>3, <2>4 DEF Heard
<1>5. ASSUME Same(r), Hear(r) PROVE Goal
  <2>1. runs[r].wf # None /\ Quiet(r) /\ runs'[r] = runs[r]
    BY <1>5 DEF Same, SameExecs, Heard, Quiet, Through
  <2>2. runs[r].status # "absent"
    BY <1>1, <2>1 DEF Alive
  <2>3. /\ sockets[r].state = "open" /\ sockets'[r].state = "open"
        /\ sockets'[r].phase # "accepted" /\ sockets'[r].told = sockets[r].told
        /\ UNCHANGED <<run, ws, calls>>
        /\ \/ sockets'[r].queue = sockets[r].queue /\ UNCHANGED hud
           \/ /\ sockets[r].queue \in Queues /\ sockets[r].queue # <<>>
              /\ sockets'[r].queue = Tail(sockets[r].queue)
              /\ hud' = Shows[Head(sockets[r].queue)]
    BY <1>5, <2>2, HearMoves
  <2>4. Heard(r)
    BY <2>1, <2>3 DEF Heard
  <2>5. QED
    BY <1>3, <2>1, <2>3, <2>4 DEF Keeps, TakesNext
<1>6. ASSUME Same(r), ~Hear(r), ~Works(r) PROVE Goal
  <2>1. runs[r].wf # None /\ Quiet(r) /\ runs'[r] = runs[r]
    BY <1>6 DEF Same, SameExecs, Heard, Quiet, Through
  <2>2. CASE sockets'[r] = sockets[r]
    <3>1. Heard(r)
      BY <2>1, <2>2 DEF Heard
    <3>2. ~Deliver(r)
      BY <1>6 DEF Hear
    <3>3. Keeps(r)
      BY <1>2, <2>2, <3>2, HudKept DEF Keeps
    <3>4. QED
      BY <2>1, <3>1, <3>3
  <2>3. CASE Takes(r)
    <3>1. sockets[r].state = "none"
      BY <2>3 DEF Takes, Fresh, Begins, Answered
    <3>2. Heard(r) /\ Keeps(r)
      BY <2>1, <2>3, <3>1 DEF Takes, Heard, Keeps
    <3>3. QED
      BY <2>1, <3>2
  <2>4. QED
    BY <1>6, <2>2, <2>3, SocketMove DEF Leaks, Closes, Heard
<1>7. CASE Works(r)
  BY <1>4, <1>7, Zenon DEF Works
<1>8. CASE Same(r) /\ ~Works(r)
  BY <1>5, <1>6, <1>8
<1>9. ~Deleted(r)
  BY DEF Deleted, Fine
<1>10. QED
  BY <1>2, <1>7, <1>8, <1>9, WorkStep

\* Only what settles a run is the last it tells, and it is what its row says; when there
\* is nothing on its way, the panel shows it.
Said ==
  Fine => \A r \in RunIds \ doubled : Heard(r) =>
    LET s == sockets[r] IN
    IF s.queue # <<>>
    THEN Last(s.queue) # "usage" /\ runs[r].status = Leaves[Last(s.queue)]
    ELSE /\ s.state = "open" /\ s.phase # "accepted"
         /\ r = run => hud = runs[r].status \/ Pending(r)

LEMMA SaidStep ==
  PageInv /\ Joined /\ Newborn /\ Fresh /\ Alive /\ Refused /\ Truth /\ Said /\ [Next]_vars => Said'
<1> SUFFICES ASSUME PageInv, Joined, Newborn, Fresh, Alive, Refused, Truth, Said, [Next]_vars,
                    Fine', NEW r \in RunIds, r \notin doubled', Heard(r)'
             PROVE  IF sockets'[r].queue # <<>>
                    THEN /\ Last(sockets'[r].queue) # "usage"
                         /\ runs'[r].status = Leaves[Last(sockets'[r].queue)]
                    ELSE /\ sockets'[r].state = "open" /\ sockets'[r].phase # "accepted"
                         /\ r = run' => hud' = runs'[r].status \/ Pending(r)'
  BY DEF Said
<1>1. Fine /\ r \notin doubled
  BY UpsetsGrow, WorkStep DEF Fine
<1>2. runs'[r] = runs[r] /\ (Tells(r) \/ (Heard(r) /\ (Keeps(r) \/ TakesNext(r))))
  BY HeardStep
<1>3. CASE Tells(r)
  BY <1>1, <1>2, <1>3 DEF Tells, Truth, Settling
<1>4. CASE Heard(r) /\ Keeps(r)
  <2>1. CASE sockets[r].queue # <<>>
    BY <1>1, <1>2, <1>4, <2>1 DEF Said, Keeps
  <2>2. CASE sockets[r].queue = <<>>
    <3>1. /\ sockets[r].state = "open" /\ sockets[r].phase # "accepted"
          /\ r = run => hud = runs[r].status \/ Pending(r)
      BY <1>1, <1>4, <2>2 DEF Said
    <3>2. r # 0
      BY DEF RunIds
    <3>3. QED
      BY <1>2, <1>4, <2>2, <3>1, <3>2 DEF Keeps, Left
  <2>3. QED
    BY <2>1, <2>2
<1>5. CASE Heard(r) /\ TakesNext(r)
  <2> DEFINE q == sockets[r].queue
  <2>1. q \in Queues /\ q # <<>> /\ sockets'[r].queue = Tail(q)
    BY <1>5 DEF TakesNext
  <2>2. Last(q) # "usage" /\ runs[r].status = Leaves[Last(q)]
    BY <1>1, <1>5, <2>1 DEF Said
  <2> HIDE DEF q
  <2>3. CASE Tail(q) # <<>>
    BY <1>2, <2>1, <2>2, <2>3, QueueTaken
  <2>4. CASE Tail(q) = <<>>
    <3>1. Head(q) = Last(q) /\ Head(q) \in Events
      BY <2>1, <2>4, QueueTaken
    <3>2. Shows[Head(q)] = Leaves[Last(q)]
      BY <2>2, <3>1, EventNames DEF Shows, Leaves
    <3>3. hud' = runs'[r].status
      BY <1>2, <1>5, <2>2, <3>2 DEF TakesNext, q
    <3>4. QED
      BY <1>5, <2>1, <2>4, <3>3 DEF TakesNext
  <2>5. QED
    BY <2>3, <2>4
<1>6. QED
  BY <1>2, <1>3, <1>4, <1>5

\* What the panel rests on, for every run and every step.
PanelInv == Joined /\ Refused /\ Newborn /\ Fresh /\ Alive /\ OneExec /\ Truth

LEMMA PanelInit == Init => PanelInv
<1> SUFFICES ASSUME Init PROVE PanelInv
  OBVIOUS
<1>1. Joined /\ Refused /\ Newborn /\ Fresh /\ Alive
  BY NoSocketIs DEF Init, Joined, Refused, Newborn, Fresh, Alive, NoRun, Begins
<1>2. Idle.at = "idle" /\ Idle.run = 0
  BY DEF Idle
<1>3. \A e \in ExecIds : execs[e] = Idle
  BY DEF Init
<1>4. OneExec /\ Truth
  BY <1>2, <1>3 DEF OneExec, Truth, Settling, RunIds
<1>5. QED
  BY <1>1, <1>4 DEF PanelInv

LEMMA PanelKeeps == PageInv /\ PanelInv /\ [Next]_vars => PanelInv'
  BY JoinedStep, RefusedStep, NewbornStep, FreshStep, AliveStep, OneExecStep, TruthStep
  DEF PanelInv

\* When nothing of the run of the panel is under way and its socket was told the last of
\* its events, the panel shows the status of its row (the handlers of
\* WorkflowBuilder.tsx:326-334), for any clicks, runs, answers and executions, unless two
\* of those overlapped.
THEOREM PanelShowsTheRun == Spec => []PanelSettles
<1>1. Init => Said
  <2>1. Init => \A r \in RunIds : runs[r].wf = None
    <3>1. Init => \A r \in RunIds : runs[r] = NoRun
      BY DEF Init
    <3>2. NoRun.wf = None
      BY DEF NoRun
    <3>3. QED
      BY <3>1, <3>2
  <2>2. QED
    BY <2>1 DEF Said, Heard
<1>2. PageInv /\ PanelInv /\ Said /\ [Next]_vars => Said'
  BY SaidStep DEF PanelInv
<1>3. PageInv /\ PanelInv /\ Said => PanelSettles
  <2> SUFFICES ASSUME PageInv, PanelInv, Said, run # 0, "failed" \notin upsets,
                      ~InFlight("start"), ~InFlight("reply"), ~Busy(run),
                      sockets[run].state = "open", sockets[run].queue = <<>>,
                      sockets[run].told, run \notin doubled
               PROVE  hud = runs[run].status
    BY DEF PanelSettles
  <2>1. run \in RunIds /\ runs[run].wf # None
    BY DEF PageInv, Types, TypeOK, PanelInv, Joined, Newborn
  <2>2. Heard(run)
    BY <2>1 DEF Heard, Quiet, Busy
  <2>3. ~Pending(run)
    BY DEF Pending, Replied, InFlight
  <2>4. QED
    BY <2>1, <2>2, <2>3 DEF Said, Fine
<1>4. QED
  BY <1>1, <1>2, <1>3, PageInit, PageStep, PanelInit, PanelKeeps, PTL DEF Spec

-----------------------------------------------------------------------------
(* What takes the status back while the Run button is disabled.            *)

\* The last thing a run tells is not that it used tokens; and when that was told, the
\* panel does not show running, unless it was clicked again.
More ==
  Fine => \A r \in RunIds : Heard(r) =>
    LET s == sockets[r] IN
    IF s.queue # <<>>
    THEN Last(s.queue) # "usage"
    ELSE s.state = "open" /\ (hud # "running" \/ Pending(r))

LEMMA MoreStep ==
  PageInv /\ Joined /\ Newborn /\ Fresh /\ Alive /\ Refused /\ More /\ [Next]_vars => More'
<1> SUFFICES ASSUME PageInv, Joined, Newborn, Fresh, Alive, Refused, More, [Next]_vars,
                    Fine', NEW r \in RunIds, Heard(r)'
             PROVE  IF sockets'[r].queue # <<>>
                    THEN Last(sockets'[r].queue) # "usage"
                    ELSE /\ sockets'[r].state = "open"
                         /\ hud' # "running" \/ Pending(r)'
  BY DEF More
<1>1. Fine
  BY UpsetsGrow DEF Fine
<1>2. Tells(r) \/ (Heard(r) /\ (Keeps(r) \/ TakesNext(r)))
  BY HeardStep
<1>3. CASE Tells(r)
  BY <1>3 DEF Tells, Settling
<1>4. CASE Heard(r) /\ Keeps(r)
  <2>1. CASE sockets[r].queue # <<>>
    BY <1>1, <1>4, <2>1 DEF More, Keeps
  <2>2. CASE sockets[r].queue = <<>>
    <3>1. sockets[r].state = "open" /\ (hud # "running" \/ Pending(r))
      BY <1>1, <1>4, <2>2 DEF More
    <3>2. QED
      BY <1>4, <2>2, <3>1 DEF Keeps, Left
  <2>3. QED
    BY <2>1, <2>2
<1>5. CASE Heard(r) /\ TakesNext(r)
  <2> DEFINE q == sockets[r].queue
  <2>1. q \in Queues /\ q # <<>> /\ sockets'[r].queue = Tail(q)
    BY <1>5 DEF TakesNext
  <2>2. Last(q) # "usage"
    BY <1>1, <1>5, <2>1 DEF More
  <2> HIDE DEF q
  <2>3. CASE Tail(q) # <<>>
    BY <2>1, <2>2, <2>3, QueueTaken
  <2>4. CASE Tail(q) = <<>>
    <3>1. Head(q) = Last(q) /\ Head(q) \in Events
      BY <2>1, <2>4, QueueTaken
    <3>2. Shows[Head(q)] # "running"
      BY <2>2, <3>1, EventNames DEF Shows
    <3>3. QED
      BY <1>5, <2>1, <2>4, <3>2 DEF TakesNext, q
  <2>5. QED
    BY <2>3, <2>4
<1>6. QED
  BY <1>2, <1>3, <1>4, <1>5

\* The page has the socket of its run.
Connected == ws # 0 /\ sockets[ws].state = "open"

LEMMA TakesConnects ==
  ASSUME PageInv, Newborn, PanelTakes
  PROVE  Connected'
<1>1. PICK c \in calls : Answered(c) /\ c.kind = "start" /\ StartAnswered(c) /\ ~c.gone
  BY DEF PanelTakes
<1>2. c.run \in RunIds
  BY <1>1 DEF Answered, Newborn, Begins
<1>3. sockets'[c.run].state = "open" /\ ws' = c.run
  <2>1. SocketInv /\ ws' = c.run
    BY <1>1 DEF PageInv, StartAnswered
  <2>2. sockets'[c.run].state = IF c.gone THEN "leaked" ELSE "open"
    BY <1>1, <1>2, <2>1, Opens
  <2>3. QED
    BY <1>1, <2>1, <2>2
<1>4. QED
  BY <1>2, <1>3 DEF Connected, RunIds

LEMMA StaysConnected ==
  ASSUME PageInv, Newborn, [Next]_vars, Fine', Connected
  PROVE  Left \/ InFlight("load")' \/ Connected'
<1>1. ws \in RunIds /\ sockets \in Sockets /\ ExecInv
  BY TypesExec DEF PageInv, SocketInv, Types, TypeOK, Connected
<1>2. CASE PanelTakes
  BY <1>2, TakesConnects
<1>3. CASE ~PanelTakes
  <2>1. Left \/ ws' = ws
    BY <1>3, PanelStep
    DEF PanelSame, PanelLeft, Left, PanelStarts, PanelReplies, PanelJoins, PanelTakes,
        StartAnswered, PanelHears, Deliver
  <2>2. ~Takes(ws) /\ ~Leaks(ws)
    BY DEF Takes, Leaks, Newborn, Begins, Answered
  <2>3. CASE Hear(ws) \/ Works(ws)
    <3>1. sockets'[ws].state = sockets[ws].state
      BY <1>1, <2>3, HearsOne, ExecuteTells DEF Works
    <3>2. QED
      BY <2>1, <3>1 DEF Connected
  <2>4. CASE sockets'[ws] = sockets[ws]
    BY <2>1, <2>4 DEF Connected
  <2>5. CASE Closes(ws)
    BY <1>3, <2>5 DEF Closes
  <2>6. QED
    BY <1>1, <2>2, <2>3, <2>4, <2>5, SocketMove
<1>4. QED
  BY <1>2, <1>3

\* What the panel shows has a source.
Linked == run # 0 /\ Fine => InFlight("load") \/ Connected

RunningLinked ==
  hud = "running" /\ Fine => InFlight("start") \/ InFlight("load") \/ Connected

LEMMA LinkedStep ==
  PageInv /\ Joined /\ Refused /\ Newborn /\ Linked /\ [Next]_vars => Linked'
<1> SUFFICES ASSUME PageInv, Joined, Refused, Newborn, Linked, [Next]_vars, run' # 0, Fine'
             PROVE  (InFlight("load") \/ Connected)'
  BY DEF Linked
<1>1. Fine
  BY UpsetsGrow DEF Fine
<1>2. CASE PanelTakes
  BY <1>2, TakesConnects
<1>3. CASE ~PanelTakes
  <2>1. run' = run
    BY <1>3, PanelStep
    DEF PanelSame, PanelLeft, PanelStarts, PanelReplies, PanelJoins, PanelTakes,
        StartAnswered, PanelHears, Deliver, panel
  <2>2. CASE InFlight("load")
    BY <2>2, LoadKept DEF Fine
  <2>3. CASE Connected
    BY <2>3, StaysConnected DEF Left
  <2>4. QED
    BY <1>1, <2>1, <2>2, <2>3 DEF Linked
<1>4. QED
  BY <1>2, <1>3

LEMMA RunningLinkedStep ==
  PageInv /\ Joined /\ Refused /\ Newborn /\ Linked /\ RunningLinked /\ [Next]_vars
  => RunningLinked'
<1> SUFFICES ASSUME PageInv, Joined, Refused, Newborn, Linked, RunningLinked, [Next]_vars,
                    hud' = "running", Fine'
             PROVE  (InFlight("start") \/ InFlight("load") \/ Connected)'
  BY DEF RunningLinked
<1>1. Fine
  BY UpsetsGrow DEF Fine
<1>2. CASE PanelTakes
  BY <1>2, TakesConnects
<1>3. ASSUME ~PanelTakes, InFlight("start") \/ InFlight("load") \/ Connected
      PROVE  (InFlight("start") \/ InFlight("load") \/ Connected)'
  <2>1. ~Left
    BY DEF Left
  <2>2. CASE InFlight("start")
    BY <1>3, <2>1, <2>2, StartKept DEF Left, Fine
  <2>3. CASE InFlight("load")
    BY <2>1, <2>3, LoadKept DEF Left, Fine
  <2>4. CASE Connected
    BY <2>1, <2>4, StaysConnected
  <2>5. QED
    BY <1>3, <2>2, <2>3, <2>4
<1>4. CASE PanelStarts
  <2>1. Call("start", wf) \in calls'
    BY <1>4 DEF PanelStarts, Start
  <2>2. QED
    BY <2>1 DEF InFlight, Call
<1>5. CASE PanelReplies /\ ~PanelTakes
  <2>1. run # 0
    BY <1>5 DEF PanelReplies, Reply
  <2>2. QED
    BY <1>1, <1>3, <1>5, <2>1 DEF Linked
<1>6. CASE PanelHears /\ ~PanelTakes
  <2>1. PICK r \in RunIds : sockets[r].state = "open"
    BY <1>6 DEF PanelHears, Deliver
  <2>2. r = ws /\ ws # 0
    BY <2>1 DEF PageInv, SocketInv, OneSocket, RunIds
  <2>3. QED
    BY <1>3, <1>6, <2>1, <2>2 DEF Connected
<1>7. CASE hud' = hud /\ ~PanelTakes
  BY <1>1, <1>3, <1>7 DEF RunningLinked
<1>8. ~PanelLeft
  BY DEF PanelLeft
<1>9. (PanelSame \/ PanelJoins) /\ ~PanelTakes => hud' = hud
  BY DEF PanelSame, panel, PanelJoins, PanelTakes, StartAnswered
<1>10. QED
  BY <1>2, <1>4, <1>5, <1>6, <1>7, <1>8, <1>9, PanelStep

\* The socket of r is open, and there is more to come on it; or there was, and it will
\* not be told.
Feeds(r) ==
  LET s == sockets[r] IN
  /\ r # 0 /\ s.state = "open"
  /\ \/ ~Quiet(r) \/ Replied(r) \/ ~s.told
     \/ s.queue # <<>> /\ Last(s.queue) # "usage"

\* While the panel shows running and nothing has failed, a request is in flight whose
\* answer takes it back, or the socket of its run is open and an event is to come that
\* does: an execution has one to tell, or it is on its way.  Only if the last event of
\* the run was lost on its way to the socket is there nothing to wait for.
DisabledIsOwed ==
  hud = "running" /\ Fine => InFlight("start") \/ InFlight("load") \/ Feeds(ws)

\* What RunButtonReturns rests on: while start's running is shown, something is under way
\* that takes it back (WorkflowBuilder.tsx:298-334), or the event that would was swallowed
\* (executor.py:50-55) or fell in the gap of ws.py:20-25.
THEOREM RunButtonIsOwed == Spec => []DisabledIsOwed
<1>1. Init => More /\ Linked /\ RunningLinked
  <2>1. Init => \A r \in RunIds : runs[r].wf = None
    <3>1. Init => \A r \in RunIds : runs[r] = NoRun
      BY DEF Init
    <3>2. NoRun.wf = None
      BY DEF NoRun
    <3>3. QED
      BY <3>1, <3>2
  <2>2. Init => run = 0 /\ hud = ""
    BY DEF Init
  <2>3. QED
    BY <2>1, <2>2 DEF More, Heard, Linked, RunningLinked
<1>2. PageInv /\ PanelInv /\ More /\ [Next]_vars => More'
  BY MoreStep DEF PanelInv
<1>3. PageInv /\ PanelInv /\ Linked /\ RunningLinked /\ [Next]_vars => Linked' /\ RunningLinked'
  BY LinkedStep, RunningLinkedStep DEF PanelInv
<1>4. PageInv /\ PanelInv /\ More /\ RunningLinked => DisabledIsOwed
  <2> SUFFICES ASSUME PageInv, PanelInv, More, Connected, hud = "running", Fine,
                      ~InFlight("start")
               PROVE  Feeds(ws)
    BY DEF DisabledIsOwed, RunningLinked
  <2>1. ws \in RunIds /\ runs[ws].wf # None
    BY DEF PageInv, Types, TypeOK, PanelInv, Newborn, Connected
  <2>2. Quiet(ws) /\ sockets[ws].told => Heard(ws)
    BY <2>1 DEF Heard, Connected
  <2>3. QED
    BY <2>1, <2>2 DEF More, Feeds, Connected, Pending
<1>5. QED
  BY <1>1, <1>2, <1>3, <1>4, PageInit, PageStep, PanelInit, PanelKeeps, PTL DEF Spec

====
