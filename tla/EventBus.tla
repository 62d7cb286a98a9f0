------------------------------ MODULE EventBus ------------------------------
(***************************************************************************)
(* The monitor of one run: EventBus of backend/app/runtime/events.py, the  *)
(* WebSocket handler of backend/app/api/ws.py and the executions that emit *)
(* (Executor._event).  The bus keeps nothing that two runs share, so one   *)
(* run is the whole system.                                                *)
(*                                                                         *)
(* An event is its row of run_events and is named by its position in the   *)
(* order of commits: event i is the i-th row committed and log[i] its seq. *)
(* emit and the handler are cut at their awaits.  The clock, the types and *)
(* the payloads of events are left out.                                    *)
(***************************************************************************)
EXTENDS Integers, Sequences, FiniteSets, Functions, FiniteSetsExt

CONSTANTS
  Emitters,   \* executions of the run; more than one when resumes overlap
  Sessions,   \* WebSocket handlers; a client that reconnects gets a new one
  MaxEvents,  \* bound of the model: an emission starts below this many rows
  Faults      \* which of the Disturbances below may happen

\* db: a transaction raises; gone: a client goes away; crash: the process stops.
Disturbances == {"db", "gone", "crash"}

ASSUME BusAssumption ==
  /\ MaxEvents \in Nat
  /\ Faults \subseteq Disturbances

VARIABLES
  log,       \* log[i]: seq of the i-th committed row of run_events
  stage,     \* stage[e]: where emitter e is inside emit
  held,      \* held[e]: the maximum it has read, then the event it has stored
  handler,   \* handler[s]: where the handler of session s is
  backlog,   \* backlog[s]: the events of bus.history(...) still to be sent
  subs,      \* sessions whose queue is in bus._subs
  queue,     \* queue[s]: the asyncio.Queue of session s
  client,    \* client[s]: the client of s is still there
  received,  \* history: received[s], the events its client was sent, in order
  untold     \* history: the events whose emission raised after the commit

emitting == <<stage, held, untold>>
serving == <<handler, backlog, subs, queue, client, received>>
vars == <<log, stage, held, handler, backlog, subs, queue, client, received, untold>>

Init ==
  /\ log = <<>>
  /\ stage = [e \in Emitters |-> "idle"]
  /\ held = [e \in Emitters |-> 0]
  /\ handler = [s \in Sessions |-> "none"]
  /\ backlog = [s \in Sessions |-> <<>>]
  /\ subs = {}
  /\ queue = [s \in Sessions |-> <<>>]
  /\ client = [s \in Sessions |-> FALSE]
  /\ received = [s \in Sessions |-> <<>>]
  /\ untold = {}

-----------------------------------------------------------------------------
(* emit.                                                                   *)

\* Mutant of LastSeq: an empty log counts as one event.
LastSeqOrOne == IF log = <<>> THEN 1 ELSE Max(Range(log))

\* select max(seq) where run_id = ..., or 0.
LastSeq == IF log = <<>> THEN 0 ELSE Max(Range(log))

ReadMax(e) ==
  /\ stage[e] = "idle"
  /\ Len(log) < MaxEvents
  /\ stage' = [stage EXCEPT ![e] = "numbered"]
  /\ held' = [held EXCEPT ![e] = LastSeq]
  /\ UNCHANGED <<log, serving, untold>>

\* Mutant of Insert: the commit is forgotten.
InsertUncommitted(e) ==
  /\ stage[e] = "numbered"
  /\ stage' = [stage EXCEPT ![e] = "stored"]
  /\ held' = [held EXCEPT ![e] = Len(log) + 1]
  /\ UNCHANGED <<log, serving, untold>>

\* s.add and s.commit; nothing in the table makes (run_id, seq) unique.
Insert(e) ==
  /\ stage[e] = "numbered"
  /\ log' = Append(log, held[e] + 1)
  /\ stage' = [stage EXCEPT ![e] = "stored"]
  /\ held' = [held EXCEPT ![e] = Len(log')]
  /\ UNCHANGED <<serving, untold>>

\* Mutant of Publish: queues hold one event, and put_nowait on a full one is lost.
PublishBounded(e) ==
  /\ stage[e] = "stored"
  /\ queue' = [s \in Sessions |->
                 IF s \in subs /\ queue[s] = <<>> THEN <<held[e]>> ELSE queue[s]]
  /\ stage' = [stage EXCEPT ![e] = "idle"]
  /\ held' = [held EXCEPT ![e] = 0]
  /\ UNCHANGED <<log, handler, backlog, subs, client, received, untold>>

\* After s.refresh and the close of the session, the envelope goes to the queues
\* subscribed by now, without an await between them.
Publish(e) ==
  /\ stage[e] = "stored"
  /\ queue' = [s \in Sessions |-> IF s \in subs THEN Append(queue[s], held[e]) ELSE queue[s]]
  /\ stage' = [stage EXCEPT ![e] = "idle"]
  /\ held' = [held EXCEPT ![e] = 0]
  /\ UNCHANGED <<log, handler, backlog, subs, client, received, untold>>

\* Executor._event swallows the exception.  One at s.refresh leaves a committed
\* row that nobody is told of.
EmitRaises(e) ==
  /\ "db" \in Faults
  /\ stage[e] # "idle"
  /\ stage' = [stage EXCEPT ![e] = "idle"]
  /\ held' = [held EXCEPT ![e] = 0]
  /\ untold' = untold \cup {i \in {held[e]} : stage[e] = "stored"}
  /\ UNCHANGED <<log, serving>>

Emit(e) == ReadMax(e) \/ Insert(e) \/ Publish(e) \/ EmitRaises(e)

-----------------------------------------------------------------------------
(* ws_run.                                                                 *)

\* Mutant of Connect: the queue is subscribed before the history is read.
ConnectSubscribed(s) ==
  /\ handler[s] = "none"
  /\ handler' = [handler EXCEPT ![s] = "accepted"]
  /\ client' = [client EXCEPT ![s] = TRUE]
  /\ subs' = subs \cup {s}
  /\ UNCHANGED <<log, emitting, backlog, queue, received>>

\* await websocket.accept()
Connect(s) ==
  /\ handler[s] = "none"
  /\ handler' = [handler EXCEPT ![s] = "accepted"]
  /\ client' = [client EXCEPT ![s] = TRUE]
  /\ UNCHANGED <<log, emitting, backlog, subs, queue, received>>

\* The events of the run ordered by seq; SQL leaves the order of equals open.
BySeq == {h \in [1 .. Len(log) -> 1 .. Len(log)] :
            \A i, j \in 1 .. Len(log) : i < j => h[i] # h[j] /\ log[h[i]] <= log[h[j]]}

ReadHistory(s) ==
  /\ handler[s] = "accepted"
  /\ handler' = [handler EXCEPT ![s] = "replaying"]
  /\ \E h \in BySeq : backlog' = [backlog EXCEPT ![s] = h]
  /\ UNCHANGED <<log, emitting, subs, queue, client, received>>

\* websocket.send_json: a client that has gone is noticed, or not yet.
Delivered(s, i) == received' = [received EXCEPT ![s] = IF client[s] THEN Append(@, i) ELSE @]

SendReplay(s) ==
  /\ handler[s] = "replaying"
  /\ backlog[s] # <<>>
  /\ backlog' = [backlog EXCEPT ![s] = Tail(@)]
  /\ Delivered(s, Head(backlog[s]))
  /\ UNCHANGED <<log, emitting, handler, subs, queue, client>>

\* The await before returns and the handler goes on to bus.subscribe and to
\* queue.get without another.
Subscribe(s) ==
  /\ handler[s] = "replaying"
  /\ backlog[s] = <<>>
  /\ handler' = [handler EXCEPT ![s] = "live"]
  /\ subs' = subs \cup {s}
  /\ UNCHANGED <<log, emitting, backlog, queue, client, received>>

Forward(s) ==
  /\ handler[s] = "live"
  /\ queue[s] # <<>>
  /\ queue' = [queue EXCEPT ![s] = Tail(@)]
  /\ Delivered(s, Head(queue[s]))
  /\ UNCHANGED <<log, emitting, handler, backlog, subs, client>>

\* The handler returns; only the live loop has a queue to unsubscribe.
Close(s) ==
  /\ handler' = [handler EXCEPT ![s] = "closed"]
  /\ backlog' = [backlog EXCEPT ![s] = <<>>]
  /\ subs' = subs \ {s}
  /\ queue' = [queue EXCEPT ![s] = <<>>]
  /\ UNCHANGED <<log, emitting, client, received>>

\* A send fails because the client has gone.  Nothing but a send tells.
SendFails(s) ==
  /\ ~client[s]
  /\ \/ handler[s] = "replaying" /\ backlog[s] # <<>>
     \/ handler[s] = "live" /\ queue[s] # <<>>
  /\ Close(s)

HistoryRaises(s) ==
  /\ "db" \in Faults
  /\ handler[s] = "accepted"
  /\ Close(s)

Serve(s) ==
  \/ ReadHistory(s) \/ SendReplay(s) \/ Subscribe(s) \/ Forward(s)
  \/ SendFails(s) \/ HistoryRaises(s)

Leave(s) ==
  /\ "gone" \in Faults
  /\ client[s]
  /\ client' = [client EXCEPT ![s] = FALSE]
  /\ UNCHANGED <<log, emitting, handler, backlog, subs, queue, received>>

-----------------------------------------------------------------------------

\* The process stops and is started again: the rows stay, the tasks, the
\* connections and bus._subs do not.
Crash ==
  /\ "crash" \in Faults
  /\ stage' = [e \in Emitters |-> "idle"]
  /\ held' = [e \in Emitters |-> 0]
  /\ handler' = [s \in Sessions |-> IF handler[s] = "none" THEN "none" ELSE "closed"]
  /\ backlog' = [s \in Sessions |-> <<>>]
  /\ subs' = {}
  /\ queue' = [s \in Sessions |-> <<>>]
  /\ client' = [s \in Sessions |-> FALSE]
  /\ UNCHANGED <<log, received, untold>>

Next ==
  \/ \E e \in Emitters : Emit(e)
  \/ \E s \in Sessions : Connect(s) \/ Serve(s) \/ Leave(s)
  \/ Crash

Spec == Init /\ [][Next]_vars

\* Database calls and sends return or raise, and the event loop runs every ready
\* task.  Nobody need emit, connect or leave.
FairSpec ==
  /\ Spec
  /\ \A e \in Emitters : WF_vars(Insert(e) \/ Publish(e) \/ EmitRaises(e))
  /\ \A s \in Sessions : WF_vars(Serve(s))

-----------------------------------------------------------------------------
(* Properties.                                                             *)

Event == 1 .. Len(log)

\* The values the rows, the local variables and the queues may have.
TypeOK ==
  /\ log \in Seq(Nat)
  /\ stage \in [Emitters -> {"idle", "numbered", "stored"}]
  /\ held \in [Emitters -> Nat]
  /\ handler \in [Sessions -> {"none", "accepted", "replaying", "live", "closed"}]
  /\ backlog \in [Sessions -> Seq(Event)]
  /\ subs \subseteq Sessions
  /\ queue \in [Sessions -> Seq(Event)]
  /\ client \in [Sessions -> BOOLEAN]
  /\ received \in [Sessions -> Seq(Event)]
  /\ untold \subseteq Event

\* One emitter numbers its events 1, 2, 3, ... for ever, although every emission
\* reads the number anew, may fail on either side of its commit, and may be
\* repeated after a restart.
Timeline == INSTANCE RunTimeline WITH timeline <- log
ImplementsTimeline == Timeline!Spec

\* A sequence of events in order, with at most one of them repeated, once.
InOrder(w) == \A k \in 2 .. Len(w) : w[k - 1] <= w[k]
Repeats(w) == {k \in 2 .. Len(w) : w[k - 1] = w[k]}
AtMostOneTwice(w) == InOrder(w) /\ \A j, k \in Repeats(w) : j = k

\* With one emitter a client sees the events in order, and at most one of them
\* twice: the one that was committed but not yet fanned out when the history was
\* read, and still not when the queue was subscribed.
ReceivedInOrder == \A s \in Sessions : AtMostOneTwice(received[s])

\* An event that is stored while a session is subscribed reaches its client, unless
\* the connection ends or its own emission raises before the fan-out: no other
\* failure, no other session and no later event is in its way.
LiveDelivered == \A s \in Sessions, i \in 1 .. MaxEvents :
  (s \in subs /\ \E e \in Emitters : stage[e] = "stored" /\ held[e] = i)
    ~> (i \in Range(received[s]) \cup untold \/ ~client[s] \/ handler[s] = "closed")

\* A handler that has caught up with a run in which nothing is being emitted.
CaughtUp(s) ==
  /\ client[s] /\ handler[s] = "live" /\ queue[s] = <<>>
  /\ \A e \in Emitters : stage[e] = "idle"

\* A client that has caught up has seen every event of the run: "late/reconnecting
\* clients see the full timeline".
FullTimeline == \A s \in Sessions : CaughtUp(s) => Range(received[s]) = 1 .. Len(log)

\* No two events of the run have the same seq ("monotonic per run").
SeqsUnique == \A i, j \in 1 .. Len(log) : log[i] = log[j] => i = j
=============================================================================
