------------------------------ MODULE Executor ------------------------------
(***************************************************************************)
(* The executor of workflow runs: backend/app/runtime/executor.py with the *)
(* callers that start it (api/runs.py, channels/router.py, main.py).       *)
(*                                                                         *)
(* A run is a row of workflow_runs.  An execution is one asyncio task that *)
(* awaits Executor.run or Executor.resume for a run; the span from its     *)
(* start to its return is a segment of the run.  Executions interleave at  *)
(* every await, and each await of a database transaction, of the graph     *)
(* stream and of a reply callback is an action here.  A read-modify-write  *)
(* of the run row is two actions, Load and Commit: session.get and         *)
(* session.commit are separate awaits (executor.py:182-201).               *)
(*                                                                         *)
(* Left out: the text of messages, cost in dollars (checked like tokens),  *)
(* and the node-level monitor events, whose emission touches nothing that  *)
(* is modelled here (module EventBus has the bus itself).  A graph is any  *)
(* sequence of supersteps: after each one LangGraph may go to another      *)
(* node, to a node that interrupts, or to the end.                         *)
(***************************************************************************)
EXTENDS Integers, FiniteSets

CONSTANTS
  Runs,            \* ids of workflow runs
  Execs,           \* asyncio tasks
  MsgTokens,       \* usage_metadata.total_tokens an AI message may report
  Caps,            \* max_tokens an execution may be given; 0 (or None): no cap
  RecursionLimit,  \* supersteps one astream call may take
  MaxSegments,     \* bound of the model: segments per run
  Overlap,         \* TRUE: callers resume a run whenever its row exists
  Faults           \* which of the Disturbances below may happen

\* node: an agent or the graph raises; db: a transaction raises; send: the reply
\* callback raises; crash: the process stops; delete: the workflow is deleted.
Disturbances == {"node", "db", "send", "crash", "delete"}

ASSUME ConstantsAssumption ==
  /\ Runs # {}
  /\ MsgTokens \subseteq Nat
  /\ Caps \subseteq Nat
  /\ RecursionLimit \in Nat \ {0}
  /\ MaxSegments \in Nat
  /\ Overlap \in BOOLEAN
  /\ Faults \subseteq Disturbances

VARIABLES
  row,      \* row[r]: the row of r in workflow_runs
  ledger,   \* ledger[r]: tokens in the rows of messages and usage of run r
  thread,   \* thread[r]: what the last LangGraph checkpoint of r goes to next
  shown,    \* shown[r]: the status the last lifecycle event of r announced
  segments, \* segments[r]: segments of r started so far
  pc,       \* pc[e]: where execution e awaits
  frame,    \* frame[e]: the local variables of execution e
  paused,   \* history: paused[r], tokens of the segments of r that paused
  disturbed \* history: something but the graph has failed, or a row was deleted

db == <<row, ledger, segments, paused>>
vars == <<row, ledger, thread, shown, segments, pc, frame, paused, disturbed>>

Statuses == {"absent", "pending", "running", "waiting_human", "completed", "failed"}

\* Where a checkpoint goes: an ordinary node, a node that interrupts, no node.
Places == {"node", "human", "end"}

\* The writes of the run row: Outcome[p] is the status written at p.
Writes == {"start", "pause", "finish", "overspent", "failure"}
Outcome == [start |-> "running", pause |-> "waiting_human", finish |-> "completed",
            overspent |-> "failed", failure |-> "failed"]

\* Mutant of Finalizing: only a run that completes gets its total.
FinalizingCompleted == {"finish"}

\* The writes made by _finalize, which add to total_tokens; the others are made
\* by _set_status.
Finalizing == {"finish", "overspent", "failure"}

\* The event that follows each write.
EventOf == [start |-> "startEvent", pause |-> "pauseEvent", finish |-> "finishEvent",
            overspent |-> "overspentEvent", failure |-> "failureEvent"]

\* The status an event tells.  Its mutant calls every end a completion.
AnnouncedCompleted == [startEvent |-> "running", pauseEvent |-> "waiting_human",
                       finishEvent |-> "completed", overspentEvent |-> "completed",
                       failureEvent |-> "completed"]

Announced == [startEvent |-> "running", pauseEvent |-> "waiting_human",
              finishEvent |-> "completed", overspentEvent |-> "failed",
              failureEvent |-> "failed"]

\* Mutants of InTry: the try begins only after the stream has been opened and
\* read; the try goes round again when its own except clause raises.
InTryAfterStream == {"message", "usage", "probe", "question", "pause", "finish",
                     "overspent", "notify", "reply"}
InTryForEver == {"open", "stream", "message", "usage", "probe", "question",
                 "pause", "finish", "overspent", "notify", "reply", "failure"}

\* Awaits inside the try of _stream, where an exception reaches its except
\* clause.  At "start" there is no handler and at "failure" it is running.
InTry == {"open", "stream", "message", "usage", "probe", "question",
          "pause", "finish", "overspent", "notify", "reply"}

PCs == {"idle"} \cup Writes \cup DOMAIN Announced \cup InTry

NoRow == [status |-> "absent", total |-> 0]

\* An execution that has not been spawned, or has returned.
Blank == [run |-> CHOOSE r \in Runs : TRUE, cap |-> 0, resuming |-> FALSE,
          spoke |-> FALSE, tokens |-> 0, last |-> 0, steps |-> 0, at |-> "end",
          read |-> NoRow, loaded |-> FALSE]

Init ==
  /\ row = [r \in Runs |-> NoRow]
  /\ ledger = [r \in Runs |-> [messages |-> 0, usage |-> 0]]
  /\ thread = [r \in Runs |-> "new"]
  /\ shown = [r \in Runs |-> "absent"]
  /\ segments = [r \in Runs |-> 0]
  /\ pc = [e \in Execs |-> "idle"]
  /\ frame = [e \in Execs |-> Blank]
  /\ paused = [r \in Runs |-> 0]
  /\ disturbed = FALSE

-----------------------------------------------------------------------------

RunOf(e) == frame[e].run
Exists(r) == row[r].status # "absent"
Busy(e, r) == pc[e] # "idle" /\ RunOf(e) = r

\* The budget check after each AI message.
OverBudget(f) == f.cap > 0 /\ f.tokens > f.cap

\* Mutants of AfterUsage: no check; a check of the total before this message.
AfterUsageUnchecked(f) == "stream"
AfterUsageLate(f) == IF f.cap > 0 /\ f.tokens - f.last > f.cap THEN "overspent" ELSE "stream"

AfterUsage(f) == IF OverBudget(f) THEN "overspent" ELSE "stream"

\* LangGraph compares the supersteps of a stream with the recursion_limit it was given
\* (executor.py:76); and its mutant, off by one.
AtMostLimit(f) == f.steps <= RecursionLimit

WithinLimit(f) == f.steps < RecursionLimit

Goto(e, p) == pc' = [pc EXCEPT ![e] = p]

Return(e) == Goto(e, "idle") /\ frame' = [frame EXCEPT ![e] = Blank]

\* An exception at the current await of e.  The session of a Load is rolled
\* back, so nothing of it survives.
Raise(e) ==
  IF pc[e] \in InTry
  THEN Goto(e, "failure") /\ frame' = [frame EXCEPT ![e].loaded = FALSE, ![e].read = NoRow]
  ELSE Return(e)

\* Mutant of Spawn: resume forgets to set the status to "running".
SpawnUnmarked(e, r, c, resuming) ==
  /\ pc[e] = "idle"
  /\ segments[r] < MaxSegments
  /\ segments' = [segments EXCEPT ![r] = @ + 1]
  /\ Goto(e, IF resuming THEN "startEvent" ELSE "start")
  /\ frame' = [frame EXCEPT ![e] = [Blank EXCEPT !.run = r, !.cap = c, !.resuming = resuming]]

Spawn(e, r, c, resuming) ==
  /\ pc[e] = "idle"
  /\ segments[r] < MaxSegments
  /\ segments' = [segments EXCEPT ![r] = @ + 1]
  /\ Goto(e, "start")
  /\ frame' = [frame EXCEPT ![e] = [Blank EXCEPT !.run = r, !.cap = c, !.resuming = resuming]]

\* POST /api/runs, a fired schedule, or the first message of a chat: a new row
\* and a task for it.
CreateRun(e, r) == \E c \in Caps :
  /\ segments[r] = 0
  /\ Spawn(e, r, c, FALSE)
  /\ row' = [row EXCEPT ![r] = [status |-> "pending", total |-> 0]]
  /\ UNCHANGED <<ledger, thread, shown, paused, disturbed>>

\* POST /api/runs/{id}/resume checks only that the row exists.  The channel
\* router also looks for a waiting run, but in an earlier transaction, so the
\* status it saw need not be the status now.
ResumeRun(e, r) == \E c \in Caps :
  /\ Exists(r)
  /\ Overlap \/ \A x \in Execs : ~Busy(x, r)
  /\ Spawn(e, r, c, TRUE)
  /\ UNCHANGED <<row, ledger, thread, shown, paused, disturbed>>

-----------------------------------------------------------------------------
(* Writes of the run row.                                                  *)

\* run = await s.get(...); without a row _set_status and _finalize do nothing.
Load(e) ==
  /\ pc[e] \in Writes
  /\ ~frame[e].loaded
  /\ IF Exists(RunOf(e))
     THEN /\ frame' = [frame EXCEPT ![e].loaded = TRUE, ![e].read = row[RunOf(e)]]
          /\ UNCHANGED pc
     ELSE Goto(e, EventOf[pc[e]]) /\ UNCHANGED frame
  /\ UNCHANGED <<db, thread, shown, disturbed>>

\* await s.commit() updates the columns whose value differs from the one loaded.
\* A row deleted in between makes the update fail (StaleDataError); a
\* _set_status that changes nothing sends no update and does not notice.
Commit(e) == LET r == RunOf(e)
                 f == frame[e]
                 s == Outcome[pc[e]]
                 added == IF pc[e] \in Finalizing THEN f.tokens ELSE 0
                 updates == pc[e] \in Finalizing \/ f.read.status # s
             IN
  /\ pc[e] \in Writes
  /\ f.loaded
  /\ IF updates /\ ~Exists(r)
     THEN Raise(e) /\ UNCHANGED <<row, paused>>
     ELSE /\ row' = [row EXCEPT ![r] =
                       [status |-> IF f.read.status = s THEN @.status ELSE s,
                        total |-> IF added = 0 THEN @.total ELSE f.read.total + added]]
          /\ paused' = [paused EXCEPT ![r] = IF pc[e] = "pause" THEN @ + f.tokens ELSE @]
          /\ Goto(e, EventOf[pc[e]])
          /\ frame' = [frame EXCEPT ![e].loaded = FALSE, ![e].read = NoRow]
  /\ UNCHANGED <<ledger, thread, shown, segments, disturbed>>

\* Mutant of Announce: the stream goes on after an overspent run was finalized.
AnnounceGoesOn(e) ==
  /\ pc[e] \in DOMAIN Announced
  /\ Exists(RunOf(e)) /\ shown' = [shown EXCEPT ![RunOf(e)] = Announced[pc[e]]]
  /\ \/ pc[e] = "startEvent" /\ Goto(e, "open") /\ UNCHANGED frame
     \/ pc[e] = "overspentEvent" /\ Goto(e, "stream") /\ UNCHANGED frame
     \/ pc[e] \notin {"startEvent", "overspentEvent"} /\ Return(e)
  /\ UNCHANGED <<db, thread, disturbed>>

\* self._event: a failed emission is swallowed, one for a deleted run always
\* fails.  on_interrupt and on_reply may both be None, and on_reply is awaited
\* only if an AI message was produced.
Announce(e) ==
  /\ pc[e] \in DOMAIN Announced
  /\ \/ /\ Exists(RunOf(e))
        /\ shown' = [shown EXCEPT ![RunOf(e)] = Announced[pc[e]]]
        /\ UNCHANGED disturbed
     \/ /\ ~Exists(RunOf(e)) \/ "db" \in Faults
        /\ disturbed' = TRUE
        /\ UNCHANGED shown
  /\ \/ pc[e] = "startEvent" /\ Goto(e, "open") /\ UNCHANGED frame
     \/ pc[e] = "pauseEvent" /\ Goto(e, "notify") /\ UNCHANGED frame
     \/ pc[e] = "finishEvent" /\ frame[e].spoke /\ Goto(e, "reply") /\ UNCHANGED frame
     \/ pc[e] # "startEvent" /\ Return(e)
  /\ UNCHANGED <<db, thread>>

-----------------------------------------------------------------------------
(* The graph stream.                                                       *)

\* The first __anext__ of graph.astream loads the checkpoint of the thread.  A
\* resume of a thread that has no checkpoint yet starts at the entry node or is
\* refused; LangGraph leaves that to its version.
Open(e) == LET r == RunOf(e) IN
  /\ pc[e] = "open"
  /\ \/ /\ thread' = [thread EXCEPT ![r] = IF @ = "new" THEN "node" ELSE @]
        /\ frame' = [frame EXCEPT ![e].at = thread'[r]]
        /\ Goto(e, "stream")
     \/ /\ thread[r] = "new"
        /\ frame[e].resuming
        /\ Raise(e)
        /\ UNCHANGED thread
  /\ UNCHANGED <<db, shown, disturbed>>

\* Asking the generator for the next chunk commits the superstep before it.
Advance(e) ==
  /\ pc[e] = "stream"
  /\ thread' = [thread EXCEPT ![RunOf(e)] = frame[e].at]
  /\ UNCHANGED <<db, shown, disturbed>>

\* A human node whose answer came with this resume; only the first superstep
\* of a resumed stream sees the answer.
Answered(e) == frame[e].at = "human" /\ frame[e].resuming

\* One superstep runs a node.  Its update is a list of messages that the code goes
\* through one by one; the nodes of runtime/nodes put in none (a condition) or one: an
\* AI message, or one that is not the model's (the human's answer, and the results of a
\* tool node, which carry no tokens and count as one).
Superstep(e) ==
  /\ Advance(e)
  /\ WithinLimit(frame[e])
  /\ frame[e].at = "node" \/ Answered(e)
  /\ \E next \in Places, t \in MsgTokens \cup {0}, kind \in {"silent", "other", "ai"} :
       /\ frame[e].at = "human" => kind = "other"
       /\ kind # "ai" => t = 0
       /\ kind = "ai" => t \in MsgTokens
       /\ frame' = [frame EXCEPT ![e].steps = @ + 1, ![e].at = next, ![e].last = t,
                                 ![e].resuming = FALSE, ![e].spoke = @ \/ kind = "ai"]
       /\ Goto(e, IF kind = "silent" THEN "stream" ELSE "message")

\* A node raises, or the superstep would be one too many: GraphRecursionError.
\* Whether a graph that ends exactly at the limit still ends is LangGraph's.
StreamRaises(e) ==
  /\ Advance(e)
  /\ \/ "node" \in Faults /\ frame[e].at # "end"
     \/ ~WithinLimit(frame[e])
  /\ Raise(e)

\* interrupt() in a human node: the stream yields __interrupt__ and ends.
StreamInterrupts(e) ==
  /\ Advance(e)
  /\ frame[e].at = "human" /\ ~Answered(e)
  /\ WithinLimit(frame[e])
  /\ Goto(e, "question")
  /\ UNCHANGED frame

StreamEnds(e) ==
  /\ Advance(e)
  /\ frame[e].at = "end"
  /\ Goto(e, "probe")
  /\ UNCHANGED frame

\* _persist of a message.  Only AI messages count towards the budget, the others
\* carry no tokens.
PersistMessage(e) == LET r == RunOf(e)
                         f == [frame[e] EXCEPT !.tokens = @ + frame[e].last] IN
  /\ pc[e] = "message"
  /\ IF Exists(r)
     THEN /\ ledger' = [ledger EXCEPT ![r].messages = @ + f.last]
          /\ frame' = [frame EXCEPT ![e] = f]
          /\ Goto(e, IF f.last > 0 THEN "usage" ELSE "stream")
     ELSE Raise(e) /\ UNCHANGED ledger
  /\ UNCHANGED <<row, segments, paused, thread, shown, disturbed>>

\* _persist_usage, then the budget check.
PersistUsage(e) == LET r == RunOf(e) IN
  /\ pc[e] = "usage"
  /\ IF Exists(r)
     THEN /\ ledger' = [ledger EXCEPT ![r].usage = @ + frame[e].last]
          /\ Goto(e, AfterUsage(frame[e]))
          /\ frame' = [frame EXCEPT ![e].last = 0]
     ELSE Raise(e) /\ UNCHANGED ledger
  /\ UNCHANGED <<row, segments, paused, thread, shown, disturbed>>

\* aget_state: a graph that still has a next node interrupted.
Probe(e) ==
  /\ pc[e] = "probe"
  /\ Goto(e, IF thread[RunOf(e)] = "end" THEN "finish" ELSE "question")
  /\ UNCHANGED <<db, thread, shown, disturbed, frame>>

\* Mutant of PersistQuestion: the status is not set to "waiting_human".
PersistQuestionOnly(e) ==
  /\ pc[e] = "question"
  /\ IF Exists(RunOf(e)) THEN Goto(e, "pauseEvent") /\ UNCHANGED frame ELSE Raise(e)
  /\ UNCHANGED <<db, thread, shown, disturbed>>

\* _persist of the question.
PersistQuestion(e) ==
  /\ pc[e] = "question"
  /\ IF Exists(RunOf(e)) THEN Goto(e, "pause") /\ UNCHANGED frame ELSE Raise(e)
  /\ UNCHANGED <<db, thread, shown, disturbed>>

\* The question or the answer is handed to the channel, and _stream returns.
Deliver(e) ==
  /\ pc[e] \in {"notify", "reply"}
  /\ Return(e)
  /\ UNCHANGED <<db, thread, shown, disturbed>>

-----------------------------------------------------------------------------
(* Disturbances.                                                           *)

SendRaises(e) ==
  /\ "send" \in Faults
  /\ pc[e] \in {"notify", "reply"}
  /\ Raise(e)
  /\ disturbed' = TRUE
  /\ UNCHANGED <<db, thread, shown>>

DbRaises(e) ==
  /\ "db" \in Faults
  /\ pc[e] \in Writes \cup {"open", "stream", "message", "usage", "probe", "question"}
  /\ Raise(e)
  /\ disturbed' = TRUE
  /\ UNCHANGED <<db, thread, shown>>

\* The process stops: tasks are lost, rows and checkpoints are not.
Crash ==
  /\ "crash" \in Faults
  /\ \E e \in Execs : pc[e] # "idle"
  /\ pc' = [e \in Execs |-> "idle"]
  /\ frame' = [e \in Execs |-> Blank]
  /\ disturbed' = TRUE
  /\ UNCHANGED <<db, thread, shown>>

\* DELETE /api/workflows/{id}: runs, messages, usage and events cascade.  The
\* checkpoints of the thread stay.
DeleteRun(r) ==
  /\ "delete" \in Faults
  /\ Exists(r)
  /\ row' = [row EXCEPT ![r] = NoRow]
  /\ ledger' = [ledger EXCEPT ![r] = [messages |-> 0, usage |-> 0]]
  /\ shown' = [shown EXCEPT ![r] = "absent"]
  /\ paused' = [paused EXCEPT ![r] = 0]
  /\ disturbed' = TRUE
  /\ UNCHANGED <<thread, segments, pc, frame>>

-----------------------------------------------------------------------------

Step(e) ==
  \/ Load(e) \/ Commit(e) \/ Announce(e)
  \/ Open(e) \/ Superstep(e) \/ StreamRaises(e) \/ StreamInterrupts(e) \/ StreamEnds(e)
  \/ PersistMessage(e) \/ PersistUsage(e) \/ Probe(e) \/ PersistQuestion(e) \/ Deliver(e)
  \/ SendRaises(e) \/ DbRaises(e)

Next ==
  \/ \E e \in Execs : Step(e)
  \/ \E e \in Execs, r \in Runs : CreateRun(e, r) \/ ResumeRun(e, r)
  \/ \E r \in Runs : DeleteRun(r)
  \/ Crash

Spec == Init /\ [][Next]_vars

\* The event loop runs every ready task, and every await of a task (a database
\* call, a model call, a send) eventually returns or raises.  Nothing obliges
\* anyone to create, resume or delete a run, or the process to stop.
FairSpec == Spec /\ \A e \in Execs : WF_vars(Step(e))

-----------------------------------------------------------------------------
(* Properties.                                                             *)

RowType == [status : Statuses, total : Nat]

FrameType ==
  [run : Runs, cap : Caps \cup {0}, resuming : BOOLEAN, spoke : BOOLEAN, tokens : Nat,
   last : MsgTokens \cup {0}, steps : 0 .. RecursionLimit, at : Places,
   read : RowType, loaded : BOOLEAN]

\* The values the rows, the checkpoints and the local variables may have.
TypeOK ==
  /\ row \in [Runs -> RowType]
  /\ ledger \in [Runs -> [messages : Nat, usage : Nat]]
  /\ thread \in [Runs -> Places \cup {"new"}]
  /\ shown \in [Runs -> Statuses]
  /\ segments \in [Runs -> 0 .. MaxSegments]
  /\ pc \in [Execs -> PCs]
  /\ frame \in [Execs -> FrameType]
  /\ paused \in [Runs -> Nat]
  /\ disturbed \in BOOLEAN

\* An execution that has spent more than its budget starts no further superstep,
\* pauses no run and completes none: it is on its way to "failed".  Between the
\* message that exceeds the budget and the check lie four awaits
\* (executor.py:107-128).
BudgetEnforced == \A e \in Execs :
  OverBudget(frame[e]) =>
    pc[e] \in {"usage", "overspent", "overspentEvent", "failure", "failureEvent"}

\* The overshoot is one message: no execution spends more than its cap plus what
\* one AI message can cost.
OvershootBounded == \A e \in Execs :
  frame[e].cap > 0 =>
    \E t \in MsgTokens \cup {0} : frame[e].tokens <= frame[e].cap + t

\* Execution e will still overwrite a "running" row of r: it has yet to load the
\* row for its last write, or loaded it with a status its write will differ from.
OwesOutcome(e, r) ==
  /\ Busy(e, r)
  /\ \/ pc[e] \in {"startEvent", "open", "stream", "message", "usage", "probe", "question"}
     \/ /\ pc[e] \in {"pause", "finish", "overspent", "failure"}
        /\ frame[e].loaded => frame[e].read.status # Outcome[pc[e]]

\* The row a _set_status or _finalize has loaded is gone once its session closes.
LoadedAtWrites == \A e \in Execs : frame[e].loaded => pc[e] \in Writes

\* No run is left at "running" with nobody to settle it, however many executions
\* of the run overlap and whatever stale row each of them writes back.
NoOrphanRunning == \A r \in Runs :
  row[r].status = "running" => \E e \in Execs : OwesOutcome(e, r)

\* Tokens of execution e that are in its local total and in no row yet.
InFlight(e) == IF pc[e] \in {"pauseEvent", "notify", "finishEvent", "reply",
                             "overspentEvent", "failureEvent"}
               THEN 0 ELSE frame[e].tokens
Unrecorded(e) == IF pc[e] = "usage" THEN frame[e].last ELSE 0

\* With one execution per run and nothing but the graph failing, the
\* three accounts of a run agree: usage rows against message tokens, and usage rows
\* against workflow_runs.total_tokens plus the segments that paused.
AccountsAgree == ~disturbed => \A r \in Runs :
  /\ \A e \in Execs : Busy(e, r) =>
       /\ ledger[r].messages = ledger[r].usage + Unrecorded(e)
       /\ ledger[r].usage + Unrecorded(e) = row[r].total + paused[r] + InFlight(e)
  /\ (\A e \in Execs : ~Busy(e, r)) =>
       /\ ledger[r].messages = ledger[r].usage
       /\ ledger[r].usage = row[r].total + paused[r]

\* A run the database shows as waiting has a checkpoint that waits at a human
\* node, so that a resume has a question to answer, also after a crash.
WaitingIsResumable == \A r \in Runs :
  row[r].status = "waiting_human" => thread[r] = "human"

\* Once nothing executes, the last lifecycle event of a run, which is what the
\* monitor displays, tells the status of its row, if nothing but the graph
\* has failed.
MonitorAgrees == ~disturbed => \A r \in Runs :
  (\A e \in Execs : ~Busy(e, r)) /\ row[r].status # "pending" =>
    shown[r] = row[r].status

\* Every execution returns: the graph may cycle for ever, the executor may not.
EveryExecutionReturns == \A e \in Execs : pc[e] # "idle" ~> pc[e] = "idle"

\* Every run that is "running" stops being so.  The sweep of
\* scheduling/dbos_workflows.py is said to see to that after a crash.
EveryRunSettles == \A r \in Runs : row[r].status = "running" ~> row[r].status # "running"

\* A run that completed stayed within the budget it was given; one that exceeds
\* it is said to be finalized as "failed".  Every cap of the instance is a real one.
CompletedWithinBudget == \A r \in Runs :
  row[r].status = "completed" => \E c \in Caps : c = 0 \/ ledger[r].messages <= c

Lifecycle == INSTANCE RunLifecycle WITH
  status <- [r \in Runs |-> row[r].status],
  open <- [r \in Runs |-> \E e \in Execs : Busy(e, r) /\ pc[e] # "start"],
  Lossy <- Faults \cap {"db", "crash"} # {}

\* Executions that do not overlap keep the promise of RunLifecycle.
ImplementsLifecycle == Lifecycle!Spec
=============================================================================
