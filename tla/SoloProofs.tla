----------------------------- MODULE SoloProofs -----------------------------
(***************************************************************************)
(* Theorems about Executor when executions of a run do not overlap, for    *)
(* any number of runs and executions, any caps and any faults.             *)
(***************************************************************************)
EXTENDS ExecutorProofs

\* At most one execution of a run is busy.
Solo == \A e, x \in Execs :
  pc[e] # "idle" /\ pc[x] # "idle" /\ RunOf(e) = RunOf(x) => e = x

\* What is loaded is what the row still says, or the row is gone.
Fresh(e) == frame[e].loaded => frame[e].read = row[RunOf(e)] \/ ~Exists(RunOf(e))

\* A question is only asked at a checkpoint that waits, and the row does not say so
\* before.
Leads(e) ==
  /\ pc[e] \in {"startEvent", "open", "stream", "message", "usage", "probe", "question"}
     => row[RunOf(e)].status # "waiting_human"
  /\ pc[e] \in {"question", "pause"} => thread[RunOf(e)] = "human"
  /\ pc[e] = "probe" => thread[RunOf(e)] = "end"

\* The accounts of a run, with the tokens on their way to them.
Balance(r, unrecorded, inFlight) ==
  /\ ledger[r].messages = ledger[r].usage + unrecorded
  /\ ledger[r].usage + unrecorded = row[r].total + paused[r] + inFlight

\* While nothing is lost: the row exists, the accounts agree, and what is told next or
\* was told last is what the row says.
Counts(e) ==
  /\ Exists(RunOf(e))
  /\ Balance(RunOf(e), Unrecorded(e), InFlight(e))
  /\ pc[e] \in {"start", "startEvent", "open"} => frame[e].tokens = 0
  /\ pc[e] \in DOMAIN Announced => row[RunOf(e)].status = Announced[pc[e]]
  /\ pc[e] \in {"notify", "reply"} => row[RunOf(e)].status = shown[RunOf(e)]

Active(e) ==
  /\ segments[RunOf(e)] # 0
  /\ Fresh(e) /\ Leads(e)
  /\ ~disturbed => Counts(e)

\* What a run is between its segments.
Rests(r) ==
  /\ Balance(r, 0, 0)
  /\ row[r].status # "pending" => shown[r] = row[r].status

Unused(r) ==
  row[r] = NoRow /\ ledger[r] = [messages |-> 0, usage |-> 0] /\ paused[r] = 0
  /\ shown[r] = "absent"

Inactive(r) ==
  /\ row[r].status = "waiting_human" => thread[r] = "human"
  /\ segments[r] = 0 => Unused(r)
  /\ ~disturbed /\ (\A e \in Execs : ~Busy(e, r)) => Rests(r)

SoloInv ==
  /\ TypeOK /\ LoadedAtWrites /\ Solo
  /\ \A e \in Execs : pc[e] # "idle" => Active(e)
  /\ \A r \in Runs : Inactive(r)

-----------------------------------------------------------------------------
(* What a step leaves alone.                                               *)

LEMMA SoloInit == Init => SoloInv
<1> SUFFICES ASSUME Init PROVE SoloInv
  OBVIOUS
<1>1. TypeOK
  BY TypeOKInit
<1>2. \A e \in Execs : pc[e] = "idle" /\ ~frame[e].loaded
  BY DEF Init, Blank
<1>3. LoadedAtWrites /\ Solo /\ \A e \in Execs : pc[e] # "idle" => Active(e)
  BY <1>2 DEF LoadedAtWrites, Solo
<1>4. ASSUME NEW r \in Runs PROVE Inactive(r)
  <2>1. Unused(r) /\ row[r].status = "absent" /\ row[r].total = 0
    BY DEF Init, Unused, NoRow
  <2>2. Rests(r)
    BY <2>1 DEF Rests, Balance, Unused
  <2>3. QED
    BY <2>1, <2>2 DEF Inactive
<1>5. QED
  BY <1>1, <1>3, <1>4 DEF SoloInv

\* A step of e is about its run, and stays with it.
Alone(e) ==
  /\ pc[e] # "idle"
  /\ \A x \in Execs \ {e} : pc'[x] = pc[x] /\ frame'[x] = frame[x]
  /\ \A q \in Runs \ {RunOf(e)} :
       /\ row'[q] = row[q] /\ ledger'[q] = ledger[q] /\ thread'[q] = thread[q]
       /\ shown'[q] = shown[q] /\ paused'[q] = paused[q]
  /\ segments' = segments
  /\ disturbed => disturbed'
  /\ pc'[e] # "idle" => frame'[e].run = frame[e].run

LEMMA RaiseStays ==
  ASSUME TypeOK, NEW e \in Execs, Raise(e)
  PROVE  pc'[e] # "idle" => frame'[e].run = frame[e].run
  BY RaiseUnloads DEF Raise, Return, Goto, TypeOK

LEMMA StepAlone ==
  ASSUME TypeOK, NEW e \in Execs, Step(e)
  PROVE  Alone(e)
<1> DEFINE r == frame[e].run
<1>0. r \in Runs /\ frame[e] \in FrameType
  BY DEF TypeOK, FrameType
<1>1. \A x \in Execs \ {e} : pc'[x] = pc[x] /\ frame'[x] = frame[x]
  BY OthersUnmoved
<1>2. pc[e] # "idle"
  BY DEF Step, Load, Commit, Announce, Open, Superstep, StreamRaises, StreamInterrupts,
         StreamEnds, Advance, PersistMessage, PersistUsage, Probe, PersistQuestion, Deliver,
         SendRaises, DbRaises, Writes, Announced
<1>3. segments' = segments
  BY DEF Step, Load, Commit, Announce, Open, Superstep, StreamRaises, StreamInterrupts,
         StreamEnds, Advance, PersistMessage, PersistUsage, Probe, PersistQuestion, Deliver,
         SendRaises, DbRaises, db
<1>4. disturbed => disturbed'
  BY DEF Step, Load, Commit, Announce, Open, Superstep, StreamRaises, StreamInterrupts,
         StreamEnds, Advance, PersistMessage, PersistUsage, Probe, PersistQuestion, Deliver,
         SendRaises, DbRaises, db
<1>5. ASSUME NEW q \in Runs \ {r}
      PROVE  /\ row'[q] = row[q] /\ ledger'[q] = ledger[q] /\ thread'[q] = thread[q]
             /\ shown'[q] = shown[q] /\ paused'[q] = paused[q]
  BY <1>0 DEF TypeOK, RunOf, Step, Load, Commit, Announce, Open, Superstep, StreamRaises,
         StreamInterrupts, StreamEnds, Advance, PersistMessage, PersistUsage, Probe,
         PersistQuestion, Deliver, SendRaises, DbRaises, db
<1>6. pc'[e] # "idle" => frame'[e].run = frame[e].run
  <2>1. CASE Load(e)
    BY <1>0, <2>1 DEF Load, TypeOK, FrameType
  <2>2. CASE Commit(e) \/ PersistMessage(e) \/ PersistUsage(e)
    BY <1>0, <2>2, RaiseStays DEF Commit, PersistMessage, PersistUsage, TypeOK, FrameType
  <2>3. CASE Announce(e) \/ Deliver(e)
    BY <2>3 DEF Announce, Deliver, Return, Goto, TypeOK
  <2>4. CASE Open(e)
    <3>1. Raise(e) \/ frame' = [frame EXCEPT ![e].at = thread'[r]]
      BY <2>4 DEF Open, RunOf
    <3>2. QED
      BY <1>0, <3>1, RaiseStays DEF TypeOK, FrameType
  <2>8. CASE Superstep(e)
    BY <1>0, <2>8 DEF Superstep, TypeOK, FrameType
  <2>5. CASE Probe(e) \/ PersistQuestion(e) \/ StreamInterrupts(e) \/ StreamEnds(e)
    BY <2>5, RaiseStays DEF Probe, PersistQuestion, StreamInterrupts, StreamEnds
  <2>6. CASE StreamRaises(e) \/ SendRaises(e) \/ DbRaises(e)
    BY <2>6, RaiseStays DEF StreamRaises, SendRaises, DbRaises
  <2>7. QED
    BY <2>1, <2>2, <2>3, <2>4, <2>5, <2>6, <2>8 DEF Step
<1>7. QED
  BY <1>1, <1>2, <1>3, <1>4, <1>5, <1>6 DEF Alone, RunOf

\* What is left to show of a step of e, which acts for run r.
Kept(e, r) == (pc[e] # "idle" => Active(e)) /\ Inactive(r)

LEMMA StepKeeps ==
  ASSUME SoloInv, NEW e \in Execs, Step(e), NEW r \in Runs, r = RunOf(e), Kept(e, r)'
  PROVE  SoloInv'
<1>1. Alone(e) /\ TypeOK' /\ LoadedAtWrites'
  <2>1. TypeOK /\ LoadedAtWrites /\ Next
    BY DEF SoloInv, Next
  <2>2. QED
    BY <2>1, StepAlone, TypeOKStep, LoadedStep
<1>2. Solo'
  BY <1>1 DEF SoloInv, Solo, Alone, RunOf
<1>3. ASSUME NEW x \in Execs, pc'[x] # "idle" PROVE Active(x)'
  <2>1. CASE x = e
    BY <1>3, <2>1 DEF Kept
  <2>2. CASE x # e
    <3>1. pc[x] # "idle" /\ pc'[x] = pc[x] /\ frame'[x] = frame[x] /\ Active(x)
      BY <1>1, <1>3, <2>2 DEF Alone, SoloInv
    <3>2. RunOf(x) # r /\ RunOf(x) \in Runs
      BY <1>1, <2>2, <3>1 DEF SoloInv, Solo, Alone, TypeOK, FrameType, RunOf
    <3>3. QED
      BY <1>1, <3>1, <3>2 DEF Alone, Active, Fresh, Leads, Counts, Balance, Exists, RunOf,
         Unrecorded, InFlight
  <2>3. QED
    BY <2>1, <2>2
<1>4. ASSUME NEW q \in Runs PROVE Inactive(q)'
  <2>1. CASE q = r
    BY <2>1 DEF Kept
  <2>2. CASE q # r
    <3>1. Inactive(q)
      BY DEF SoloInv
    <3>2. \A x \in Execs : Busy(x, q)' <=> Busy(x, q)
      BY <1>1, <2>2 DEF Alone, Busy, RunOf
    <3>3. QED
      BY <1>1, <2>2, <3>1, <3>2 DEF Alone, Inactive, Rests, Balance, Unused
  <2>3. QED
    BY <2>1, <2>2
<1>5. QED
  BY <1>1, <1>2, <1>3, <1>4 DEF SoloInv

-----------------------------------------------------------------------------
(* Steps of the execution of a run.                                        *)

\* An execution that goes on.
LEMMA GoesOn ==
  ASSUME SoloInv, NEW e \in Execs, Alone(e), NEW r \in Runs, r = RunOf(e), pc'[e] # "idle",
         row'[r].status = "waiting_human" => thread'[r] = "human",
         Fresh(e)', Leads(e)', ~disturbed' => Counts(e)'
  PROVE  Kept(e, r)'
<1>1. frame'[e].run = r /\ segments'[r] # 0
  BY DEF Alone, SoloInv, Active, RunOf
<1>2. Active(e)'
  BY <1>1 DEF Active, RunOf
<1>3. Inactive(r)'
  BY <1>1 DEF Inactive, Busy, RunOf
<1>4. QED
  BY <1>2, <1>3 DEF Kept

\* An execution that returns.
LEMMA Finishes ==
  ASSUME SoloInv, NEW e \in Execs, Alone(e), NEW r \in Runs, r = RunOf(e), pc'[e] = "idle",
         row'[r].status = "waiting_human" => thread'[r] = "human",
         ~disturbed' => Rests(r)'
  PROVE  Kept(e, r)'
<1>1. segments'[r] # 0
  BY DEF Alone, SoloInv, Active
<1>2. Inactive(r)'
  BY <1>1 DEF Inactive
<1>3. QED
  BY <1>2 DEF Kept

\* An exception: either something was lost, or the graph raised.
LEMMA RaiseKept ==
  ASSUME SoloInv, NEW e \in Execs, Step(e), Raise(e), NEW r \in Runs, r = RunOf(e),
         UNCHANGED <<row, ledger, paused>>,
         row[r].status = "waiting_human" => thread'[r] = "human",
         disturbed' \/ (pc[e] \in {"open", "stream"} /\ UNCHANGED disturbed)
  PROVE  Kept(e, r)'
<1>0. TypeOK /\ Active(e) /\ Alone(e)
  BY StepAlone DEF SoloInv, Alone
<1>1. CASE pc[e] \in InTry
  <2>1. /\ pc'[e] = "failure" /\ ~frame'[e].loaded /\ frame'[e].run = r
        /\ frame'[e].tokens = frame[e].tokens
    BY <1>0, <1>1 DEF Raise, Goto, TypeOK, FrameType, RunOf
  <2>2. Fresh(e)' /\ Leads(e)'
    BY <2>1 DEF Fresh, Leads
  <2>3. ~disturbed' => Counts(e)'
    BY <1>0, <2>1 DEF Active, Counts, Balance, Unrecorded, InFlight, Exists, RunOf, Announced
  <2>4. QED
    BY <1>0, <2>1, <2>2, <2>3, GoesOn
<1>2. CASE pc[e] \notin InTry
  <2>1. disturbed' /\ pc'[e] = "idle"
    BY <1>0, <1>2 DEF Raise, Return, Goto, TypeOK, InTry
  <2>2. QED
    BY <1>0, <2>1, Finishes
<1>3. QED
  BY <1>1, <1>2

LEMMA LoadKept ==
  ASSUME SoloInv, NEW e \in Execs, Load(e), NEW r \in Runs, r = RunOf(e)
  PROVE  Kept(e, r)'
<1>0. TypeOK /\ Active(e) /\ Alone(e) /\ Inactive(r)
  BY StepAlone DEF SoloInv, Alone, Step
<1>1. UNCHANGED <<db, thread, shown, disturbed>> /\ pc[e] \in Writes
  BY DEF Load
<1>2. row'[r].status = "waiting_human" => thread'[r] = "human"
  BY <1>0, <1>1 DEF Inactive, db
<1>3. CASE Exists(r)
  <2>1. /\ pc'[e] = pc[e] /\ frame'[e].run = r /\ frame'[e].read = row[r]
        /\ frame'[e].tokens = frame[e].tokens /\ frame'[e].last = frame[e].last
    BY <1>0, <1>3 DEF Load, TypeOK, FrameType, RunOf
  <2>2. Fresh(e)' /\ Leads(e)'
    BY <1>0, <1>1, <2>1 DEF Fresh, Leads, Active, RunOf, db
  <2>3. ~disturbed' => Counts(e)'
    BY <1>0, <1>1, <2>1 DEF Active, Counts, Balance, Unrecorded, InFlight, Exists, RunOf, db
  <2>4. QED
    BY <1>0, <1>1, <1>2, <2>1, <2>2, <2>3, GoesOn DEF Writes
<1>4. CASE ~Exists(r)
  <2>1. pc'[e] = EventOf[pc[e]] /\ frame' = frame /\ row[r].status = "absent" /\ disturbed
    BY <1>0, <1>4 DEF Load, Goto, TypeOK, Active, Counts, Exists
  <2>2. pc'[e] \in DOMAIN Announced /\ ~frame'[e].loaded
    BY <1>1, <2>1 DEF Load, Writes, EventOf, Announced
  <2>3. Fresh(e)' /\ Leads(e)' /\ disturbed'
    BY <1>1, <2>1, <2>2 DEF Fresh, Leads, Announced, RunOf, db
  <2>4. QED
    BY <1>0, <1>2, <2>2, <2>3, GoesOn DEF Announced
<1>5. QED
  BY <1>3, <1>4

LEMMA CommitKept ==
  ASSUME SoloInv, NEW e \in Execs, Commit(e), NEW r \in Runs, r = RunOf(e)
  PROVE  Kept(e, r)'
<1> DEFINE f == frame[e]
           s == Outcome[pc[e]]
           added == IF pc[e] \in Finalizing THEN f.tokens ELSE 0
<1>0. TypeOK /\ Active(e) /\ Alone(e) /\ Inactive(r) /\ Step(e)
  BY StepAlone DEF SoloInv, Alone, Step
<1>1. /\ UNCHANGED <<ledger, thread, shown, segments, disturbed>>
      /\ pc[e] \in Writes /\ f.loaded /\ f \in FrameType /\ row[r] \in RowType
      /\ f.tokens \in Nat /\ ledger[r].usage \in Nat /\ paused[r] \in Nat
  BY <1>0 DEF Commit, TypeOK, FrameType
<1>2. CASE Raise(e) /\ UNCHANGED <<row, paused>> /\ ~Exists(r)
  <2>1. disturbed
    BY <1>0, <1>2 DEF Active, Counts
  <2>2. QED
    BY <1>0, <1>1, <1>2, <2>1, RaiseKept DEF Inactive
<1>3. CASE /\ row' = [row EXCEPT ![r] =
                       [status |-> IF f.read.status = s THEN @.status ELSE s,
                        total |-> IF added = 0 THEN @.total ELSE f.read.total + added]]
           /\ paused' = [paused EXCEPT ![r] = IF pc[e] = "pause" THEN @ + f.tokens ELSE @]
           /\ Goto(e, EventOf[pc[e]])
           /\ frame' = [frame EXCEPT ![e].loaded = FALSE, ![e].read = NoRow]
  <2>1. /\ ~frame'[e].loaded /\ frame'[e].run = r /\ frame'[e].tokens = f.tokens
        /\ pc'[e] = EventOf[pc[e]]
    BY <1>0, <1>1, <1>3 DEF Goto, TypeOK, FrameType, RunOf
  <2>2. /\ pc'[e] \in DOMAIN Announced /\ Announced[pc'[e]] = s
        /\ (pc'[e] = "startEvent") <=> (pc[e] = "start")
    BY <1>1, <2>1 DEF Writes, EventOf, Announced, Outcome
  <2>3. /\ row'[r].status = IF f.read.status = s THEN row[r].status ELSE s
        /\ row'[r].total = IF added = 0 THEN row[r].total ELSE f.read.total + added
        /\ paused'[r] = IF pc[e] = "pause" THEN paused[r] + f.tokens ELSE paused[r]
    BY <1>0, <1>3 DEF TypeOK
  <2>4. f.read = row[r] \/ ~Exists(r)
    BY <1>0, <1>1 DEF Active, Fresh
  <2>5. row'[r].status \in {s, "absent"}
    BY <2>3, <2>4 DEF Exists
  <2>6. row'[r].status = "waiting_human" => thread'[r] = "human"
    <3>1. CASE pc[e] = "pause"
      BY <1>0, <1>1, <3>1 DEF Active, Leads
    <3>2. CASE pc[e] # "pause"
      BY <1>1, <2>5, <3>2 DEF Outcome, Writes
    <3>3. QED
      BY <3>1, <3>2
  <2>7. Fresh(e)' /\ Leads(e)'
    <3>1. pc[e] = "start" => row'[r].status # "waiting_human"
      BY <2>5 DEF Outcome
    <3>2. QED
      BY <2>1, <2>2, <3>1 DEF Fresh, Leads, Announced, RunOf
  <2>8. ~disturbed' => Counts(e)'
    <3> SUFFICES ASSUME ~disturbed PROVE Counts(e)'
      BY <1>1
    <3>1. Exists(r) /\ f.read = row[r] /\ Counts(e)
      BY <1>0, <2>4 DEF Active, Counts
    <3>2. row'[r].status = s /\ s # "absent"
      BY <1>1, <2>3, <3>1 DEF Outcome, Writes
    <3>3. /\ ledger[r].messages = ledger[r].usage
          /\ ledger[r].usage = row[r].total + paused[r] + f.tokens
          /\ row[r].total \in Nat
          /\ pc[e] = "start" => f.tokens = 0
      BY <1>0, <1>1, <3>1 DEF Counts, Balance, Unrecorded, InFlight, Writes, TypeOK, RowType
    <3>4. row'[r].total + paused'[r] = IF pc[e] = "start" THEN row[r].total + paused[r]
                                       ELSE row[r].total + paused[r] + f.tokens
      <4>1. CASE pc[e] = "start" \/ pc[e] = "pause"
        BY <1>1, <2>3, <3>3, <4>1 DEF Finalizing
      <4>2. CASE pc[e] \in Finalizing
        BY <1>1, <2>3, <3>1, <3>3, <4>2 DEF Finalizing
      <4>3. QED
        BY <1>1, <4>1, <4>2 DEF Writes, Finalizing
    <3>5. Unrecorded(e)' = 0 /\ InFlight(e)' = 0
      BY <2>1, <2>2, <3>3 DEF Unrecorded, InFlight, Announced
    <3>6. Balance(r, 0, 0)'
      BY <1>1, <3>3, <3>4 DEF Balance
    <3>7. Balance(RunOf(e), Unrecorded(e), InFlight(e))'
      BY <2>1, <3>5, <3>6 DEF Balance, RunOf
    <3>8. /\ pc'[e] \in {"start", "startEvent", "open"} => frame'[e].tokens = 0
          /\ pc'[e] \notin {"notify", "reply"}
      BY <2>1, <2>2, <3>3 DEF Announced
    <3>9. QED
      BY <2>1, <2>2, <3>2, <3>7, <3>8 DEF Counts, Exists, RunOf
  <2>9. QED
    BY <1>0, <2>2, <2>6, <2>7, <2>8, GoesOn DEF Announced
<1>4. QED
  BY <1>2, <1>3 DEF Commit

LEMMA AnnounceKept ==
  ASSUME SoloInv, NEW e \in Execs, Announce(e), NEW r \in Runs, r = RunOf(e)
  PROVE  Kept(e, r)'
<1>0. TypeOK /\ Active(e) /\ Alone(e) /\ Inactive(r) /\ LoadedAtWrites
  BY StepAlone DEF SoloInv, Alone, Step
<1>1. /\ UNCHANGED <<row, ledger, paused, segments, thread>>
      /\ pc[e] \in DOMAIN Announced /\ ~frame[e].loaded
  BY <1>0 DEF Announce, db, LoadedAtWrites, Announced, Writes
<1>2. row'[r].status = "waiting_human" => thread'[r] = "human"
  BY <1>0, <1>1 DEF Inactive
<1>3. ~disturbed' => Counts(e) /\ ~disturbed /\ shown'[r] = row[r].status
  BY <1>0, <1>1 DEF Announce, TypeOK, Active, Counts
<1>4. CASE pc'[e] = "idle"
  <2>1. pc[e] # "startEvent"
    BY <1>0, <1>4 DEF Announce, Goto, TypeOK
  <2>2. ~disturbed' => Rests(r)'
    BY <1>0, <1>1, <1>3, <2>1 DEF Counts, Balance, Rests, Unrecorded, InFlight, Announced
  <2>3. QED
    BY <1>0, <1>2, <1>4, <2>2, Finishes
<1>5. CASE pc'[e] # "idle"
  <2>1. /\ frame'[e] = frame[e]
        /\ \/ pc[e] = "startEvent" /\ pc'[e] = "open"
           \/ pc[e] \in {"pauseEvent", "finishEvent"} /\ pc'[e] \in {"notify", "reply"}
    BY <1>0, <1>5 DEF Announce, Return, Goto, TypeOK
  <2>2. Fresh(e)' /\ Leads(e)'
    BY <1>0, <1>1, <2>1 DEF Fresh, Leads, Active, RunOf
  <2>3. ~disturbed' => Counts(e)'
    BY <1>0, <1>1, <1>3, <2>1 DEF Counts, Balance, Unrecorded, InFlight, Announced, Exists, RunOf
  <2>4. QED
    BY <1>0, <1>2, <1>5, <2>2, <2>3, GoesOn
<1>6. QED
  BY <1>4, <1>5

LEMMA OpenKept ==
  ASSUME SoloInv, NEW e \in Execs, Open(e), NEW r \in Runs, r = RunOf(e)
  PROVE  Kept(e, r)'
<1>0. TypeOK /\ Active(e) /\ Alone(e) /\ Inactive(r) /\ LoadedAtWrites /\ Step(e)
  BY StepAlone DEF SoloInv, Alone, Step
<1>1. UNCHANGED <<row, ledger, paused, segments, shown, disturbed>> /\ pc[e] = "open"
  BY DEF Open, db
<1>2. row[r].status # "waiting_human" /\ ~frame[e].loaded
  BY <1>0, <1>1 DEF Active, Leads, LoadedAtWrites, Writes
<1>3. CASE Raise(e)
  BY <1>0, <1>1, <1>2, <1>3, RaiseKept
<1>4. CASE frame' = [frame EXCEPT ![e].at = thread'[r]] /\ Goto(e, "stream")
  <2>1. /\ pc'[e] = "stream" /\ ~frame'[e].loaded /\ frame'[e].run = r
        /\ frame'[e].tokens = frame[e].tokens
    BY <1>0, <1>2, <1>4 DEF Goto, TypeOK, FrameType, RunOf
  <2>2. Fresh(e)' /\ Leads(e)'
    BY <1>1, <1>2, <2>1 DEF Fresh, Leads, RunOf
  <2>3. ~disturbed' => Counts(e)'
    BY <1>0, <1>1, <2>1 DEF Active, Counts, Balance, Unrecorded, InFlight, Announced, Exists, RunOf
  <2>4. QED
    BY <1>0, <1>1, <1>2, <2>1, <2>2, <2>3, GoesOn
<1>5. QED
  BY <1>3, <1>4 DEF Open, RunOf

LEMMA SuperstepKeeps ==
  ASSUME TypeOK, NEW e \in Execs, Superstep(e), ~frame[e].loaded
  PROVE  /\ frame'[e].run = frame[e].run
         /\ frame'[e].tokens = frame[e].tokens
         /\ ~frame'[e].loaded
<1>0. frame \in [Execs -> FrameType]
  BY DEF TypeOK
<1>1. PICK next \in Places, t \in MsgTokens \cup {0}, kind \in {"silent", "other", "ai"} :
        frame' = [frame EXCEPT ![e].steps = @ + 1, ![e].at = next, ![e].last = t,
                               ![e].resuming = FALSE, ![e].spoke = @ \/ kind = "ai"]
  BY DEF Superstep
<1>2. frame'[e].run = frame[e].run
  BY <1>0, <1>1 DEF FrameType
<1>3. frame'[e].tokens = frame[e].tokens
  BY <1>0, <1>1 DEF FrameType
<1>4. frame'[e].loaded = frame[e].loaded
  BY <1>0, <1>1 DEF FrameType
<1>5. QED
  BY <1>2, <1>3, <1>4

LEMMA StreamKept ==
  ASSUME SoloInv, NEW e \in Execs, NEW r \in Runs, r = RunOf(e),
         Superstep(e) \/ StreamRaises(e) \/ StreamInterrupts(e) \/ StreamEnds(e)
  PROVE  Kept(e, r)'
<1>0. TypeOK /\ Active(e) /\ Alone(e) /\ Inactive(r) /\ LoadedAtWrites /\ Step(e)
  BY StepAlone DEF SoloInv, Alone, Step
<1>1. /\ UNCHANGED <<row, ledger, paused, segments, shown, disturbed>> /\ pc[e] = "stream"
      /\ thread'[r] = frame[e].at
  BY <1>0 DEF Superstep, StreamRaises, StreamInterrupts, StreamEnds, Advance, db, TypeOK, RunOf
<1>2. row[r].status # "waiting_human" /\ ~frame[e].loaded
  BY <1>0, <1>1 DEF Active, Leads, LoadedAtWrites, Writes
<1>3. CASE StreamRaises(e)
  BY <1>0, <1>1, <1>2, <1>3, RaiseKept DEF StreamRaises
<1>4. CASE Superstep(e) \/ StreamInterrupts(e) \/ StreamEnds(e)
  <2>1. /\ ~frame'[e].loaded /\ frame'[e].run = r /\ frame'[e].tokens = frame[e].tokens
        /\ \/ pc'[e] \in {"stream", "message"}
           \/ pc'[e] = "question" /\ frame[e].at = "human"
           \/ pc'[e] = "probe" /\ frame[e].at = "end"
    <3>1. CASE Superstep(e)
      <4>1. pc'[e] \in {"stream", "message"}
        BY <1>0, <3>1, ZenonT(60) DEF Superstep, Goto, TypeOK
      <4>2. TypeOK /\ Superstep(e) /\ ~frame[e].loaded
        BY <1>0, <1>2, <3>1
      <4>3. frame'[e].run = frame[e].run /\ frame'[e].tokens = frame[e].tokens
            /\ ~frame'[e].loaded
        BY <4>2, SuperstepKeeps
      <4>4. QED
        BY <1>2, <4>1, <4>2, <4>3 DEF RunOf
    <3>2. CASE StreamInterrupts(e) \/ StreamEnds(e)
      BY <1>0, <1>2, <3>2 DEF StreamInterrupts, StreamEnds, Goto, TypeOK, RunOf
    <3>3. QED
      BY <1>4, <3>1, <3>2
  <2>2. Fresh(e)' /\ Leads(e)'
    BY <1>1, <1>2, <2>1 DEF Fresh, Leads, RunOf
  <2>3. ~disturbed' => Counts(e)'
    BY <1>0, <1>1, <2>1 DEF Active, Counts, Balance, Unrecorded, InFlight, Announced, Exists, RunOf
  <2>4. QED
    BY <1>0, <1>1, <1>2, <2>1, <2>2, <2>3, GoesOn
<1>5. QED
  BY <1>3, <1>4

LEMMA MessageKept ==
  ASSUME SoloInv, NEW e \in Execs, PersistMessage(e), NEW r \in Runs, r = RunOf(e)
  PROVE  Kept(e, r)'
<1>0. TypeOK /\ Active(e) /\ Alone(e) /\ Inactive(r) /\ LoadedAtWrites /\ Step(e)
  BY StepAlone DEF SoloInv, Alone, Step
<1>1. /\ UNCHANGED <<row, paused, segments, thread, shown, disturbed>>
      /\ pc[e] = "message" /\ frame[e].tokens \in Nat /\ frame[e].last \in Nat
      /\ ledger[r].usage \in Nat /\ ledger[r].messages \in Nat
      /\ row[r].total \in Nat /\ paused[r] \in Nat
  <2>1. frame[e] \in FrameType
    BY <1>0 DEF TypeOK
  <2>2. QED
    BY <1>0, <2>1, FrameNat DEF PersistMessage, TypeOK, RowType
<1>2. row[r].status # "waiting_human" /\ ~frame[e].loaded
  BY <1>0, <1>1 DEF Active, Leads, LoadedAtWrites, Writes
<1>3. CASE ~Exists(r)
  <2>1. disturbed /\ Raise(e) /\ UNCHANGED ledger
    BY <1>0, <1>3 DEF PersistMessage, Active, Counts
  <2>2. QED
    BY <1>0, <1>1, <1>2, <2>1, RaiseKept
<1>4. CASE Exists(r)
  <2>1. /\ ~frame'[e].loaded /\ frame'[e].run = r
        /\ frame'[e].tokens = frame[e].tokens + frame[e].last
        /\ frame'[e].last = frame[e].last
        /\ pc'[e] = IF frame[e].last > 0 THEN "usage" ELSE "stream"
    BY <1>0, <1>2, <1>4, SMTT(30) DEF PersistMessage, Goto, TypeOK, FrameType, RunOf
  <2>2. /\ ledger'[r].messages = ledger[r].messages + frame[e].last
        /\ ledger'[r].usage = ledger[r].usage
    BY <1>0, <1>4 DEF PersistMessage, TypeOK
  <2>3. Fresh(e)' /\ Leads(e)'
    BY <1>1, <1>2, <2>1 DEF Fresh, Leads, RunOf
  <2>4. ~disturbed' => Counts(e)'
    <3> SUFFICES ASSUME ~disturbed PROVE Counts(e)'
      BY <1>1
    <3>1. Counts(e)
      BY <1>0 DEF Active
    <3>2. ledger[r].messages = ledger[r].usage
          /\ ledger[r].usage = row[r].total + paused[r] + frame[e].tokens
      BY <1>1, <3>1 DEF Counts, Balance, Unrecorded, InFlight
    <3>3. Unrecorded(e)' = frame[e].last /\ InFlight(e)' = frame[e].tokens + frame[e].last
      BY <1>1, <2>1 DEF Unrecorded, InFlight
    <3>4. Balance(RunOf(e), Unrecorded(e), InFlight(e))'
      BY <1>1, <2>1, <2>2, <3>2, <3>3 DEF Balance, RunOf
    <3>5. QED
      BY <1>1, <1>4, <2>1, <3>4 DEF Counts, Exists, RunOf, Announced
  <2>5. QED
    BY <1>0, <1>1, <1>2, <2>1, <2>3, <2>4, GoesOn
<1>5. QED
  BY <1>3, <1>4

LEMMA UsageKept ==
  ASSUME SoloInv, NEW e \in Execs, PersistUsage(e), NEW r \in Runs, r = RunOf(e)
  PROVE  Kept(e, r)'
<1>0. TypeOK /\ Active(e) /\ Alone(e) /\ Inactive(r) /\ LoadedAtWrites /\ Step(e)
  BY StepAlone DEF SoloInv, Alone, Step
<1>1. /\ UNCHANGED <<row, paused, segments, thread, shown, disturbed>>
      /\ pc[e] = "usage" /\ frame[e].tokens \in Nat /\ frame[e].last \in Nat
      /\ ledger[r].usage \in Nat /\ ledger[r].messages \in Nat
      /\ row[r].total \in Nat /\ paused[r] \in Nat
  <2>1. frame[e] \in FrameType
    BY <1>0 DEF TypeOK
  <2>2. QED
    BY <1>0, <2>1, FrameNat DEF PersistUsage, TypeOK, RowType
<1>2. row[r].status # "waiting_human" /\ ~frame[e].loaded
  BY <1>0, <1>1 DEF Active, Leads, LoadedAtWrites, Writes
<1>3. CASE ~Exists(r)
  <2>1. disturbed /\ Raise(e) /\ UNCHANGED ledger
    BY <1>0, <1>3 DEF PersistUsage, Active, Counts
  <2>2. QED
    BY <1>0, <1>1, <1>2, <2>1, RaiseKept
<1>4. CASE Exists(r)
  <2>1. /\ ~frame'[e].loaded /\ frame'[e].run = r
        /\ frame'[e].tokens = frame[e].tokens
        /\ pc'[e] \in {"stream", "overspent"}
    BY <1>0, <1>2, <1>4 DEF PersistUsage, AfterUsage, Goto, TypeOK, FrameType, RunOf
  <2>2. /\ ledger'[r].messages = ledger[r].messages
        /\ ledger'[r].usage = ledger[r].usage + frame[e].last
    BY <1>0, <1>4 DEF PersistUsage, TypeOK
  <2>3. Fresh(e)' /\ Leads(e)'
    BY <1>1, <1>2, <2>1 DEF Fresh, Leads, RunOf
  <2>4. ~disturbed' => Counts(e)'
    <3> SUFFICES ASSUME ~disturbed PROVE Counts(e)'
      BY <1>1
    <3>1. Counts(e)
      BY <1>0 DEF Active
    <3>2. /\ ledger[r].messages = ledger[r].usage + frame[e].last
          /\ ledger[r].usage + frame[e].last = row[r].total + paused[r] + frame[e].tokens
      BY <1>1, <3>1 DEF Counts, Balance, Unrecorded, InFlight
    <3>3. Unrecorded(e)' = 0 /\ InFlight(e)' = frame[e].tokens
      BY <2>1 DEF Unrecorded, InFlight
    <3>4. Balance(RunOf(e), Unrecorded(e), InFlight(e))'
      BY <1>1, <2>1, <2>2, <3>2, <3>3 DEF Balance, RunOf
    <3>5. QED
      BY <1>1, <1>4, <2>1, <3>4 DEF Counts, Exists, RunOf, Announced
  <2>5. QED
    BY <1>0, <1>1, <1>2, <2>1, <2>3, <2>4, GoesOn
<1>5. QED
  BY <1>3, <1>4

LEMMA PauseKept ==
  ASSUME SoloInv, NEW e \in Execs, Probe(e) \/ PersistQuestion(e), NEW r \in Runs, r = RunOf(e)
  PROVE  Kept(e, r)'
<1>0. TypeOK /\ Active(e) /\ Alone(e) /\ Inactive(r) /\ LoadedAtWrites /\ Step(e)
  BY StepAlone DEF SoloInv, Alone, Step
<1>1. /\ UNCHANGED <<row, ledger, paused, segments, thread, shown, disturbed>>
      /\ pc[e] \in {"probe", "question"}
  BY DEF Probe, PersistQuestion, db
<1>2. row[r].status # "waiting_human" /\ ~frame[e].loaded
  BY <1>0, <1>1 DEF Active, Leads, LoadedAtWrites, Writes
<1>3. CASE Raise(e) /\ disturbed
  BY <1>0, <1>1, <1>2, <1>3, RaiseKept
<1>4. CASE /\ frame' = frame
           /\ \/ pc'[e] = "finish"
              \/ pc'[e] = "pause" /\ thread[r] = "human"
  <2>1. Fresh(e)' /\ Leads(e)'
    BY <1>1, <1>2, <1>4 DEF Fresh, Leads, RunOf
  <2>2. ~disturbed' => Counts(e)'
    BY <1>0, <1>1, <1>4 DEF Active, Counts, Balance, Unrecorded, InFlight, Announced, Exists, RunOf
  <2>3. QED
    BY <1>0, <1>1, <1>2, <1>4, <2>1, <2>2, GoesOn
<1>5. CASE Probe(e)
  BY <1>0, <1>4, <1>5 DEF Probe, Goto, TypeOK, Active, Leads
<1>6. CASE PersistQuestion(e)
  BY <1>0, <1>3, <1>4, <1>6 DEF PersistQuestion, Goto, TypeOK, Active, Leads, Counts
<1>7. QED
  BY <1>5, <1>6

LEMMA DeliverKept ==
  ASSUME SoloInv, NEW e \in Execs, Deliver(e), NEW r \in Runs, r = RunOf(e)
  PROVE  Kept(e, r)'
<1>0. TypeOK /\ Active(e) /\ Alone(e) /\ Inactive(r)
  BY StepAlone DEF SoloInv, Alone, Step
<1>1. /\ UNCHANGED <<row, ledger, paused, segments, thread, shown, disturbed>>
      /\ pc[e] \in {"notify", "reply"} /\ pc'[e] = "idle"
  BY <1>0 DEF Deliver, db, Return, Goto, TypeOK
<1>2. ~disturbed' => Rests(r)'
  BY <1>0, <1>1 DEF Active, Counts, Balance, Rests, Unrecorded, InFlight
<1>3. QED
  BY <1>0, <1>1, <1>2, Finishes DEF Inactive

LEMMA LossKept ==
  ASSUME SoloInv, NEW e \in Execs, SendRaises(e) \/ DbRaises(e), NEW r \in Runs, r = RunOf(e)
  PROVE  Kept(e, r)'
<1>1. /\ UNCHANGED <<row, ledger, paused, segments, thread, shown>>
      /\ disturbed' /\ Raise(e) /\ Step(e) /\ Inactive(r)
  BY DEF SendRaises, DbRaises, db, SoloInv, Step
<1>2. QED
  BY <1>1, RaiseKept DEF Inactive

-----------------------------------------------------------------------------
(* The other steps.                                                        *)

LEMMA SpawnKeeps ==
  ASSUME Overlap = FALSE, SoloInv, NEW e \in Execs, NEW r \in Runs,
         CreateRun(e, r) \/ ResumeRun(e, r), TypeOK', LoadedAtWrites'
  PROVE  SoloInv'
<1>0. TypeOK /\ Inactive(r)
  BY DEF SoloInv
<1>1. /\ pc[e] = "idle" /\ pc'[e] = "start" /\ frame'[e].run = r
      /\ frame'[e].tokens = 0 /\ ~frame'[e].loaded
      /\ \A x \in Execs \ {e} : pc'[x] = pc[x] /\ frame'[x] = frame[x]
  BY <1>0, SpawnOne
<1>2. /\ UNCHANGED <<ledger, thread, shown, paused, disturbed>>
      /\ segments[r] \in Nat /\ segments'[r] = segments[r] + 1
      /\ \A q \in Runs \ {r} : row'[q] = row[q] /\ segments'[q] = segments[q]
  <2>1. segments[r] \in 0 .. MaxSegments
    BY <1>0 DEF TypeOK
  <2>2. segments[r] \in Nat
    BY <2>1
  <2>3. segments' = [segments EXCEPT ![r] = @ + 1]
    BY DEF CreateRun, ResumeRun, Spawn
  <2>4. UNCHANGED <<ledger, thread, shown, paused, disturbed>>
    BY DEF CreateRun, ResumeRun
  <2>5. \A q \in Runs \ {r} : row'[q] = row[q]
    BY <1>0 DEF CreateRun, ResumeRun, TypeOK
  <2>6. QED
    BY <1>0, <2>2, <2>3, <2>4, <2>5 DEF TypeOK
<1>3. \A x \in Execs : ~Busy(x, r)
  <2>1. CASE CreateRun(e, r)
    BY <2>1 DEF CreateRun, SoloInv, Active, Busy
  <2>2. CASE ResumeRun(e, r)
    BY <2>2 DEF ResumeRun
  <2>3. QED
    BY <2>1, <2>2
<1>4. /\ row'[r].status # "absent"
      /\ row'[r].status = "waiting_human" => thread[r] = "human"
      /\ row'[r].total = row[r].total
  <2>1. CASE CreateRun(e, r)
    BY <1>0, <2>1 DEF CreateRun, Inactive, Unused, NoRow, TypeOK
  <2>2. CASE ResumeRun(e, r)
    BY <1>0, <2>2 DEF ResumeRun, Exists, Inactive
  <2>3. QED
    BY <2>1, <2>2
<1>5. ~disturbed => Rests(r)
  BY <1>0, <1>3 DEF Inactive
<1>6. Solo'
  BY <1>1, <1>3 DEF SoloInv, Solo, Busy, RunOf
<1>7. Active(e)'
  <2>1. Fresh(e)' /\ Leads(e)'
    BY <1>1 DEF Fresh, Leads
  <2>2. ~disturbed' => Counts(e)'
    <3>1. Unrecorded(e)' = 0 /\ InFlight(e)' = 0
      BY <1>1 DEF Unrecorded, InFlight
    <3>2. ~disturbed => Balance(r, 0, 0)'
      BY <1>2, <1>4, <1>5 DEF Rests, Balance
    <3>3. QED
      BY <1>1, <1>2, <1>4, <3>1, <3>2 DEF Counts, Exists, RunOf, Announced, Balance
  <2>3. QED
    BY <1>1, <1>2, <2>1, <2>2 DEF Active, RunOf
<1>8. ASSUME NEW x \in Execs \ {e}, pc'[x] # "idle" PROVE Active(x)'
  <2>1. pc[x] # "idle" /\ pc'[x] = pc[x] /\ frame'[x] = frame[x] /\ Active(x)
    BY <1>1, <1>8 DEF SoloInv
  <2>2. RunOf(x) # r /\ RunOf(x) \in Runs
    BY <1>0, <1>3, <2>1 DEF Busy, RunOf, TypeOK, FrameType
  <2>3. QED
    BY <1>2, <2>1, <2>2 DEF Active, Fresh, Leads, Counts, Balance, Exists, RunOf,
       Unrecorded, InFlight
<1>9. ASSUME NEW q \in Runs PROVE Inactive(q)'
  <2>1. CASE q = r
    <3>1. Busy(e, r)' /\ segments'[r] # 0
      BY <1>1, <1>2 DEF Busy, RunOf
    <3>2. QED
      BY <1>2, <1>4, <2>1, <3>1 DEF Inactive
  <2>2. CASE q # r
    <3>1. Inactive(q)
      BY DEF SoloInv
    <3>2. \A x \in Execs : Busy(x, q)' <=> Busy(x, q)
      BY <1>1, <2>2 DEF Busy, RunOf
    <3>3. QED
      BY <1>2, <2>2, <3>1, <3>2 DEF Inactive, Rests, Balance, Unused
  <2>3. QED
    BY <2>1, <2>2
<1>10. QED
  BY <1>6, <1>7, <1>8, <1>9 DEF SoloInv

LEMMA CrashKeeps ==
  ASSUME SoloInv, Crash, TypeOK', LoadedAtWrites'
  PROVE  SoloInv'
<1>1. /\ UNCHANGED <<row, ledger, segments, paused, thread, shown>> /\ disturbed'
      /\ \A e \in Execs : pc'[e] = "idle"
  BY DEF Crash, db
<1>2. ASSUME NEW r \in Runs PROVE Inactive(r)'
  BY <1>1 DEF SoloInv, Inactive, Unused
<1>3. QED
  BY <1>1, <1>2 DEF SoloInv, Solo

LEMMA DeleteKeeps ==
  ASSUME SoloInv, NEW r \in Runs, DeleteRun(r), TypeOK', LoadedAtWrites'
  PROVE  SoloInv'
<1>1. /\ UNCHANGED <<thread, segments, pc, frame>> /\ disturbed'
      /\ row'[r] = NoRow /\ \A q \in Runs \ {r} : row'[q] = row[q]
  BY DEF DeleteRun, SoloInv, TypeOK
<1>2. Unused(r)' /\ \A q \in Runs \ {r} : Unused(q) => Unused(q)'
  BY DEF DeleteRun, SoloInv, TypeOK, Unused
<1>3. ASSUME NEW q \in Runs PROVE Inactive(q)'
  BY <1>1, <1>2 DEF SoloInv, Inactive, NoRow
<1>4. ASSUME NEW e \in Execs, pc'[e] # "idle" PROVE Active(e)'
  <2>1. RunOf(e) \in Runs /\ Active(e)
    BY <1>1, <1>4 DEF SoloInv, TypeOK, FrameType, RunOf
  <2>2. QED
    BY <1>1, <2>1 DEF Active, Fresh, Leads, Exists, RunOf, NoRow
<1>5. QED
  BY <1>1, <1>3, <1>4 DEF SoloInv, Solo, RunOf

LEMMA SoloStep ==
  ASSUME Overlap = FALSE, SoloInv, [Next]_vars
  PROVE  SoloInv'
<1>1. TypeOK' /\ LoadedAtWrites'
  BY TypeOKStep, LoadedStep DEF SoloInv
<1>2. ASSUME NEW e \in Execs, Step(e) PROVE SoloInv'
  <2>1. PICK r \in Runs : r = RunOf(e)
    BY DEF SoloInv, TypeOK, FrameType, RunOf
  <2>2. Kept(e, r)'
    BY <1>2, <2>1, LoadKept, CommitKept, AnnounceKept, OpenKept, StreamKept, MessageKept,
       UsageKept, PauseKept, DeliverKept, LossKept DEF Step
  <2>3. QED
    BY <1>2, <2>1, <2>2, StepKeeps
<1>3. CASE UNCHANGED vars
  BY <1>3 DEF vars, SoloInv, TypeOK, LoadedAtWrites, Solo, Active, Inactive, Fresh, Leads, Counts,
     Rests, Balance, Unused, Busy, Exists, RunOf, Unrecorded, InFlight
<1>4. QED
  BY <1>1, <1>2, <1>3, SpawnKeeps, CrashKeeps, DeleteKeeps DEF Next

LEMMA SoloAlways ==
  ASSUME Overlap = FALSE
  PROVE  Spec => []SoloInv
  BY SoloInit, SoloStep, PTL DEF Spec

-----------------------------------------------------------------------------
(* The theorems.                                                           *)

\* Whatever fails, is deleted or is lost in a crash, a run that the database shows as
\* waiting has a checkpoint that waits at a human node, for a resume to answer.
THEOREM WaitingRunsResume ==
  ASSUME Overlap = FALSE
  PROVE  Spec => []WaitingIsResumable
<1>1. SoloInv => WaitingIsResumable
  BY DEF SoloInv, Inactive, WaitingIsResumable
<1>2. QED
  BY <1>1, SoloAlways, PTL

LEMMA BalanceAtRest ==
  ASSUME TypeOK, NEW r \in Runs, Balance(r, 0, 0)
  PROVE  /\ ledger[r].messages = ledger[r].usage
         /\ ledger[r].usage = row[r].total + paused[r]
<1>1. /\ ledger[r].messages \in Nat /\ ledger[r].usage \in Nat
      /\ row[r].total \in Nat /\ paused[r] \in Nat
  BY DEF TypeOK, RowType
<1>2. QED
  BY <1>1 DEF Balance

\* Until something is lost, the tokens of messages, of usage rows and of the totals agree
\* at every await of every segment, once the segments that paused are added.
THEOREM AccountsBalance ==
  ASSUME Overlap = FALSE
  PROVE  Spec => []AccountsAgree
<1>1. ASSUME SoloInv, ~disturbed, NEW r \in Runs, NEW e \in Execs, Busy(e, r)
      PROVE  /\ ledger[r].messages = ledger[r].usage + Unrecorded(e)
             /\ ledger[r].usage + Unrecorded(e) = row[r].total + paused[r] + InFlight(e)
  <2>1. Active(e) /\ RunOf(e) = r
    BY <1>1 DEF SoloInv, Busy
  <2>2. Balance(r, Unrecorded(e), InFlight(e))
    BY <1>1, <2>1 DEF Active, Counts
  <2>3. QED
    BY <2>2 DEF Balance
<1>2. ASSUME SoloInv, ~disturbed, NEW r \in Runs, \A e \in Execs : ~Busy(e, r)
      PROVE  /\ ledger[r].messages = ledger[r].usage
             /\ ledger[r].usage = row[r].total + paused[r]
  <2>1. TypeOK /\ Balance(r, 0, 0)
    BY <1>2 DEF SoloInv, Inactive, Rests
  <2>2. QED
    BY <2>1, BalanceAtRest
<1>3. SoloInv => AccountsAgree
  BY <1>1, <1>2 DEF AccountsAgree
<1>4. QED
  BY <1>3, SoloAlways, PTL

\* Until something is lost, the monitor shows the status of the row of each run that
\* rests.
THEOREM MonitorShowsTheRow ==
  ASSUME Overlap = FALSE
  PROVE  Spec => []MonitorAgrees
<1>1. SoloInv => MonitorAgrees
  BY DEF SoloInv, Inactive, Rests, MonitorAgrees
<1>2. QED
  BY <1>1, SoloAlways, PTL

-----------------------------------------------------------------------------
(* The refinement.  A segment is in progress from its first write on.      *)

Past(p) == p \notin {"idle", "start"}

\* What the row of a run says, if it is there, while its segment awaits at p.
Fits(p, s) ==
  /\ p \in {"startEvent", "open", "stream", "message", "usage", "probe", "question", "pause",
            "finish", "overspent"} => s \in {"running", "absent"}
  /\ p \in {"pauseEvent", "notify"} => s \in {"waiting_human", "absent"}
  /\ p \in {"finishEvent", "reply"} => s \in {"completed", "absent"}
  /\ p \in {"overspentEvent", "failureEvent"} => s \in {"failed", "absent"}
  /\ p = "failure" => s \in {"running", "waiting_human", "completed", "absent"}

Fitting == \A e \in Execs : Fits(pc[e], row[RunOf(e)].status)

RefInv == SoloInv /\ Fitting

\* The mapping of Lifecycle.
InProgress(r) == \E e \in Execs : Busy(e, r) /\ pc[e] # "start"
Progress == [r \in Runs |-> InProgress(r)]
Columns == [r \in Runs |-> row[r].status]

\* A step of an execution from p to q, with the status of its run going from s to t:
\* nothing, Begin, Settle, Withdraw or Close of RunLifecycle.
Moves(p, q, s, t) ==
  \/ t = s /\ (Past(p) <=> Past(q))
  \/ ~Past(p) /\ Past(q) /\ t = IF s = "absent" THEN s ELSE "running"
  \/ Past(p) /\ Past(q) /\ s = "running" /\ t \in {"waiting_human", "completed", "failed"}
  \/ Past(p) /\ Past(q) /\ s \in {"waiting_human", "completed"} /\ t = "failed"
  \/ Past(p) /\ ~Past(q) /\ t = s /\ (s = "running" => Faults \cap {"db", "crash"} # {})

\* What a step of e does to its run, and that the row fits where e awaits next.
Advances(e) == LET s == row[RunOf(e)].status
                   t == row'[RunOf(e)].status IN
  /\ Moves(pc[e], pc'[e], s, t)
  /\ Fits(pc'[e], t)

LEMMA RaiseAdvances ==
  ASSUME TypeOK, NEW e \in Execs, Fits(pc[e], row[RunOf(e)].status), Raise(e), UNCHANGED row,
         pc[e] \in InTry \cup {"start", "failure"},
         pc[e] = "failure" /\ row[RunOf(e)].status = "running" => Faults \cap {"db", "crash"} # {}
  PROVE  Advances(e)
<1>1. CASE pc[e] \in InTry
  <2>1. pc'[e] = "failure"
    BY <1>1 DEF Raise, Goto, TypeOK
  <2>2. QED
    BY <1>1, <2>1 DEF Advances, Moves, Fits, Past, InTry
<1>2. CASE pc[e] \in {"start", "failure"}
  <2>1. pc'[e] = "idle"
    BY <1>2 DEF Raise, Return, Goto, TypeOK, InTry
  <2>2. QED
    BY <1>2, <2>1 DEF Advances, Moves, Fits, Past
<1>3. QED
  BY <1>1, <1>2

LEMMA LoadAdvances ==
  ASSUME TypeOK, NEW e \in Execs, Fits(pc[e], row[RunOf(e)].status), Load(e)
  PROVE  Advances(e)
<1>1. UNCHANGED row /\ pc[e] \in Writes
  BY DEF Load, db
<1>2. CASE UNCHANGED pc
  BY <1>1, <1>2 DEF Advances, Moves
<1>3. CASE ~Exists(RunOf(e)) /\ Goto(e, EventOf[pc[e]])
  <2>1. pc'[e] = EventOf[pc[e]] /\ row[RunOf(e)].status = "absent"
    BY <1>3 DEF Goto, TypeOK, Exists
  <2>2. QED
    BY <1>1, <2>1 DEF Advances, Moves, Fits, Past, Writes, EventOf
<1>4. QED
  BY <1>2, <1>3 DEF Load

LEMMA CommitAdvances ==
  ASSUME SoloInv, NEW e \in Execs, Fits(pc[e], row[RunOf(e)].status), Commit(e)
  PROVE  Advances(e)
<1> DEFINE r == RunOf(e)
           s == Outcome[pc[e]]
<1>1. /\ TypeOK /\ r \in Runs /\ pc[e] \in Writes /\ frame[e].loaded
      /\ frame[e].read = row[r] \/ row[r].status = "absent"
  BY DEF Commit, SoloInv, Active, Fresh, Exists, TypeOK, FrameType, RunOf, Writes
<1>2. CASE Raise(e) /\ UNCHANGED <<row, paused>> /\ ~Exists(r)
  BY <1>1, <1>2, RaiseAdvances DEF Exists, Writes, InTry
<1> DEFINE updates == pc[e] \in Finalizing \/ frame[e].read.status # s
<1>3. CASE ~(updates /\ ~Exists(r))
  <2>1. /\ pc'[e] = EventOf[pc[e]]
        /\ row'[r].status = IF frame[e].read.status = s THEN row[r].status ELSE s
    BY <1>1, <1>3 DEF Commit, Goto, TypeOK
  <2>2. row'[r].status = IF row[r].status = "absent" THEN "absent" ELSE s
    BY <1>1, <1>3, <2>1 DEF Exists
  <2>3. QED
    BY <1>1, <2>1, <2>2 DEF Advances, Moves, Fits, Past, Writes, EventOf, Outcome
<1>4. CASE updates /\ ~Exists(r)
  BY <1>2, <1>4 DEF Commit
<1>5. QED
  BY <1>3, <1>4

LEMMA OthersAdvance ==
  ASSUME TypeOK, NEW e \in Execs, Fits(pc[e], row[RunOf(e)].status), Step(e),
         ~Load(e), ~Commit(e)
  PROVE  Advances(e)
<1>1. CASE Announce(e)
  <2>1. UNCHANGED row
    BY <1>1 DEF Announce, db
  <2>2. \/ pc[e] = "startEvent" /\ pc'[e] = "open"
        \/ pc[e] = "pauseEvent" /\ pc'[e] = "notify"
        \/ pc[e] = "finishEvent" /\ pc'[e] = "reply"
        \/ /\ pc[e] \in {"pauseEvent", "finishEvent", "overspentEvent", "failureEvent"}
           /\ pc'[e] = "idle"
    BY <1>1 DEF Announce, Return, Goto, TypeOK, Announced
  <2>3. QED
    BY <2>1, <2>2 DEF Advances, Moves, Fits, Past
<1>2. ASSUME UNCHANGED row, pc[e] \in {"open", "stream", "message", "usage", "probe", "question"},
             \/ Raise(e)
             \/ \E p \in {"stream", "message", "usage", "overspent", "probe", "finish",
                          "question", "pause"} : Goto(e, p)
      PROVE  Advances(e)
  <2>1. CASE Raise(e)
    BY <1>2, <2>1, RaiseAdvances DEF InTry
  <2>2. ASSUME NEW p \in {"stream", "message", "usage", "overspent", "probe", "finish",
                          "question", "pause"}, Goto(e, p)
        PROVE  Advances(e)
    <3>1. pc'[e] = p
      BY <2>2 DEF Goto, TypeOK
    <3>2. QED
      BY <1>2, <3>1 DEF Advances, Moves, Fits, Past
  <2>3. QED
    BY <1>2, <2>1, <2>2
<1>3. CASE Open(e)
  BY <1>2, <1>3 DEF Open, db
<1>4. CASE Superstep(e) \/ StreamRaises(e) \/ StreamInterrupts(e) \/ StreamEnds(e)
  <2>1. pc[e] = "stream" /\ UNCHANGED row
    BY <1>4 DEF Superstep, StreamRaises, StreamInterrupts, StreamEnds, Advance, db
  <2>2. \/ Raise(e)
        \/ \E p \in {"stream", "message", "question", "probe"} : Goto(e, p)
    BY <1>4 DEF Superstep, StreamRaises, StreamInterrupts, StreamEnds
  <2>3. QED
    BY <1>2, <2>1, <2>2
<1>5. CASE PersistMessage(e)
  <2>1. Raise(e) \/ Goto(e, "usage") \/ Goto(e, "stream")
    BY <1>5 DEF PersistMessage
  <2>2. QED
    BY <1>2, <1>5, <2>1 DEF PersistMessage
<1>6. CASE PersistUsage(e)
  <2>1. Raise(e) \/ Goto(e, "overspent") \/ Goto(e, "stream")
    BY <1>6 DEF PersistUsage, AfterUsage
  <2>2. QED
    BY <1>2, <1>6, <2>1 DEF PersistUsage
<1>7. CASE Probe(e)
  <2>1. Goto(e, "finish") \/ Goto(e, "question")
    BY <1>7 DEF Probe
  <2>2. QED
    BY <1>2, <1>7, <2>1 DEF Probe, db
<1>8. CASE PersistQuestion(e)
  <2>1. Raise(e) \/ Goto(e, "pause")
    BY <1>8 DEF PersistQuestion
  <2>2. QED
    BY <1>2, <1>8, <2>1 DEF PersistQuestion, db
<1>9. CASE Deliver(e)
  <2>1. UNCHANGED row /\ pc[e] \in {"notify", "reply"} /\ pc'[e] = "idle"
    BY <1>9 DEF Deliver, Return, Goto, TypeOK, db
  <2>2. QED
    BY <2>1 DEF Advances, Moves, Fits, Past
<1>10. CASE SendRaises(e)
  BY <1>10, RaiseAdvances DEF SendRaises, db, InTry
<1>11. CASE DbRaises(e)
  BY <1>11, RaiseAdvances DEF DbRaises, db, InTry, Writes
<1>12. QED
  BY <1>1, <1>3, <1>4, <1>5, <1>6, <1>7, <1>8, <1>9, <1>10, <1>11 DEF Step

LEMMA StepAdvances ==
  ASSUME RefInv, NEW e \in Execs, Step(e)
  PROVE  Advances(e) /\ Alone(e)
<1>1. TypeOK /\ SoloInv /\ Fits(pc[e], row[RunOf(e)].status)
  BY DEF RefInv, SoloInv, Fitting
<1>2. QED
  BY <1>1, StepAlone, LoadAdvances, CommitAdvances, OthersAdvance

\* A step of an execution is a step of RunLifecycle, and the rows still fit.
LEMMA StepRefines ==
  ASSUME RefInv, NEW e \in Execs, Step(e), NEW r \in Runs, r = RunOf(e)
  PROVE  Fitting' /\ [Lifecycle!Next]_(Lifecycle!lifecycle)
<1>0. TypeOK /\ TypeOK' /\ Solo
  BY TypeOKStep DEF RefInv, SoloInv, Next
<1>1. /\ Moves(pc[e], pc'[e], row[r].status, row'[r].status)
      /\ Fits(pc'[e], row'[r].status) /\ Alone(e)
  BY StepAdvances DEF Advances
<1>2. \A q \in Runs \ {r} : row'[q] = row[q] /\ (InProgress(q)' <=> InProgress(q))
  BY <1>1 DEF Alone, InProgress, Busy, RunOf
<1>3. InProgress(r) <=> Past(pc[e])
  BY <1>0, <1>1 DEF Alone, Solo, InProgress, Busy, Past, RunOf
<1>4. InProgress(r)' <=> Past(pc'[e])
  <2>1. \A x \in Execs \ {e} : pc'[x] = "idle" \/ RunOf(x)' # r
    BY <1>0, <1>1 DEF Alone, Solo, RunOf
  <2>2. pc'[e] # "idle" => RunOf(e)' = r
    BY <1>1 DEF Alone, RunOf
  <2>3. QED
    BY <2>1, <2>2 DEF InProgress, Busy, Past
<1>5. Fitting'
  <2>1. ASSUME NEW x \in Execs, x # e PROVE Fits(pc[x], row[RunOf(x)].status)'
    <3>1. pc'[x] = pc[x] /\ frame'[x] = frame[x] /\ Fits(pc[x], row[RunOf(x)].status)
      BY <1>1, <2>1 DEF Alone, RefInv, Fitting
    <3>2. CASE pc[x] = "idle"
      BY <3>1, <3>2 DEF Fits
    <3>3. CASE pc[x] # "idle"
      <4>1. RunOf(x) # r /\ RunOf(x) \in Runs
        BY <1>0, <1>1, <2>1, <3>3 DEF Alone, Solo, TypeOK, FrameType, RunOf
      <4>2. row'[RunOf(x)] = row[RunOf(x)] /\ RunOf(x)' = RunOf(x)
        BY <1>1, <3>1, <4>1 DEF Alone, RunOf
      <4>3. QED
        BY <3>1, <4>2
    <3>4. QED
      BY <3>2, <3>3
  <2>2. Fits(pc[e], row[RunOf(e)].status)'
    BY <1>1 DEF Alone, Fits, RunOf
  <2>3. QED
    BY <2>1, <2>2 DEF Fitting
<1>6. [Lifecycle!Next]_(Lifecycle!lifecycle)
  <2>1. Columns' = [Columns EXCEPT ![r] = row'[r].status]
    BY <1>0, <1>2 DEF Columns
  <2>2. Progress' = [Progress EXCEPT ![r] = Past(pc'[e])]
    <3>1. ASSUME NEW q \in Runs
          PROVE  InProgress(q)' = IF q = r THEN Past(pc'[e]) ELSE Progress[q]
      <4>1. CASE q = r
        <5>1. InProgress(r)' = Past(pc'[e])
          BY <1>4 DEF InProgress, Past
        <5>2. QED
          BY <4>1, <5>1, Zenon
      <4>2. CASE q # r
        <5>1. InProgress(q)' = InProgress(q)
          BY <1>2, <4>2 DEF InProgress
        <5>2. InProgress(q) = Progress[q]
          BY Zenon DEF Progress
        <5>3. QED
          BY <4>2, <5>1, <5>2, Zenon
      <4>3. QED
        BY <4>1, <4>2
    <3>2. Progress' = [q \in Runs |-> IF q = r THEN Past(pc'[e]) ELSE Progress[q]]
      BY <3>1, Zenon DEF Progress
    <3>3. [Progress EXCEPT ![r] = Past(pc'[e])]
            = [q \in Runs |-> IF q = r THEN Past(pc'[e]) ELSE Progress[q]]
      BY Zenon DEF Progress
    <3>4. QED
      BY <3>2, <3>3, Zenon
  <2>3. Columns[r] = row[r].status /\ (Progress[r] <=> Past(pc[e]))
    BY <1>3 DEF Columns, Progress
  <2>4. row'[r].status = row[r].status => Columns' = Columns
    BY <1>2 DEF Columns
  <2>5. (Past(pc[e]) <=> Past(pc'[e])) => Progress' = Progress
    <3>1. SUFFICES ASSUME Past(pc[e]) <=> Past(pc'[e]) PROVE Progress' = Progress
      OBVIOUS
    <3>2. ASSUME NEW q \in Runs PROVE InProgress(q)' = InProgress(q)
      <4>1. InProgress(q)' <=> InProgress(q)
        BY <1>2, <1>3, <1>4, <3>1
      <4>2. QED
        BY <4>1 DEF InProgress
    <3>3. QED
      BY <3>2, Zenon DEF Progress
  <2> DEFINE p == Past(pc[e])
             q == Past(pc'[e])
             s == row[r].status
             t == row'[r].status
  <2>6. CASE t = s /\ (p <=> q)
    BY <2>4, <2>5, <2>6 DEF Lifecycle!lifecycle, Columns, Progress, InProgress
  <2>7. CASE ~p /\ q /\ t = IF s = "absent" THEN s ELSE "running"
    <3>1. Lifecycle!Begin(r)
      BY <2>1, <2>2, <2>3, <2>7 DEF Lifecycle!Begin, Columns, Progress, InProgress
    <3>2. QED
      BY <3>1 DEF Lifecycle!Next
  <2>8. CASE p /\ q /\ s = "running" /\ t \in {"waiting_human", "completed", "failed"}
    <3>1. Lifecycle!Settle(r)
      BY <2>1, <2>3, <2>5, <2>8
      DEF Lifecycle!Settle, Lifecycle!Settled, Columns, Progress, InProgress
    <3>2. QED
      BY <3>1 DEF Lifecycle!Next
  <2>9. CASE p /\ q /\ s \in {"waiting_human", "completed"} /\ t = "failed"
    <3>1. Lifecycle!Withdraw(r)
      BY <2>1, <2>3, <2>5, <2>9 DEF Lifecycle!Withdraw, Columns, Progress, InProgress
    <3>2. QED
      BY <3>1 DEF Lifecycle!Next
  <2>10. CASE /\ p /\ ~q /\ t = s
              /\ s = "running" => Faults \cap {"db", "crash"} # {}
    <3>1. Lifecycle!Close(r)
      BY <2>2, <2>3, <2>4, <2>10 DEF Lifecycle!Close, Columns, Progress, InProgress
    <3>2. QED
      BY <3>1 DEF Lifecycle!Next
  <2>11. QED
    BY <1>1, <2>6, <2>7, <2>8, <2>9, <2>10 DEF Moves
<1>7. QED
  BY <1>5, <1>6

LEMMA SpawnRefines ==
  ASSUME Overlap = FALSE, RefInv, NEW e \in Execs, NEW r \in Runs,
         CreateRun(e, r) \/ ResumeRun(e, r)
  PROVE  Fitting' /\ [Lifecycle!Next]_(Lifecycle!lifecycle)
<1>0. TypeOK /\ Inactive(r)
  BY DEF RefInv, SoloInv
<1>1. /\ pc[e] = "idle" /\ pc'[e] = "start" /\ frame'[e].run = r
      /\ \A x \in Execs \ {e} : pc'[x] = pc[x] /\ frame'[x] = frame[x]
  BY <1>0, SpawnOne
<1>2. \A x \in Execs : ~Busy(x, r)
  <2>1. CASE CreateRun(e, r)
    BY <2>1 DEF CreateRun, RefInv, SoloInv, Active, Busy
  <2>2. CASE ResumeRun(e, r)
    BY <2>2 DEF ResumeRun
  <2>3. QED
    BY <2>1, <2>2
<1>3. \A q \in Runs \ {r} : row'[q] = row[q]
  BY <1>0 DEF CreateRun, ResumeRun, TypeOK
<1>4. Fitting'
  <2>1. ASSUME NEW x \in Execs, x # e PROVE Fits(pc[x], row[RunOf(x)].status)'
    <3>1. pc'[x] = pc[x] /\ frame'[x] = frame[x] /\ Fits(pc[x], row[RunOf(x)].status)
      BY <1>1, <2>1 DEF RefInv, Fitting
    <3>2. CASE pc[x] = "idle"
      BY <3>1, <3>2 DEF Fits
    <3>3. CASE pc[x] # "idle"
      <4>1. RunOf(x) # r /\ RunOf(x) \in Runs
        BY <1>0, <1>2, <3>3 DEF Busy, TypeOK, FrameType, RunOf
      <4>2. row'[RunOf(x)] = row[RunOf(x)] /\ RunOf(x)' = RunOf(x)
        BY <1>3, <3>1, <4>1 DEF RunOf
      <4>3. QED
        BY <3>1, <4>2
    <3>4. QED
      BY <3>2, <3>3
  <2>2. Fits(pc[e], row[RunOf(e)].status)'
    BY <1>1 DEF Fits
  <2>3. QED
    BY <2>1, <2>2 DEF Fitting
<1>5. Progress' = Progress
  <2>1. ASSUME NEW q \in Runs PROVE InProgress(q)' = InProgress(q)
    <3>1. InProgress(q)' <=> InProgress(q)
      BY <1>1 DEF InProgress, Busy, RunOf
    <3>2. QED
      BY <3>1 DEF InProgress
  <2>2. QED
    BY <2>1, Zenon DEF Progress
<1>6. CASE CreateRun(e, r)
  <2>1. row[r].status = "absent" /\ row' = [row EXCEPT ![r] = [status |-> "pending", total |-> 0]]
    BY <1>0, <1>6 DEF CreateRun, Inactive, Unused, NoRow
  <2>2. Columns[r] = "absent" /\ Columns' = [Columns EXCEPT ![r] = "pending"]
    BY <1>0, <2>1 DEF Columns, TypeOK
  <2>3. ~Progress[r]
    BY <1>2 DEF Progress, InProgress
  <2>4. Lifecycle!Accept(r)
    BY <1>5, <2>2, <2>3 DEF Lifecycle!Accept, Columns, Progress, InProgress
  <2>5. QED
    BY <1>4, <2>4 DEF Lifecycle!Next
<1>7. CASE ResumeRun(e, r)
  <2>1. Columns' = Columns
    BY <1>7 DEF ResumeRun, Columns
  <2>2. QED
    BY <1>4, <1>5, <2>1 DEF Lifecycle!lifecycle, Columns, Progress, InProgress
<1>8. QED
  BY <1>6, <1>7

LEMMA CrashRefines ==
  ASSUME RefInv, Crash
  PROVE  Fitting' /\ [Lifecycle!Next]_(Lifecycle!lifecycle)
<1>1. /\ UNCHANGED row /\ \A e \in Execs : pc'[e] = "idle"
      /\ Faults \cap {"db", "crash"} # {}
  BY DEF Crash, db
<1>2. Fitting'
  BY <1>1 DEF Fitting, Fits
<1>3. Columns' = Columns
  BY <1>1 DEF Columns
<1>4. Progress' = [r \in Runs |-> FALSE]
  <2>1. ASSUME NEW r \in Runs PROVE InProgress(r)' = FALSE
    BY <1>1 DEF InProgress, Busy
  <2>2. QED
    BY <2>1, Zenon DEF Progress
<1>5. Lifecycle!Stop
  BY <1>1, <1>3, <1>4 DEF Lifecycle!Stop, Columns, Progress, InProgress
<1>6. QED
  BY <1>2, <1>5 DEF Lifecycle!Next

LEMMA DeleteRefines ==
  ASSUME RefInv, NEW r \in Runs, DeleteRun(r)
  PROVE  Fitting' /\ [Lifecycle!Next]_(Lifecycle!lifecycle)
<1>0. TypeOK
  BY DEF RefInv, SoloInv
<1>1. /\ row[r].status # "absent" /\ row' = [row EXCEPT ![r] = NoRow]
      /\ UNCHANGED <<pc, frame>>
  BY DEF DeleteRun, Exists
<1>2. Fitting'
  <2>1. ASSUME NEW e \in Execs PROVE Fits(pc[e], row[RunOf(e)].status)'
    <3>1. /\ Fits(pc[e], row[RunOf(e)].status) /\ RunOf(e) \in Runs
          /\ row'[RunOf(e)].status \in {row[RunOf(e)].status, "absent"}
      BY <1>0, <1>1 DEF RefInv, Fitting, NoRow, RunOf, TypeOK, FrameType
    <3>2. QED
      BY <1>1, <3>1 DEF Fits, RunOf
  <2>2. QED
    BY <2>1 DEF Fitting
<1>3. Columns[r] # "absent" /\ Columns' = [Columns EXCEPT ![r] = "absent"]
  BY <1>0, <1>1 DEF Columns, NoRow, TypeOK
<1>4. Progress' = Progress
  BY <1>1 DEF Progress, InProgress, Busy, RunOf
<1>5. Lifecycle!Remove(r)
  BY <1>3, <1>4 DEF Lifecycle!Remove, Columns, Progress, InProgress
<1>6. QED
  BY <1>2, <1>5 DEF Lifecycle!Next

\* Executions that do not overlap keep the promise of RunLifecycle (its safety part),
\* for any number of runs, any graphs and caps, and whatever fails, is deleted or is lost
\* in a crash: executor.py overwrites no status behind the reader's back.
THEOREM KeepsThePromise ==
  ASSUME Overlap = FALSE
  PROVE  Spec => Lifecycle!Safety
<1>1. Init => Fitting /\ Lifecycle!Init
  <2> SUFFICES ASSUME Init PROVE Fitting /\ Lifecycle!Init
    OBVIOUS
  <2>1. Columns = [r \in Runs |-> "absent"] /\ \A e \in Execs : pc[e] = "idle"
    BY DEF Init, Columns, NoRow
  <2>2. Progress = [r \in Runs |-> FALSE]
    <3>1. ASSUME NEW r \in Runs PROVE InProgress(r) = FALSE
      BY <2>1 DEF InProgress, Busy
    <3>2. QED
      BY <3>1, Zenon DEF Progress
  <2>3. Fitting
    BY <2>1 DEF Fitting, Fits
  <2>4. QED
    BY <2>1, <2>2, <2>3 DEF Lifecycle!Init, Columns, Progress, InProgress
<1>2. SoloInv /\ Fitting /\ [Next]_vars => Fitting' /\ [Lifecycle!Next]_(Lifecycle!lifecycle)
  <2> SUFFICES ASSUME RefInv, [Next]_vars
               PROVE  Fitting' /\ [Lifecycle!Next]_(Lifecycle!lifecycle)
    BY DEF RefInv
  <2>1. ASSUME NEW e \in Execs, Step(e)
        PROVE  Fitting' /\ [Lifecycle!Next]_(Lifecycle!lifecycle)
    <3>1. RunOf(e) \in Runs
      BY DEF RefInv, SoloInv, TypeOK, FrameType, RunOf
    <3>2. QED
      BY <2>1, <3>1, StepRefines
  <2>2. CASE UNCHANGED vars
    <3>1. UNCHANGED <<row, pc, frame>>
      BY <2>2 DEF vars
    <3>2. Fitting'
      BY <3>1 DEF RefInv, Fitting, RunOf
    <3>3. Columns' = Columns /\ Progress' = Progress
      BY <3>1 DEF Columns, Progress, InProgress, Busy, RunOf
    <3>4. QED
      BY <3>2, <3>3 DEF Lifecycle!lifecycle, Columns, Progress, InProgress
  <2>3. QED
    BY <2>1, <2>2, SpawnRefines, CrashRefines, DeleteRefines DEF Next
<1>3. QED
  BY <1>1, <1>2, SoloAlways, PTL DEF Spec, Lifecycle!Safety
=============================================================================
