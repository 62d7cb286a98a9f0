--------------------------- MODULE ExecutorProofs ---------------------------
(***************************************************************************)
(* Theorems about Executor, for any number of runs and executions.         *)
(***************************************************************************)
EXTENDS Executor, TLAPS

LEMMA BlankType == Blank \in FrameType
  BY ConstantsAssumption DEF Blank, FrameType, RowType, NoRow, Statuses, Places

LEMMA FrameNat ==
  ASSUME NEW f \in FrameType
  PROVE  f.last \in Nat /\ f.tokens \in Nat /\ f.cap \in Nat
<1>1. \A S, x : S \subseteq Nat /\ x \in S \cup {0} => x \in Nat
  OBVIOUS
<1>2. MsgTokens \subseteq Nat /\ Caps \subseteq Nat
  BY ConstantsAssumption
<1>3. f.last \in MsgTokens \cup {0} /\ f.cap \in Caps \cup {0} /\ f.tokens \in Nat
  BY DEF FrameType
<1>4. QED
  BY <1>1, <1>2, <1>3, Zenon

LEMMA ReturnType ==
  ASSUME TypeOK, NEW e \in Execs, Return(e)
  PROVE  pc' \in [Execs -> PCs] /\ frame' \in [Execs -> FrameType]
  BY BlankType DEF TypeOK, Return, Goto, PCs

LEMMA RaiseType ==
  ASSUME TypeOK, NEW e \in Execs, Raise(e)
  PROVE  pc' \in [Execs -> PCs] /\ frame' \in [Execs -> FrameType]
<1>1. CASE pc[e] \in InTry
  <2>1. [frame[e] EXCEPT !.loaded = FALSE, !.read = NoRow] \in FrameType
    <3>1. frame[e] \in FrameType
      BY DEF TypeOK
    <3> QED
      BY <3>1 DEF FrameType, RowType, NoRow, Statuses
  <2>2. frame' = [frame EXCEPT ![e] = [frame[e] EXCEPT !.loaded = FALSE, !.read = NoRow]]
    BY <1>1 DEF Raise, TypeOK, FrameType
  <2>3. QED
    BY <1>1, <2>1, <2>2 DEF Raise, Goto, TypeOK, PCs, Writes
<1>2. CASE pc[e] \notin InTry
  BY <1>2, ReturnType DEF Raise
<1>3. QED
  BY <1>1, <1>2

LEMMA SpawnType ==
  ASSUME TypeOK, NEW e \in Execs, NEW r \in Runs, NEW c \in Caps, NEW b \in BOOLEAN,
         Spawn(e, r, c, b)
  PROVE  /\ pc' \in [Execs -> PCs]
         /\ frame' \in [Execs -> FrameType]
         /\ segments' \in [Runs -> 0 .. MaxSegments]
<1>1. [Blank EXCEPT !.run = r, !.cap = c, !.resuming = b] \in FrameType
  BY BlankType DEF FrameType
<1>2. segments' \in [Runs -> 0 .. MaxSegments]
  BY ConstantsAssumption DEF Spawn, TypeOK
<1>3. QED
  BY <1>1, <1>2 DEF Spawn, TypeOK, Goto, PCs, Writes

LEMMA TypeOKInit == Init => TypeOK
<1>1. NoRow \in RowType /\ "idle" \in PCs
  BY DEF NoRow, RowType, Statuses, PCs
<1>2. Init => row \in [Runs -> RowType] /\ frame \in [Execs -> FrameType]
              /\ pc \in [Execs -> PCs]
  BY <1>1, BlankType DEF Init
<1>3. Init => /\ ledger \in [Runs -> [messages : Nat, usage : Nat]]
              /\ thread \in [Runs -> Places \cup {"new"}]
              /\ shown \in [Runs -> Statuses]
              /\ segments \in [Runs -> 0 .. MaxSegments]
              /\ paused \in [Runs -> Nat]
  BY ConstantsAssumption DEF Init, Statuses
<1>4. Init => disturbed \in BOOLEAN
  BY Zenon DEF Init
<1> QED
  BY <1>2, <1>3, <1>4, Zenon DEF TypeOK

LEMMA TypeOKStep == TypeOK /\ [Next]_vars => TypeOK'
<1> SUFFICES ASSUME TypeOK, [Next]_vars PROVE TypeOK'
  OBVIOUS
<1> USE ConstantsAssumption
<1>1. ASSUME NEW e \in Execs, NEW r \in Runs, CreateRun(e, r) PROVE TypeOK'
  <2>1. PICK c \in Caps : Spawn(e, r, c, FALSE)
    BY <1>1 DEF CreateRun
  <2>2. row' \in [Runs -> RowType]
    BY <1>1 DEF CreateRun, TypeOK, RowType, Statuses
  <2>3. QED
    BY <1>1, <2>1, <2>2, SpawnType DEF CreateRun, TypeOK
<1>2. ASSUME NEW e \in Execs, NEW r \in Runs, ResumeRun(e, r) PROVE TypeOK'
  BY <1>2, SpawnType DEF ResumeRun, TypeOK
<1>3. ASSUME NEW e \in Execs, Load(e) PROVE TypeOK'
  <2>1. pc' \in [Execs -> PCs]
    BY <1>3 DEF Load, TypeOK, Goto, PCs, Writes, EventOf, Announced
  <2>2. RunOf(e) \in Runs /\ row[RunOf(e)] \in RowType
    BY DEF RunOf, TypeOK, FrameType
  <2>3. [frame[e] EXCEPT !.loaded = TRUE, !.read = row[RunOf(e)]] \in FrameType
    BY <2>2, ZenonT(60) DEF TypeOK, FrameType
  <2>4. frame' \in [Execs -> FrameType]
    BY <1>3, <2>3 DEF Load, TypeOK, FrameType
  <2>5. QED
    BY <1>3, <2>1, <2>4 DEF Load, TypeOK, db
<1>4. ASSUME NEW e \in Execs, Commit(e) PROVE TypeOK'
  <2> DEFINE r == RunOf(e)
             s == Outcome[pc[e]]
             added == IF pc[e] \in Finalizing THEN frame[e].tokens ELSE 0
             new == [status |-> IF frame[e].read.status = s THEN row[r].status ELSE s,
                     total |-> IF added = 0 THEN row[r].total
                                            ELSE frame[e].read.total + added]
  <2>1. r \in Runs /\ frame[e] \in FrameType /\ row[r] \in RowType
    BY DEF RunOf, TypeOK, FrameType
  <2>2. s \in Statuses
    BY <1>4 DEF Commit, Writes, Outcome, Statuses
  <2>3. new \in RowType
    BY <2>1, <2>2 DEF RowType, FrameType
  <2>4. row' \in [Runs -> RowType]
    BY <1>4, <2>1, <2>3 DEF Commit, TypeOK
  <2>5. paused' \in [Runs -> Nat]
    <3>1. frame[e].tokens \in Nat /\ paused[r] \in Nat
      BY <2>1 DEF TypeOK, FrameType
    <3>2. paused[r] + frame[e].tokens \in Nat
      BY <3>1
    <3>3. QED
      BY <1>4, <2>1, <3>1, <3>2 DEF Commit, TypeOK
  <2>6. pc' \in [Execs -> PCs] /\ frame' \in [Execs -> FrameType]
    <3>1. CASE Raise(e)
      BY <3>1, RaiseType
    <3>2. CASE Goto(e, EventOf[pc[e]])
               /\ frame' = [frame EXCEPT ![e].loaded = FALSE, ![e].read = NoRow]
      <4>1. [frame[e] EXCEPT !.loaded = FALSE, !.read = NoRow] \in FrameType
        BY <2>1 DEF FrameType, RowType, NoRow, Statuses
      <4>2. frame' \in [Execs -> FrameType]
        BY <3>2, <4>1 DEF TypeOK, FrameType
      <4>3. QED
        BY <1>4, <3>2, <4>2 DEF Commit, Goto, TypeOK, PCs, Writes, EventOf, Announced
    <3>3. QED
      BY <1>4, <3>1, <3>2 DEF Commit
  <2>7. QED
    BY <1>4, <2>4, <2>5, <2>6 DEF Commit, TypeOK
<1>5. ASSUME NEW e \in Execs, Announce(e) PROVE TypeOK'
  <2>1. shown' \in [Runs -> Statuses]
    BY <1>5 DEF Announce, TypeOK, Announced, Statuses
  <2>2. pc' \in [Execs -> PCs] /\ frame' \in [Execs -> FrameType]
    BY <1>5, ReturnType DEF Announce, Goto, TypeOK, PCs, InTry
  <2>3. QED
    BY <1>5, <2>1, <2>2 DEF Announce, TypeOK, db
<1>6. ASSUME NEW e \in Execs, Open(e) PROVE TypeOK'
  <2>1. thread' \in [Runs -> Places \cup {"new"}]
    BY <1>6 DEF Open, TypeOK, Places
  <2>2. pc' \in [Execs -> PCs] /\ frame' \in [Execs -> FrameType]
    <3>1. CASE Raise(e)
      BY <3>1, RaiseType
    <3>2. CASE /\ thread' = [thread EXCEPT ![RunOf(e)] = IF @ = "new" THEN "node" ELSE @]
               /\ frame' = [frame EXCEPT ![e].at = thread'[RunOf(e)]]
               /\ Goto(e, "stream")
      <4>1. thread'[RunOf(e)] \in Places
        BY <3>2 DEF TypeOK, RunOf, FrameType, Places
      <4>2. [frame[e] EXCEPT !.at = thread'[RunOf(e)]] \in FrameType
        BY <4>1, ZenonT(60) DEF TypeOK, FrameType
      <4>3. QED
        BY <3>2, <4>2 DEF TypeOK, Goto, PCs, InTry, FrameType
    <3>3. QED
      BY <1>6, <3>1, <3>2 DEF Open
  <2>3. QED
    BY <1>6, <2>1, <2>2 DEF Open, TypeOK, db
<1>7. ASSUME NEW e \in Execs, Advance(e)
      PROVE  /\ thread' \in [Runs -> Places \cup {"new"}]
             /\ TypeOK /\ pc' \in [Execs -> PCs] /\ frame' \in [Execs -> FrameType] => TypeOK'
  BY <1>7 DEF Advance, TypeOK, FrameType, db
<1>8. ASSUME NEW e \in Execs, Superstep(e) PROVE TypeOK'
  <2>1. PICK next \in Places, t \in MsgTokens \cup {0}, kind \in {"silent", "other", "ai"} :
          /\ frame' = [frame EXCEPT ![e].steps = @ + 1, ![e].at = next, ![e].last = t,
                                    ![e].resuming = FALSE, ![e].spoke = @ \/ kind = "ai"]
          /\ Goto(e, IF kind = "silent" THEN "stream" ELSE "message")
    BY <1>8, ZenonT(60) DEF Superstep
  <2>2. frame[e].steps + 1 \in 0 .. RecursionLimit
    BY <1>8, ConstantsAssumption DEF Superstep, WithinLimit, TypeOK, FrameType
  <2>3. [frame[e] EXCEPT !.steps = @ + 1, !.at = next, !.last = t, !.resuming = FALSE,
                         !.spoke = @ \/ kind = "ai"] \in FrameType
    <3>1. (frame[e].spoke \/ kind = "ai") \in BOOLEAN
      OBVIOUS
    <3>2. t \in Nat
      OBVIOUS
    <3>3. QED
      BY <2>2, <3>1, <3>2, ZenonT(60) DEF TypeOK, FrameType
  <2>4. frame' \in [Execs -> FrameType]
    BY <2>1, <2>3 DEF TypeOK, FrameType
  <2>5. QED
    BY <1>7, <1>8, <2>1, <2>4 DEF Superstep, TypeOK, Goto, PCs, InTry
<1>9. ASSUME NEW e \in Execs, StreamRaises(e) PROVE TypeOK'
  BY <1>7, <1>9, RaiseType DEF StreamRaises
<1>10. ASSUME NEW e \in Execs, StreamInterrupts(e) \/ StreamEnds(e) PROVE TypeOK'
  BY <1>7, <1>10 DEF StreamInterrupts, StreamEnds, TypeOK, Goto, PCs, InTry
<1>11. ASSUME NEW e \in Execs, PersistMessage(e) PROVE TypeOK'
  <2>1. RunOf(e) \in Runs /\ frame[e] \in FrameType
    BY DEF RunOf, TypeOK, FrameType
  <2>2. [frame[e] EXCEPT !.tokens = @ + frame[e].last] \in FrameType
    BY <2>1 DEF FrameType
  <2>3. ledger' \in [Runs -> [messages : Nat, usage : Nat]]
    <3>1. [ledger[RunOf(e)] EXCEPT !.messages = @ + frame[e].last]
            \in [messages : Nat, usage : Nat]
      BY <2>1 DEF TypeOK, FrameType
    <3>2. QED
      BY <1>11, <2>1, <3>1 DEF PersistMessage, TypeOK
  <2>4. pc' \in [Execs -> PCs] /\ frame' \in [Execs -> FrameType]
    BY <1>11, <2>2, RaiseType DEF PersistMessage, TypeOK, Goto, PCs, InTry
  <2>5. QED
    BY <1>11, <2>3, <2>4 DEF PersistMessage, TypeOK
<1>12. ASSUME NEW e \in Execs, PersistUsage(e) PROVE TypeOK'
  <2>1. RunOf(e) \in Runs /\ frame[e] \in FrameType
    BY DEF RunOf, TypeOK, FrameType
  <2>2. [frame[e] EXCEPT !.last = 0] \in FrameType
    BY <2>1 DEF FrameType
  <2>3. ledger' \in [Runs -> [messages : Nat, usage : Nat]]
    <3>1. [ledger[RunOf(e)] EXCEPT !.usage = @ + frame[e].last]
            \in [messages : Nat, usage : Nat]
      BY <2>1 DEF TypeOK, FrameType
    <3>2. QED
      BY <1>12, <2>1, <3>1 DEF PersistUsage, TypeOK
  <2>4. CASE Raise(e)
    BY <1>12, <2>3, <2>4, RaiseType DEF PersistUsage, TypeOK
  <2>5. CASE frame' = [frame EXCEPT ![e].last = 0]
    <3>1. frame' \in [Execs -> FrameType]
      BY <2>2, <2>5 DEF TypeOK, FrameType
    <3>2. pc' \in [Execs -> PCs]
      BY <1>12, RaiseType DEF AfterUsage, PersistUsage, TypeOK, Goto, PCs, InTry
    <3>3. QED
      BY <1>12, <2>3, <3>1, <3>2 DEF PersistUsage, TypeOK
  <2>6. QED
    BY <1>12, <2>4, <2>5 DEF PersistUsage
<1>13. ASSUME NEW e \in Execs, Probe(e) PROVE TypeOK'
  BY <1>13 DEF Probe, TypeOK, Goto, PCs, Writes, InTry, db
<1>14. ASSUME NEW e \in Execs, PersistQuestion(e) PROVE TypeOK'
  BY <1>14, RaiseType DEF PersistQuestion, TypeOK, Goto, PCs, Writes, db
<1>15. ASSUME NEW e \in Execs, Deliver(e) PROVE TypeOK'
  BY <1>15, ReturnType DEF Deliver, TypeOK, db
<1>16. ASSUME NEW e \in Execs, SendRaises(e) \/ DbRaises(e) PROVE TypeOK'
  BY <1>16, RaiseType DEF SendRaises, DbRaises, TypeOK, db
<1>17. CASE Crash
  BY <1>17, BlankType DEF Crash, TypeOK, PCs, db
<1>18. ASSUME NEW r \in Runs, DeleteRun(r) PROVE TypeOK'
  BY <1>18 DEF DeleteRun, TypeOK, RowType, NoRow, Statuses
<1>19. CASE UNCHANGED vars
  BY <1>19 DEF vars, TypeOK
<1>20. QED
  BY <1>1, <1>2, <1>3, <1>4, <1>5, <1>6, <1>8, <1>9, <1>10, <1>11, <1>12, <1>13, <1>14,
     <1>15, <1>16, <1>17, <1>18, <1>19 DEF Next, Step

\* Every variable keeps its type, whatever fails and however executions overlap.
THEOREM TypeCorrect == Spec => []TypeOK
  BY TypeOKInit, TypeOKStep, PTL DEF Spec

-----------------------------------------------------------------------------
(* The budget.                                                             *)

\* A step of e is e's alone: it moves no other execution.
LEMMA OthersUnmoved ==
  ASSUME TypeOK, NEW e \in Execs, Step(e), NEW x \in Execs, x # e
  PROVE  pc'[x] = pc[x] /\ frame'[x] = frame[x]
  BY ZenonT(60) DEF TypeOK, Step, Load, Commit, Announce, Open, Superstep, StreamRaises,
         StreamInterrupts, StreamEnds, Advance, PersistMessage, PersistUsage, Probe,
         PersistQuestion, Deliver, SendRaises, DbRaises, Raise, Return, Goto

\* Creating or resuming a run starts one idle execution with empty locals.
LEMMA SpawnOne ==
  ASSUME TypeOK, NEW e \in Execs, NEW r \in Runs, CreateRun(e, r) \/ ResumeRun(e, r)
  PROVE  /\ pc[e] = "idle" /\ pc'[e] = "start" /\ frame'[e].run = r
         /\ frame'[e].tokens = 0 /\ ~frame'[e].loaded
         /\ \A x \in Execs \ {e} : pc'[x] = pc[x] /\ frame'[x] = frame[x]
<1>1. PICK c \in Caps, b \in BOOLEAN : Spawn(e, r, c, b)
  BY DEF CreateRun, ResumeRun
<1>2. frame'[e] = [Blank EXCEPT !.run = r, !.cap = c, !.resuming = b]
  BY <1>1 DEF Spawn, TypeOK
<1>3. frame'[e].run = r /\ frame'[e].tokens = 0 /\ ~frame'[e].loaded
  BY <1>2 DEF Blank
<1>4. QED
  BY <1>1, <1>3 DEF Spawn, Goto, TypeOK

\* Where an execution that has overspent may be.
Overspending == {"usage", "overspent", "overspentEvent", "failure", "failureEvent"}

LEMMA BlankWithinBudget == ~OverBudget(Blank)
  BY DEF OverBudget, Blank

LEMMA RaiseWithinBudget ==
  ASSUME TypeOK, NEW e \in Execs, Raise(e), OverBudget(frame[e]) => pc[e] \in Overspending
  PROVE  OverBudget(frame'[e]) => pc'[e] \in Overspending
<1>1. CASE pc[e] \in InTry
  BY <1>1 DEF Raise, Goto, TypeOK, Overspending
<1>2. CASE pc[e] \notin InTry
  BY <1>2, BlankWithinBudget DEF Raise, Return, TypeOK
<1>3. QED
  BY <1>1, <1>2

\* The execution that steps stays within its budget or on the way to "failed".
LEMMA BudgetOfStepper ==
  ASSUME TypeOK, BudgetEnforced, NEW e \in Execs, Step(e)
  PROVE  OverBudget(frame'[e]) => pc'[e] \in Overspending
<1>1. OverBudget(frame[e]) => pc[e] \in Overspending
  BY DEF BudgetEnforced, Overspending
<1>2. CASE Load(e)
  <2>1. frame'[e].tokens = frame[e].tokens /\ frame'[e].cap = frame[e].cap
    BY <1>2 DEF Load, TypeOK, FrameType
  <2>2. pc'[e] = pc[e] \/ (pc'[e] = EventOf[pc[e]] /\ pc[e] \in Writes)
    BY <1>2 DEF Load, Goto, TypeOK
  <2>3. QED
    BY <1>1, <2>1, <2>2 DEF OverBudget, Overspending, Writes, EventOf
<1>3. CASE Commit(e)
  <2>1. CASE Raise(e)
    BY <1>1, <2>1, RaiseWithinBudget
  <2>2. CASE /\ Goto(e, EventOf[pc[e]])
             /\ frame' = [frame EXCEPT ![e].loaded = FALSE, ![e].read = NoRow]
    <3>1. frame'[e].tokens = frame[e].tokens /\ frame'[e].cap = frame[e].cap
      BY <2>2 DEF TypeOK, FrameType
    <3>2. pc'[e] = EventOf[pc[e]] /\ pc[e] \in Writes
      BY <1>3, <2>2 DEF Commit, Goto, TypeOK
    <3>3. QED
      BY <1>1, <3>1, <3>2 DEF OverBudget, Overspending, Writes, EventOf
  <2>3. QED
    BY <1>3, <2>1, <2>2 DEF Commit
<1>4. CASE Announce(e)
  BY <1>1, <1>4, BlankWithinBudget
  DEF Announce, Return, Goto, TypeOK, Overspending
<1>5. CASE Open(e)
  <2>1. CASE Raise(e)
    BY <1>1, <2>1, RaiseWithinBudget
  <2>2. CASE frame' = [frame EXCEPT ![e].at = thread'[RunOf(e)]]
    <3>1. frame'[e].tokens = frame[e].tokens /\ frame'[e].cap = frame[e].cap
      BY <2>2 DEF TypeOK, FrameType
    <3>2. QED
      BY <1>1, <1>5, <3>1 DEF Open, OverBudget, Overspending
  <2>3. QED
    BY <1>5, <2>1, <2>2 DEF Open
<1>6. CASE Superstep(e)
  <2>1. ~OverBudget(frame[e])
    BY <1>1, <1>6 DEF Superstep, Advance, Overspending
  <2>2. frame'[e].tokens = frame[e].tokens /\ frame'[e].cap = frame[e].cap
    BY <1>6 DEF Superstep, TypeOK, FrameType
  <2>3. QED
    BY <2>1, <2>2 DEF OverBudget
<1>7. CASE StreamRaises(e)
  BY <1>1, <1>7, RaiseWithinBudget DEF StreamRaises
<1>8. CASE StreamInterrupts(e) \/ StreamEnds(e)
  BY <1>1, <1>8 DEF StreamInterrupts, StreamEnds, Advance, Goto, TypeOK, Overspending
<1>9. CASE PersistMessage(e)
  <2>1. CASE Raise(e)
    BY <1>1, <2>1, RaiseWithinBudget
  <2>2. CASE /\ frame' = [frame EXCEPT ![e] = [frame[e] EXCEPT !.tokens = @ + frame[e].last]]
             /\ Goto(e, IF frame[e].last > 0 THEN "usage" ELSE "stream")
    <3>1. ~OverBudget(frame[e])
      BY <1>1, <1>9 DEF PersistMessage, Overspending
    <3>2. frame[e].last \in Nat /\ frame[e].tokens \in Nat /\ frame[e].cap \in Nat
      BY FrameNat DEF TypeOK
    <3>3. frame'[e].tokens = frame[e].tokens + frame[e].last /\ frame'[e].cap = frame[e].cap
      BY <2>2 DEF TypeOK, FrameType
    <3>4. CASE frame[e].last > 0
      BY <2>2, <3>4 DEF Goto, TypeOK, Overspending
    <3>5. CASE frame[e].last = 0
      BY <3>1, <3>2, <3>3, <3>5 DEF OverBudget
    <3>6. QED
      BY <3>2, <3>4, <3>5
  <2>3. QED
    BY <1>9, <2>1, <2>2 DEF PersistMessage, TypeOK, FrameType
<1>10. CASE PersistUsage(e)
  <2>1. CASE Raise(e)
    BY <1>1, <2>1, RaiseWithinBudget
  <2>2. CASE /\ frame' = [frame EXCEPT ![e].last = 0]
             /\ Goto(e, IF OverBudget(frame[e]) THEN "overspent" ELSE "stream")
    BY <2>2 DEF Goto, TypeOK, FrameType, OverBudget, Overspending
  <2>3. QED
    BY <1>10, <2>1, <2>2 DEF AfterUsage, PersistUsage
<1>11. CASE Probe(e)
  BY <1>1, <1>11 DEF Probe, Goto, TypeOK, Overspending
<1>12. CASE PersistQuestion(e)
  BY <1>1, <1>12, RaiseWithinBudget DEF PersistQuestion, Goto, TypeOK, Overspending
<1>13. CASE Deliver(e)
  BY <1>13, BlankWithinBudget DEF Deliver, Return, TypeOK
<1>14. CASE SendRaises(e) \/ DbRaises(e)
  BY <1>1, <1>14, RaiseWithinBudget DEF SendRaises, DbRaises
<1>15. QED
  BY <1>2, <1>3, <1>4, <1>5, <1>6, <1>7, <1>8, <1>9, <1>10, <1>11, <1>12, <1>13, <1>14
  DEF Step

LEMMA BudgetStep == TypeOK /\ BudgetEnforced /\ [Next]_vars => BudgetEnforced'
<1> SUFFICES ASSUME TypeOK, BudgetEnforced, [Next]_vars, NEW x \in Execs, OverBudget(frame'[x])
             PROVE  pc'[x] \in Overspending
  BY DEF BudgetEnforced, Overspending
<1>1. OverBudget(frame[x]) => pc[x] \in Overspending
  BY DEF BudgetEnforced, Overspending
<1>2. ASSUME NEW e \in Execs, Step(e) PROVE pc'[x] \in Overspending
  BY <1>1, <1>2, BudgetOfStepper, OthersUnmoved
<1>3. ASSUME NEW e \in Execs, NEW r \in Runs, CreateRun(e, r) \/ ResumeRun(e, r)
      PROVE  pc'[x] \in Overspending
  <2>1. CASE x = e
    <3>1. frame'[x].tokens = 0 /\ frame'[x].cap \in Nat
      BY <1>3, <2>1, SpawnOne, TypeOKStep, FrameNat DEF TypeOK
    <3>2. QED
      BY <3>1 DEF OverBudget
  <2>2. CASE x # e
    BY <1>1, <1>3, <2>2, SpawnOne
  <2>3. QED
    BY <2>1, <2>2
<1>4. CASE Crash
  BY <1>4, BlankWithinBudget DEF Crash
<1>5. ASSUME NEW r \in Runs, DeleteRun(r) PROVE pc'[x] \in Overspending
  BY <1>1, <1>5 DEF DeleteRun
<1>6. CASE UNCHANGED vars
  BY <1>1, <1>6 DEF vars
<1>7. QED
  BY <1>2, <1>3, <1>4, <1>5, <1>6 DEF Next

\* The budget guardrail: whatever fails, an execution over its budget is on its
\* way to "failed" and runs no further node.
THEOREM BudgetHolds == Spec => []BudgetEnforced
<1>1. Init => BudgetEnforced
  BY BlankWithinBudget DEF Init, BudgetEnforced
<1>2. QED
  BY <1>1, BudgetStep, TypeCorrect, PTL DEF Spec

\* What may become of the budget and of the tokens of an execution in one step.
Spent(f, g) == g.tokens = f.tokens /\ g.cap = f.cap

LEMMA BlankSpent == Blank.tokens = 0 /\ Blank.cap = 0
  BY DEF Blank

LEMMA RaiseSpends ==
  ASSUME TypeOK, NEW e \in Execs, Raise(e)
  PROVE  frame'[e] = Blank \/ Spent(frame[e], frame'[e])
  BY DEF Raise, Return, TypeOK, FrameType, Spent

\* Only a message that is stored adds to the tokens, and only within the budget.
LEMMA StepSpends ==
  ASSUME TypeOK, BudgetEnforced, NEW e \in Execs, Step(e)
  PROVE  \/ frame'[e] = Blank
         \/ Spent(frame[e], frame'[e])
         \/ /\ ~OverBudget(frame[e]) /\ frame'[e].cap = frame[e].cap
            /\ frame'[e].tokens = frame[e].tokens + frame[e].last
<1>1. CASE PersistMessage(e)
  <2>1. CASE Raise(e)
    BY <2>1, RaiseSpends
  <2>2. CASE frame' = [frame EXCEPT ![e] = [frame[e] EXCEPT !.tokens = @ + frame[e].last]]
    <3>1. frame'[e].tokens = frame[e].tokens + frame[e].last /\ frame'[e].cap = frame[e].cap
      BY <2>2 DEF TypeOK, FrameType
    <3>2. ~OverBudget(frame[e])
      BY <1>1 DEF PersistMessage, BudgetEnforced
    <3>3. QED
      BY <3>1, <3>2
  <2>3. QED
    BY <1>1, <2>1, <2>2 DEF PersistMessage, TypeOK, FrameType
<1>2. CASE Load(e)
  BY <1>2 DEF Load, TypeOK, FrameType, Spent
<1>3. CASE Commit(e)
  <2>1. CASE Raise(e)
    BY <2>1, RaiseSpends
  <2>2. CASE frame' = [frame EXCEPT ![e].loaded = FALSE, ![e].read = NoRow]
    BY <2>2 DEF TypeOK, FrameType, Spent
  <2>3. QED
    BY <1>3, <2>1, <2>2 DEF Commit
<1>4. CASE Announce(e)
  BY <1>4 DEF Announce, Return, Goto, TypeOK, FrameType, Spent
<1>5. CASE Open(e)
  <2>1. CASE Raise(e)
    BY <2>1, RaiseSpends
  <2>2. CASE frame' = [frame EXCEPT ![e].at = thread'[RunOf(e)]]
    BY <2>2 DEF TypeOK, FrameType, Spent
  <2>3. QED
    BY <1>5, <2>1, <2>2 DEF Open
<1>6. CASE Superstep(e)
  BY <1>6 DEF Superstep, TypeOK, FrameType, Spent
<1>7. CASE StreamRaises(e) \/ SendRaises(e) \/ DbRaises(e)
  BY <1>7, RaiseSpends DEF StreamRaises, SendRaises, DbRaises
<1>8. CASE StreamInterrupts(e) \/ StreamEnds(e) \/ Probe(e)
  BY <1>8 DEF StreamInterrupts, StreamEnds, Probe, Advance, Goto, TypeOK, FrameType, Spent
<1>9. CASE PersistUsage(e)
  <2>1. CASE Raise(e)
    BY <2>1, RaiseSpends
  <2>2. CASE frame' = [frame EXCEPT ![e].last = 0]
    BY <2>2 DEF TypeOK, FrameType, Spent
  <2>3. QED
    BY <1>9, <2>1, <2>2 DEF PersistUsage
<1>10. CASE PersistQuestion(e)
  <2>1. CASE Raise(e)
    BY <2>1, RaiseSpends
  <2>2. CASE UNCHANGED frame
    BY <2>2 DEF Spent
  <2>3. QED
    BY <1>10, <2>1, <2>2 DEF PersistQuestion, TypeOK, FrameType, Spent
<1>11. CASE Deliver(e)
  BY <1>11 DEF Deliver, Return, TypeOK, FrameType, Spent
<1>12. QED
  BY <1>1, <1>2, <1>3, <1>4, <1>5, <1>6, <1>7, <1>8, <1>9, <1>10, <1>11 DEF Step

WithinOvershoot(f) == f.cap > 0 => \E t \in MsgTokens \cup {0} : f.tokens <= f.cap + t

LEMMA NoTokens ==
  ASSUME NEW f, f.tokens = 0, f.cap \in Nat
  PROVE  WithinOvershoot(f)
<1>1. 0 \in MsgTokens \cup {0} /\ f.tokens <= f.cap + 0
  OBVIOUS
<1>2. QED
  BY <1>1 DEF WithinOvershoot

\* The tokens exceed the budget by the last message at most.
LEMMA OvershootOfStepper ==
  ASSUME TypeOK, BudgetEnforced, NEW e \in Execs, Step(e), WithinOvershoot(frame[e])
  PROVE  WithinOvershoot(frame'[e])
<1>1. CASE frame'[e] = Blank
  BY <1>1, BlankSpent, NoTokens
<1>2. CASE Spent(frame[e], frame'[e])
  BY <1>2 DEF Spent, WithinOvershoot
<1>3. CASE /\ ~OverBudget(frame[e]) /\ frame'[e].cap = frame[e].cap
           /\ frame'[e].tokens = frame[e].tokens + frame[e].last
  <2>1. frame[e].last \in MsgTokens \cup {0}
    BY DEF TypeOK, FrameType
  <2>2. frame[e].last \in Nat /\ frame[e].tokens \in Nat /\ frame[e].cap \in Nat
    BY FrameNat DEF TypeOK
  <2>3. frame'[e].cap > 0 => frame'[e].tokens <= frame'[e].cap + frame[e].last
    BY <1>3, <2>2 DEF OverBudget
  <2>4. QED
    BY <2>1, <2>3 DEF WithinOvershoot
<1>4. QED
  BY <1>1, <1>2, <1>3, StepSpends

LEMMA OvershootStep ==
  TypeOK /\ BudgetEnforced /\ OvershootBounded /\ [Next]_vars => OvershootBounded'
<1> SUFFICES ASSUME TypeOK, BudgetEnforced, OvershootBounded, [Next]_vars, NEW x \in Execs
             PROVE  WithinOvershoot(frame'[x])
  BY DEF OvershootBounded, WithinOvershoot
<1>1. WithinOvershoot(frame[x])
  BY DEF OvershootBounded, WithinOvershoot
<1>2. ASSUME NEW e \in Execs, Step(e) PROVE WithinOvershoot(frame'[x])
  BY <1>1, <1>2, OvershootOfStepper, OthersUnmoved
<1>3. ASSUME NEW e \in Execs, NEW r \in Runs, CreateRun(e, r) \/ ResumeRun(e, r)
      PROVE  WithinOvershoot(frame'[x])
  <2>1. CASE x = e
    <3>1. frame'[x].tokens = 0 /\ frame'[x].cap \in Nat
      BY <1>3, <2>1, SpawnOne, TypeOKStep, FrameNat DEF TypeOK
    <3>2. QED
      BY <3>1, NoTokens
  <2>2. CASE x # e
    BY <1>1, <1>3, <2>2, SpawnOne
  <2>3. QED
    BY <2>1, <2>2
<1>4. CASE Crash
  BY <1>4, BlankSpent, NoTokens DEF Crash
<1>5. ASSUME NEW r \in Runs, DeleteRun(r) PROVE WithinOvershoot(frame'[x])
  BY <1>1, <1>5 DEF DeleteRun
<1>6. CASE UNCHANGED vars
  BY <1>1, <1>6 DEF vars
<1>7. QED
  BY <1>2, <1>3, <1>4, <1>5, <1>6 DEF Next

\* The four awaits between a message and the check of the budget cost one message, not
\* two, whatever fails in them and wherever the graph goes.
THEOREM OvershootIsOneMessage == Spec => []OvershootBounded
<1>1. Init => OvershootBounded
  BY BlankSpent DEF Init, OvershootBounded
<1>2. TypeOK /\ BudgetEnforced /\ OvershootBounded /\ [Next]_vars => OvershootBounded'
  BY OvershootStep
<1>3. QED
  BY <1>1, <1>2, TypeCorrect, BudgetHolds, PTL DEF Spec

-----------------------------------------------------------------------------
(* Overlapping executions.                                                 *)

LEMMA RaiseUnloads ==
  ASSUME TypeOK, NEW e \in Execs, Raise(e)
  PROVE  /\ ~frame'[e].loaded
         /\ pc[e] \in InTry => pc'[e] = "failure" /\ frame'[e].run = frame[e].run
  BY DEF Raise, Return, Goto, Blank, TypeOK, FrameType

LEMMA LoadedOfStepper ==
  ASSUME TypeOK, LoadedAtWrites, NEW e \in Execs, Step(e)
  PROVE  frame'[e].loaded => pc'[e] \in Writes
<1> USE DEF TypeOK
<1>1. frame[e].loaded => pc[e] \in Writes
  BY DEF LoadedAtWrites
<1>2. CASE Load(e)
  BY <1>1, <1>2 DEF Load, Goto, FrameType
<1>3. CASE Commit(e)
  <2>1. CASE Raise(e)
    BY <2>1, RaiseUnloads
  <2>2. CASE frame' = [frame EXCEPT ![e].loaded = FALSE, ![e].read = NoRow]
    BY <2>2 DEF FrameType
  <2>3. QED
    BY <1>3, <2>1, <2>2 DEF Commit
<1>4. CASE Announce(e)
  BY <1>1, <1>4 DEF Announce, Return, Goto, Blank, Announced, Writes
<1>5. CASE Open(e)
  <2>1. CASE Raise(e)
    BY <2>1, RaiseUnloads
  <2>2. CASE frame' = [frame EXCEPT ![e].at = thread'[RunOf(e)]]
    BY <1>1, <1>5, <2>2 DEF Open, FrameType, Writes
  <2>3. QED
    BY <1>5, <2>1, <2>2 DEF Open
<1>6. CASE Superstep(e)
  BY <1>1, <1>6 DEF Superstep, Advance, FrameType, Writes
<1>7. CASE StreamRaises(e)
  BY <1>7, RaiseUnloads DEF StreamRaises
<1>8. CASE StreamInterrupts(e) \/ StreamEnds(e)
  BY <1>1, <1>8 DEF StreamInterrupts, StreamEnds, Advance, Writes
<1>9. CASE PersistMessage(e)
  <2>1. CASE Raise(e)
    BY <2>1, RaiseUnloads
  <2>2. CASE frame' = [frame EXCEPT ![e] = [frame[e] EXCEPT !.tokens = @ + frame[e].last]]
    BY <1>1, <1>9, <2>2 DEF PersistMessage, FrameType, Writes
  <2>3. QED
    BY <1>9, <2>1, <2>2 DEF PersistMessage
<1>10. CASE PersistUsage(e)
  <2>1. CASE Raise(e)
    BY <2>1, RaiseUnloads
  <2>2. CASE frame' = [frame EXCEPT ![e].last = 0]
    BY <1>1, <1>10, <2>2 DEF PersistUsage, FrameType, Writes
  <2>3. QED
    BY <1>10, <2>1, <2>2 DEF PersistUsage
<1>11. CASE Probe(e)
  BY <1>1, <1>11 DEF Probe, Writes
<1>12. CASE PersistQuestion(e)
  BY <1>1, <1>12, RaiseUnloads DEF PersistQuestion, Writes
<1>13. CASE Deliver(e)
  BY <1>13 DEF Deliver, Return, Blank
<1>14. CASE SendRaises(e) \/ DbRaises(e)
  BY <1>14, RaiseUnloads DEF SendRaises, DbRaises
<1>15. QED
  BY <1>2, <1>3, <1>4, <1>5, <1>6, <1>7, <1>8, <1>9, <1>10, <1>11, <1>12, <1>13, <1>14
  DEF Step

LEMMA LoadedStep == TypeOK /\ LoadedAtWrites /\ [Next]_vars => LoadedAtWrites'
<1> SUFFICES ASSUME TypeOK, LoadedAtWrites, [Next]_vars, NEW x \in Execs
             PROVE  frame'[x].loaded => pc'[x] \in Writes
  BY DEF LoadedAtWrites
<1>1. frame[x].loaded => pc[x] \in Writes
  BY DEF LoadedAtWrites
<1>2. ASSUME NEW e \in Execs, Step(e) PROVE frame'[x].loaded => pc'[x] \in Writes
  BY <1>1, <1>2, LoadedOfStepper, OthersUnmoved
<1>3. ASSUME NEW e \in Execs, NEW r \in Runs, CreateRun(e, r) \/ ResumeRun(e, r)
      PROVE  frame'[x].loaded => pc'[x] \in Writes
  BY <1>1, <1>3, SpawnOne
<1>4. CASE Crash
  BY <1>4 DEF Crash, Blank
<1>5. ASSUME NEW r \in Runs, DeleteRun(r) PROVE frame'[x].loaded => pc'[x] \in Writes
  BY <1>1, <1>5 DEF DeleteRun
<1>6. CASE UNCHANGED vars
  BY <1>1, <1>6 DEF vars
<1>7. QED
  BY <1>2, <1>3, <1>4, <1>5, <1>6 DEF Next

\* Awaits at which an execution has all of its outcome still to write.
Unsettled == {"startEvent", "open", "stream", "message", "usage", "probe", "question"}

LEMMA OwesUnsettled ==
  ASSUME NEW e \in Execs, NEW r \in Runs, pc[e] \in Unsettled, frame[e].run = r
  PROVE  OwesOutcome(e, r)
  BY DEF OwesOutcome, Busy, RunOf, Unsettled

\* The stepping execution keeps owing, as long as the row says "running".
LEMMA StepperOwes ==
  ASSUME TypeOK, LoadedAtWrites, "db" \notin Faults,
         NEW e \in Execs, NEW r \in Runs, Step(e),
         OwesOutcome(e, r), row[r].status = "running", row'[r].status = "running"
  PROVE  OwesOutcome(e, r)'
<1> USE DEF TypeOK
<1>1. RunOf(e) = r /\ frame[e].run = r
  BY DEF OwesOutcome, Busy, RunOf
<1>2. /\ pc[e] \in Unsettled \cup {"pause", "finish", "overspent", "failure"}
      /\ pc[e] \in Unsettled => ~frame[e].loaded
  BY DEF OwesOutcome, Unsettled, LoadedAtWrites, Writes
<1>3. SUFFICES /\ frame'[e].run = r
               /\ \/ pc'[e] \in Unsettled
                  \/ /\ pc'[e] \in {"pause", "finish", "overspent", "failure"}
                     /\ frame'[e].loaded => frame'[e].read.status # Outcome[pc'[e]]
  BY DEF OwesOutcome, Busy, RunOf, Unsettled
<1>4. ASSUME Raise(e), pc[e] \in InTry
      PROVE  /\ frame'[e].run = r
             /\ pc'[e] = "failure" /\ ~frame'[e].loaded
  BY <1>1, <1>4, RaiseUnloads
<1>5. CASE Load(e)
  <2>1. Exists(r)
    BY DEF Exists
  <2>2. pc'[e] = pc[e] /\ frame' = [frame EXCEPT ![e].loaded = TRUE, ![e].read = row[r]]
    BY <1>1, <1>5, <2>1 DEF Load
  <2>3. frame'[e].run = r /\ frame'[e].read.status = "running"
    BY <1>1, <2>2 DEF FrameType
  <2>4. pc[e] \in {"pause", "finish", "overspent", "failure"}
    BY <1>2, <1>5 DEF Load, Writes, Unsettled
  <2>5. QED
    BY <2>2, <2>3, <2>4 DEF Outcome
<1>6. CASE Commit(e)
  <2>1. /\ frame[e].loaded
        /\ pc[e] \in {"pause", "finish", "overspent", "failure"}
        /\ frame[e].read.status # Outcome[pc[e]]
    BY <1>6 DEF OwesOutcome, Commit, Writes, Unsettled
  <2>2. Exists(r)
    BY DEF Exists
  <2>3. row'[r].status = Outcome[pc[e]]
    BY <1>1, <1>6, <2>1, <2>2 DEF Commit
  <2>4. QED
    BY <2>1, <2>3 DEF Outcome
<1>7. CASE Announce(e)
  <2>1. pc[e] = "startEvent" /\ pc'[e] = "open" /\ UNCHANGED frame
    BY <1>2, <1>7 DEF Announce, Announced, Unsettled, Goto
  <2>2. QED
    BY <1>1, <2>1 DEF Unsettled
<1>8. CASE Open(e)
  <2>1. CASE Raise(e)
    BY <1>4, <1>8, <2>1 DEF Open, InTry
  <2>2. CASE frame' = [frame EXCEPT ![e].at = thread'[RunOf(e)]] /\ Goto(e, "stream")
    BY <1>1, <2>2 DEF Goto, Unsettled, FrameType
  <2>3. QED
    BY <1>8, <2>1, <2>2 DEF Open
<1>9. CASE Superstep(e)
  BY <1>1, <1>9 DEF Superstep, Goto, Unsettled, FrameType
<1>10. CASE StreamRaises(e)
  BY <1>4, <1>10 DEF StreamRaises, Advance, InTry
<1>11. CASE StreamInterrupts(e) \/ StreamEnds(e)
  BY <1>1, <1>11 DEF StreamInterrupts, StreamEnds, Goto, Unsettled
<1>12. CASE PersistMessage(e)
  <2>1. CASE Raise(e)
    BY <1>4, <1>12, <2>1 DEF PersistMessage, InTry
  <2>2. CASE /\ frame' = [frame EXCEPT ![e] = [frame[e] EXCEPT !.tokens = @ + frame[e].last]]
             /\ pc'[e] \in {"usage", "stream"}
    BY <1>1, <2>2 DEF Unsettled, FrameType
  <2>3. QED
    BY <1>12, <2>1, <2>2 DEF PersistMessage, Goto
<1>13. CASE PersistUsage(e)
  <2>1. CASE Raise(e)
    BY <1>4, <1>13, <2>1 DEF PersistUsage, InTry
  <2>2. CASE frame' = [frame EXCEPT ![e].last = 0] /\ pc'[e] \in {"overspent", "stream"}
    BY <1>1, <1>2, <1>13, <2>2 DEF PersistUsage, Unsettled, FrameType
  <2>3. QED
    BY <1>13, <2>1, <2>2 DEF AfterUsage, PersistUsage, Goto
<1>14. CASE Probe(e)
  BY <1>1, <1>2, <1>14 DEF Probe, Goto, Unsettled
<1>15. CASE PersistQuestion(e)
  <2>1. CASE Raise(e)
    BY <1>4, <1>15, <2>1 DEF PersistQuestion, InTry
  <2>2. CASE Goto(e, "pause") /\ UNCHANGED frame
    BY <1>1, <1>2, <1>15, <2>2 DEF PersistQuestion, Goto, Unsettled
  <2>3. QED
    BY <1>15, <2>1, <2>2 DEF PersistQuestion
<1>16. CASE Deliver(e) \/ SendRaises(e) \/ DbRaises(e)
  BY <1>2, <1>16 DEF Deliver, SendRaises, DbRaises, Unsettled
<1>17. QED
  BY <1>5, <1>6, <1>7, <1>8, <1>9, <1>10, <1>11, <1>12, <1>13, <1>14, <1>15, <1>16 DEF Step

\* An execution that does not step keeps owing.
LEMMA OthersOwe ==
  ASSUME NEW x \in Execs, NEW r \in Runs, OwesOutcome(x, r),
         pc'[x] = pc[x], frame'[x] = frame[x]
  PROVE  OwesOutcome(x, r)'
  BY DEF OwesOutcome, Busy, RunOf

\* A row that becomes "running" was written by a segment that begins.
LEMMA BeginnerOwes ==
  ASSUME TypeOK, NEW e \in Execs, NEW r \in Runs, Step(e),
         row[r].status # "running", row'[r].status = "running"
  PROVE  OwesOutcome(e, r)'
<1> USE DEF TypeOK
<1>1. Commit(e)
  BY DEF Step, Load, Announce, Open, Superstep, StreamRaises, StreamInterrupts, StreamEnds,
         Advance, PersistMessage, PersistUsage, Probe, PersistQuestion, Deliver, SendRaises,
         DbRaises, db
<1>2. /\ RunOf(e) = r
      /\ Outcome[pc[e]] = "running"
      /\ Goto(e, EventOf[pc[e]])
      /\ frame' = [frame EXCEPT ![e].loaded = FALSE, ![e].read = NoRow]
  <2> DEFINE s == Outcome[pc[e]]
             q == RunOf(e)
  <2>1. row' = [row EXCEPT ![q] =
                  [status |-> IF frame[e].read.status = s THEN row[q].status ELSE s,
                   total |-> row'[q].total]]
    <3>1. ~UNCHANGED row
      OBVIOUS
    <3>2. QED
      BY <1>1, <3>1 DEF Commit, RunOf, FrameType
  <2>2. q = r
    BY <2>1
  <2>3. s = "running"
    BY <2>1, <2>2 DEF RunOf, FrameType
  <2>4. QED
    BY <1>1, <2>2, <2>3 DEF Commit
<1>3. pc'[e] = "startEvent"
  BY <1>1, <1>2 DEF Commit, Writes, Outcome, EventOf, Goto
<1>4. frame'[e].run = r
  BY <1>2 DEF RunOf, FrameType
<1>5. QED
  BY <1>3, <1>4 DEF OwesOutcome, Busy, RunOf

LEMMA OrphanStep ==
  ASSUME Faults \cap {"db", "crash"} = {}
  PROVE  TypeOK /\ LoadedAtWrites /\ NoOrphanRunning /\ [Next]_vars => NoOrphanRunning'
<1> SUFFICES ASSUME TypeOK, LoadedAtWrites, NoOrphanRunning, [Next]_vars,
                    NEW r \in Runs, row'[r].status = "running"
             PROVE  \E x \in Execs : OwesOutcome(x, r)'
  BY DEF NoOrphanRunning
<1>1. row[r].status = "running" => \E x \in Execs : OwesOutcome(x, r)
  BY DEF NoOrphanRunning
<1>2. ASSUME NEW e \in Execs, Step(e) PROVE \E x \in Execs : OwesOutcome(x, r)'
  <2>1. CASE row[r].status = "running"
    <3>1. PICK x \in Execs : OwesOutcome(x, r)
      BY <1>1, <2>1
    <3>2. CASE x = e
      BY <1>2, <2>1, <3>1, <3>2, StepperOwes
    <3>3. CASE x # e
      BY <1>2, <3>1, <3>3, OthersUnmoved, OthersOwe
    <3>4. QED
      BY <3>2, <3>3
  <2>2. CASE row[r].status # "running"
    BY <1>2, <2>2, BeginnerOwes
  <2>3. QED
    BY <2>1, <2>2
<1>3. ASSUME NEW e \in Execs, NEW q \in Runs, CreateRun(e, q) \/ ResumeRun(e, q)
      PROVE  \E x \in Execs : OwesOutcome(x, r)'
  <2>1. row[r].status = "running"
    <3>1. CASE CreateRun(e, q)
      BY <3>1 DEF CreateRun, TypeOK
    <3>2. CASE ResumeRun(e, q)
      BY <3>2 DEF ResumeRun
    <3>3. QED
      BY <1>3, <3>1, <3>2
  <2>2. PICK x \in Execs : OwesOutcome(x, r)
    BY <1>1, <2>1
  <2>3. x # e
    BY <1>3, <2>2, SpawnOne DEF OwesOutcome, Busy
  <2>4. QED
    BY <1>3, <2>2, <2>3, SpawnOne, OthersOwe
<1>4. ASSUME NEW q \in Runs, DeleteRun(q) PROVE \E x \in Execs : OwesOutcome(x, r)'
  <2>1. row[r].status = "running" /\ UNCHANGED <<pc, frame>>
    BY <1>4 DEF DeleteRun, NoRow, TypeOK
  <2>2. PICK x \in Execs : OwesOutcome(x, r)
    BY <1>1, <2>1
  <2>3. QED
    BY <2>1, <2>2, OthersOwe
<1>5. CASE UNCHANGED vars
  <2>1. PICK x \in Execs : OwesOutcome(x, r)
    BY <1>1, <1>5 DEF vars
  <2>2. QED
    BY <1>5, <2>1, OthersOwe DEF vars
<1>6. ~Crash
  BY DEF Crash
<1>7. QED
  BY <1>2, <1>3, <1>4, <1>5, <1>6 DEF Next

\* Unless the process stops or the database refuses a write, a run that says
\* "running" has an execution that will settle it: for any number of executions
\* of the same run, started by whoever asks, and for every interleaving of the
\* stale reads and writes of its row.
THEOREM RunningIsOwned ==
  ASSUME Faults \cap {"db", "crash"} = {}
  PROVE  Spec => []NoOrphanRunning
<1>1. Init => LoadedAtWrites /\ NoOrphanRunning
  BY DEF Init, LoadedAtWrites, NoOrphanRunning, Blank, NoRow
<1>2. QED
  BY <1>1, OrphanStep, LoadedStep, TypeCorrect, PTL DEF Spec

-----------------------------------------------------------------------------
(* Every execution returns: the measure under EveryExecutionReturns.       *)

\* The awaits an execution has before it at p, once the stream has ended.
Phase ==
  [idle |-> 0, failureEvent |-> 1, overspentEvent |-> 1, failure |-> 3, notify |-> 4,
   reply |-> 4, pauseEvent |-> 5, finishEvent |-> 5, pause |-> 7, finish |-> 7,
   overspent |-> 7, question |-> 8, probe |-> 9, stream |-> 10, usage |-> 11,
   open |-> 11, message |-> 12, startEvent |-> 12, start |-> 14]

\* Awaits before which supersteps may still be taken.  One superstep costs at most
\* three awaits more: the stream, the message and its usage.
Streaming == {"start", "startEvent", "open", "stream", "message", "usage"}

Ahead(p, f) ==
  Phase[p] - (IF f.loaded THEN 1 ELSE 0)
    + (IF p \in Streaming THEN 4 * (RecursionLimit - f.steps) ELSE 0)

\* An upper bound on the awaits that execution e has left.
Distance(e) == Ahead(pc[e], frame[e])

\* No execution has more left than its recursion limit allows, and none but the
\* idle have nothing left.
WorkBounded == \A e \in Execs :
  /\ Distance(e) \in 0 .. 4 * RecursionLimit + 14
  /\ Distance(e) = 0 <=> pc[e] = "idle"

\* Each step of an execution leaves less of it; nothing anyone else does, a crash
\* apart, touches it.
StepsCount == [][\A e \in Execs :
  /\ Step(e) => Distance(e)' < Distance(e)
  /\ pc[e] # "idle" => Distance(e)' < Distance(e) \/ UNCHANGED <<pc[e], frame[e]>>]_vars

\* What the measure looks at.
LEMMA MeasureTypes ==
  ASSUME TypeOK, LoadedAtWrites, NEW e \in Execs
  PROVE  /\ pc[e] \in PCs /\ frame[e].loaded \in BOOLEAN
         /\ frame[e].steps \in 0 .. RecursionLimit /\ RecursionLimit \in Nat
         /\ frame[e].loaded => pc[e] \in Writes
  BY ConstantsAssumption DEF TypeOK, FrameType, LoadedAtWrites

LEMMA AheadBounded ==
  ASSUME NEW p \in PCs, NEW f, f.loaded \in BOOLEAN, f.steps \in 0 .. RecursionLimit,
         RecursionLimit \in Nat, f.loaded => p \in Writes
  PROVE  Ahead(p, f) \in 0 .. 4 * RecursionLimit + 14 /\ (Ahead(p, f) = 0 <=> p = "idle")
<1>1. p \in {"idle", "failureEvent", "overspentEvent", "failure", "notify", "reply",
            "pauseEvent", "finishEvent", "pause", "finish", "overspent", "question", "probe",
            "stream", "usage", "open", "message", "startEvent", "start"}
  BY DEF PCs, Writes, Announced, InTry
<1>2. CASE p \in Streaming
  BY <1>2 DEF Ahead, Phase, Streaming, Writes
<1>3. CASE p \notin Streaming
  <2>1. Ahead(p, f) = Phase[p] - (IF f.loaded THEN 1 ELSE 0)
    BY <1>1, <1>3 DEF Ahead, Phase
  <2>2. QED
    BY <1>1, <1>3, <2>1 DEF Phase, Streaming, Writes
<1>4. QED
  BY <1>2, <1>3

LEMMA ReturnEnds ==
  ASSUME TypeOK, LoadedAtWrites, NEW e \in Execs, pc[e] # "idle", Return(e)
  PROVE  Distance(e)' < Distance(e)
<1>1. pc'[e] = "idle" /\ frame'[e] = Blank /\ ~Blank.loaded
  BY DEF Return, Goto, TypeOK, Blank
<1>2. Distance(e)' = 0
  BY <1>1 DEF Distance, Ahead, Phase, Streaming
<1>3. Distance(e) \in Nat /\ Distance(e) # 0
  BY MeasureTypes, AheadBounded DEF Distance
<1>4. QED
  BY <1>2, <1>3

LEMMA RaiseCloser ==
  ASSUME TypeOK, LoadedAtWrites, NEW e \in Execs, pc[e] # "idle", Raise(e)
  PROVE  Distance(e)' < Distance(e)
<1>1. CASE pc[e] \in InTry
  <2>1. pc'[e] = "failure" /\ ~frame'[e].loaded
    BY <1>1, RaiseUnloads
  <2>2. Distance(e)' = 3
    BY <2>1 DEF Distance, Ahead, Phase, Streaming
  <2>3. Distance(e) > 3
    BY <1>1, MeasureTypes DEF Distance, Ahead, Phase, Streaming, InTry, Writes
  <2>4. QED
    BY <2>2, <2>3
<1>2. CASE pc[e] \notin InTry
  BY <1>2, ReturnEnds DEF Raise
<1>3. QED
  BY <1>1, <1>2

LEMMA StepCloser ==
  ASSUME TypeOK, LoadedAtWrites, NEW e \in Execs, Step(e)
  PROVE  pc[e] # "idle" /\ Distance(e)' < Distance(e)
<1>1. /\ pc[e] \in PCs /\ frame[e].loaded \in BOOLEAN
      /\ frame[e].steps \in 0 .. RecursionLimit /\ RecursionLimit \in Nat
      /\ frame[e].loaded => pc[e] \in Writes
  BY MeasureTypes
<1>2. CASE Load(e)
  <2>1. CASE Exists(RunOf(e))
    BY <1>1, <1>2, <2>1 DEF Load, TypeOK, FrameType, Distance, Ahead, Writes, Phase, Streaming
  <2>2. CASE ~Exists(RunOf(e))
    <3>1. pc'[e] = EventOf[pc[e]] /\ frame'[e] = frame[e] /\ ~frame[e].loaded
      BY <1>2, <2>2 DEF Load, Goto, TypeOK
    <3>2. QED
      BY <1>1, <1>2, <3>1 DEF Load, Distance, Ahead, Writes, Phase, Streaming, EventOf
  <2>3. QED
    BY <2>1, <2>2
<1>3. CASE Commit(e)
  <2>1. CASE Raise(e)
    BY <1>3, <2>1, RaiseCloser DEF Commit, Writes
  <2>2. CASE /\ Goto(e, EventOf[pc[e]])
             /\ frame' = [frame EXCEPT ![e].loaded = FALSE, ![e].read = NoRow]
    <3>1. /\ pc'[e] = EventOf[pc[e]] /\ frame'[e].steps = frame[e].steps
          /\ ~frame'[e].loaded /\ frame[e].loaded /\ pc[e] \in Writes
      BY <1>3, <2>2 DEF Commit, Goto, TypeOK, FrameType
    <3>2. QED
      BY <1>1, <3>1 DEF Distance, Ahead, Writes, Phase, Streaming, EventOf
  <2>3. QED
    BY <1>3, <2>1, <2>2 DEF Commit
<1>4. CASE Announce(e)
  <2>1. CASE Return(e)
    BY <1>4, <2>1, ReturnEnds DEF Announce, Announced
  <2>2. CASE /\ frame' = frame
             /\ \/ pc[e] = "startEvent" /\ Goto(e, "open")
                \/ pc[e] = "pauseEvent" /\ Goto(e, "notify")
                \/ pc[e] = "finishEvent" /\ Goto(e, "reply")
    BY <1>1, <2>2 DEF Goto, TypeOK, Distance, Ahead, Writes, Phase, Streaming
  <2>3. QED
    BY <1>4, <2>1, <2>2 DEF Announce
<1>5. CASE Open(e)
  <2>1. CASE Raise(e)
    BY <1>5, <2>1, RaiseCloser DEF Open
  <2>2. CASE frame' = [frame EXCEPT ![e].at = thread'[RunOf(e)]] /\ Goto(e, "stream")
    <3>1. /\ pc[e] = "open" /\ pc'[e] = "stream" /\ frame'[e].steps = frame[e].steps
          /\ frame'[e].loaded = frame[e].loaded
      BY <1>5, <2>2 DEF Open, Goto, TypeOK, FrameType
    <3>2. QED
      BY <1>1, <3>1 DEF Distance, Ahead, Writes, Phase, Streaming
  <2>3. QED
    BY <1>5, <2>1, <2>2 DEF Open
<1>6. CASE Superstep(e)
  <2>1. /\ pc[e] = "stream" /\ pc'[e] \in {"stream", "message"}
        /\ frame[e].steps < RecursionLimit
        /\ frame'[e].steps = frame[e].steps + 1 /\ frame'[e].loaded = frame[e].loaded
    BY <1>6 DEF Superstep, Advance, WithinLimit, Goto, TypeOK, FrameType
  <2>2. QED
    BY <1>1, <2>1 DEF Distance, Ahead, Writes, Phase, Streaming
<1>7. CASE StreamRaises(e)
  BY <1>7, RaiseCloser DEF StreamRaises, Advance
<1>8. CASE StreamInterrupts(e) \/ StreamEnds(e)
  BY <1>1, <1>8 DEF StreamInterrupts, StreamEnds, Advance, Goto, TypeOK, Distance, Ahead, Writes,
                    Phase, Streaming
<1>9. CASE PersistMessage(e)
  <2>1. CASE Raise(e)
    BY <1>9, <2>1, RaiseCloser DEF PersistMessage
  <2>2. CASE /\ frame' = [frame EXCEPT ![e] = [frame[e] EXCEPT !.tokens = @ + frame[e].last]]
             /\ Goto(e, "usage") \/ Goto(e, "stream")
    <3>1. /\ pc[e] = "message" /\ pc'[e] \in {"usage", "stream"}
          /\ frame'[e].steps = frame[e].steps /\ frame'[e].loaded = frame[e].loaded
      BY <1>9, <2>2 DEF PersistMessage, Goto, TypeOK, FrameType
    <3>2. QED
      BY <1>1, <3>1 DEF Distance, Ahead, Writes, Phase, Streaming
  <2>3. QED
    BY <1>9, <2>1, <2>2 DEF PersistMessage
<1>10. CASE PersistUsage(e)
  <2>1. CASE Raise(e)
    BY <1>10, <2>1, RaiseCloser DEF PersistUsage
  <2>2. CASE frame' = [frame EXCEPT ![e].last = 0] /\ Goto(e, AfterUsage(frame[e]))
    <3>1. /\ pc[e] = "usage" /\ pc'[e] \in {"overspent", "stream"}
          /\ frame'[e].steps = frame[e].steps /\ frame'[e].loaded = frame[e].loaded
      BY <1>10, <2>2 DEF PersistUsage, AfterUsage, Goto, TypeOK, FrameType
    <3>2. QED
      BY <1>1, <3>1 DEF Distance, Ahead, Writes, Phase, Streaming
  <2>3. QED
    BY <1>10, <2>1, <2>2 DEF PersistUsage
<1>11. CASE Probe(e)
  BY <1>1, <1>11 DEF Probe, Goto, TypeOK, Distance, Ahead, Writes, Phase, Streaming
<1>12. CASE PersistQuestion(e)
  <2>1. CASE Raise(e)
    BY <1>12, <2>1, RaiseCloser DEF PersistQuestion
  <2>2. CASE Goto(e, "pause") /\ UNCHANGED frame
    BY <1>1, <1>12, <2>2 DEF PersistQuestion, Goto, TypeOK, Distance, Ahead, Writes, Phase,
                             Streaming
  <2>3. QED
    BY <1>12, <2>1, <2>2 DEF PersistQuestion
<1>13. CASE Deliver(e)
  BY <1>13, ReturnEnds DEF Deliver
<1>14. CASE SendRaises(e) \/ DbRaises(e)
  BY <1>14, RaiseCloser DEF SendRaises, DbRaises, Writes
<1>15. QED
  BY <1>2, <1>3, <1>4, <1>5, <1>6, <1>7, <1>8, <1>9, <1>10, <1>11, <1>12, <1>13, <1>14
  DEF Step

\* The work an execution has left is bounded, wherever it is and whatever fails.
THEOREM WorkIsBounded == Spec => []WorkBounded
<1>1. Init => LoadedAtWrites
  BY DEF Init, LoadedAtWrites, Blank
<1>2. TypeOK /\ LoadedAtWrites => WorkBounded
  <2> SUFFICES ASSUME TypeOK, LoadedAtWrites, NEW e \in Execs
               PROVE  /\ Distance(e) \in 0 .. 4 * RecursionLimit + 14
                      /\ Distance(e) = 0 <=> pc[e] = "idle"
    BY DEF WorkBounded
  <2>1. QED
    BY MeasureTypes, AheadBounded DEF Distance
<1>3. QED
  BY <1>1, <1>2, LoadedStep, TypeCorrect, PTL DEF Spec

\* Each step of an execution leaves strictly less of that work, for any number of
\* executions and overlaps, and no step of anybody else adds to it: an execution that is
\* scheduled returns, however often its graph cycles (executor.py:96-128).
THEOREM EveryStepCounts == Spec => StepsCount
<1> DEFINE Counted(e) ==
             /\ Step(e) => Distance(e)' < Distance(e)
             /\ pc[e] # "idle" => Distance(e)' < Distance(e) \/ UNCHANGED <<pc[e], frame[e]>>
<1>1. Init => LoadedAtWrites
  BY DEF Init, LoadedAtWrites, Blank
<1>2. TypeOK /\ LoadedAtWrites /\ [Next]_vars
        => [\A e \in Execs : Counted(e)]_vars
  <2> SUFFICES ASSUME TypeOK, LoadedAtWrites, Next, NEW e \in Execs PROVE Counted(e)
    OBVIOUS
  <2>1. Step(e) => Distance(e)' < Distance(e)
    BY StepCloser
  <2>2. ASSUME NEW x \in Execs, Step(x), x # e PROVE UNCHANGED <<pc[e], frame[e]>>
    BY <2>2, OthersUnmoved
  <2>3. ASSUME NEW x \in Execs, NEW r \in Runs, CreateRun(x, r) \/ ResumeRun(x, r),
               pc[e] # "idle"
        PROVE  UNCHANGED <<pc[e], frame[e]>>
    BY <2>3, SpawnOne
  <2>4. ASSUME NEW r \in Runs, DeleteRun(r) PROVE UNCHANGED <<pc[e], frame[e]>>
    BY <2>4 DEF DeleteRun
  <2>5. ASSUME Crash, pc[e] # "idle" PROVE Distance(e)' < Distance(e)
    <3>1. pc'[e] = "idle" /\ frame'[e] = Blank /\ ~Blank.loaded
      BY <2>5 DEF Crash, Blank
    <3>2. Distance(e)' = 0
      BY <3>1 DEF Distance, Ahead, Phase, Streaming
    <3>3. Distance(e) \in Nat /\ Distance(e) # 0
      BY <2>5, MeasureTypes, AheadBounded DEF Distance
    <3>4. QED
      BY <3>2, <3>3
  <2>6. QED
    BY <2>1, <2>2, <2>3, <2>4, <2>5 DEF Next
<1>3. QED
  BY <1>1, <1>2, LoadedStep, TypeCorrect, PTL DEF Spec, StepsCount
=============================================================================
