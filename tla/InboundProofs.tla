---------------------------- MODULE InboundProofs ----------------------------
(***************************************************************************)
(* Theorems about Inbound, for any chats, workflows, bots and tasks.       *)
(***************************************************************************)
EXTENDS Inbound, TLAPS

(* The inductive invariant.                                                *)

Executing == {"inbound", "start", "running", "ask", "answer", "tag"}

\* Every run has a workflow.
RunsBelong == \A r \in RunIds : runs[r].status # "absent" => runs[r].wf \in Workflows

\* What the code has established about the local variables where a task awaits.
Handling(t) ==
  /\ pc[t] \in {"select", "resolve", "create"} =>
       local[t].bot \in Bots /\ local[t].chat \in Chats
  /\ pc[t] \in {"resolve", "create"} =>
       /\ local[t].bot.role = "customer"
       /\ local[t].wf \in Workflows
       /\ local[t].bot.wf \in {None, local[t].wf}
  /\ pc[t] = "select" => local[t].run = 0
  /\ pc[t] = "inbound" => local[t].chat \in Chats

\* A run a task works for exists, and belongs to the workflow the task took it for.
Works(t) ==
  /\ pc[t] \in Executing => local[t].run # 0
  /\ pc[t] \in Executing \cup {"resolve"} /\ local[t].run # 0 =>
       /\ runs[local[t].run].status # "absent"
       /\ runs[local[t].run].wf = local[t].wf

\* Where a task will ask: a bot of its workflow or the default bot.  The chat of a
\* customer is tied to the run already, or about to be.
Asks(t) ==
  /\ pc[t] \in Executing \cup {"create"} /\ local[t].ask # NoTarget =>
       /\ local[t].ask.bot.wf \in {None, local[t].wf}
       /\ local[t].ask.bot.role = "customer" =>
            \/ pc[t] \in {"create", "inbound"} /\ local[t].ask.chat = local[t].chat
            \/ local[t].tags
            \/ pc[t] \in Executing /\ local[t].ask.chat \in runs[local[t].run].chats
  /\ pc[t] = "tag" => local[t].tags
  /\ local[t].tags => local[t].ask # NoTarget

InboundInv ==
  /\ TypeOK
  /\ RunsBelong
  /\ \A t \in Tasks : Handling(t) /\ Works(t) /\ Asks(t)

\* A run a chat started belongs to the workflow of the bot it was started with.
Homes == \A r \in RunIds : runs[r].home # None =>
  runs[r].home.role = "customer" /\ runs[r].home.wf \in {None, runs[r].wf}

\* A question is tied to its run, or the task that sent it is about to tie it.
Tied == \A r \in RunIds : asked[r] # NoTarget =>
  /\ runs[r].status # "absent"
  /\ asked[r].bot.wf \in {None, runs[r].wf}
  /\ asked[r].bot.role = "customer" =>
       \/ asked[r].chat \in runs[r].chats
       \/ \E t \in Tasks : pc[t] = "tag" /\ local[t].run = r /\ local[t].ask = asked[r]

-----------------------------------------------------------------------------

LEMMA IdleType == Idle \in LocalType /\ NoRun \in RunType
  BY InboundAssumption DEF Idle, LocalType, NoRun, RunType, TargetType

LEMMA BotFacts ==
  ASSUME NEW b \in Bots
  PROVE  /\ b.wf \in Workflows \cup {None}
         /\ b.role \in {"customer", "approval"}
  BY InboundAssumption DEF Bots, Default, BindingType

\* Without a target there is no chat to send to.
LEMMA TargetFacts ==
  ASSUME NEW x \in TargetType
  PROVE  /\ x = [bot |-> x.bot, chat |-> x.chat]
         /\ x # NoTarget => x.bot \in Bots /\ x.chat \in Chats
         /\ x.chat \in Chats \cup {None}
  BY DEF TargetType, NoTarget

LEMMA ResolveFacts ==
  ASSUME NEW b \in Bots, NEW w \in ResolveWorkflow(b)
  PROVE  w \in Workflows /\ b.wf \in {None, w}
<1>1. CASE b.wf # None
  BY <1>1, BotFacts DEF ResolveWorkflow
<1>2. CASE b.wf = None
  <2> DEFINE bound == {a.wf : a \in Bindings} \ {None}
  <2>1. bound \subseteq Workflows
    BY InboundAssumption DEF BindingType
  <2>2. w \in IF bound # {} THEN bound ELSE {Demo}
    BY <1>2 DEF ResolveWorkflow
  <2> HIDE DEF bound
  <2>3. QED
    BY <1>2, <2>1, <2>2, InboundAssumption
<1>3. QED
  BY <1>1, <1>2

LEMMA CaptureType ==
  ASSUME NEW w
  PROVE  CaptureIn(w) \in SUBSET Bindings
  BY DEF CaptureIn, Newest, BindingsOf

\* A question goes to the approver's bot of the workflow, or back to where it came from.
LEMMA AskForFacts ==
  ASSUME TypeOK, NEW w \in Workflows, NEW b \in Bots, NEW c \in Chats,
         b.wf \in {None, w}, b.role = "customer", NEW x \in AskFor(w, To(b, c))
  PROVE  /\ x \in TargetType /\ x # NoTarget
         /\ x.bot.wf \in {None, w}
         /\ x.bot.role = "customer" => x.chat = c
<1>1. CASE x = To(b, c)
  BY <1>1, InboundAssumption DEF To, TargetType, NoTarget
<1>2. CASE x # To(b, c)
  <2>1. PICK a \in BindingsOf(w, "approval") : a.token /\ notify[a] # None /\ x = To(a, notify[a])
    BY <1>2, ZenonT(60) DEF AskFor
  <2>2. a \in Bots /\ a.wf = w /\ a.role = "approval" /\ notify[a] \in Chats
    BY <2>1 DEF BindingsOf, Bots, TypeOK
  <2>3. QED
    BY <2>1, <2>2, InboundAssumption DEF To, TargetType, NoTarget
<1>3. QED
  BY <1>1, <1>2

\* The notifier speaks through a bot of the workflow, or the default one.
LEMMA NotifiedFacts ==
  ASSUME TypeOK, NEW w \in Workflows, NEW x \in Notified(w)
  PROVE  x \in TargetType /\ (x # NoTarget => x.bot.wf \in {None, w})
<1>1. CASE x = NoTarget
  BY <1>1 DEF TargetType
<1>2. CASE x # NoTarget
  <2> DEFINE Through(b) == IF b.token THEN b ELSE Default
             reached == Newest({b \in Bindings : b.wf = w /\ notify[b] # None})
  <2>1. PICK b \in reached : x = To(Through(b), notify[b])
    BY <1>2, ZenonT(60) DEF Notified
  <2>2. \A a, b2 \in reached : a = b2
    BY InboundAssumption DEF Newest, BindingType
  <2>3. \E a \in reached : Through(a) \in Bots
    <3> HIDE DEF reached, Through
    <3>1. Notified(w) = IF \E a \in reached : Through(a) \in Bots
                        THEN {To(Through(a), notify[a]) : a \in reached} ELSE {NoTarget}
      BY DEF Notified, reached, Through
    <3>2. QED
      BY <1>2, <3>1
  <2>4. b \in Bindings /\ b.wf = w /\ notify[b] \in Chats /\ Through(b) \in Bots
    BY <2>1, <2>2, <2>3 DEF Newest, TypeOK
  <2>5. x.bot = Through(b) /\ Through(b).wf \in {None, w}
    BY <2>1, <2>4 DEF To, Default
  <2>6. x \in TargetType
    <3> HIDE DEF Through
    <3> QED
      BY <2>1, <2>4 DEF To, TargetType
  <2>7. QED
    BY <2>5, <2>6
<1>3. QED
  BY <1>1, <1>2

LEMMA PersistType ==
  ASSUME NEW q \in RunType, NEW c \in Chats
  PROVE  [q EXCEPT !.chats = @ \cup {c}, !.first = IF @ = None THEN c ELSE @] \in RunType
<1> DEFINE f == IF q.first = None THEN c ELSE q.first
<1>1. f \in Chats \cup {None} /\ q.chats \cup {c} \in SUBSET Chats
  BY DEF RunType
<1>2. [q EXCEPT !.chats = q.chats \cup {c}, !.first = f] \in RunType
  <2> HIDE DEF f
  <2> QED
    BY <1>1 DEF RunType
<1>3. QED
  BY <1>2

\* The run to be created does not exist.
LEMMA NextIsAbsent ==
  ASSUME NEW r \in RunIds, IsNext(r)
  PROVE  runs[r].status = "absent"
<1>1. r >= r
  BY InboundAssumption DEF RunIds
<1>2. QED
  BY <1>1 DEF IsNext

LEMMA InboundInit == Init => InboundInv /\ Homes /\ Tied
<1> SUFFICES ASSUME Init PROVE InboundInv /\ Homes /\ Tied
  OBVIOUS
<1>1. TypeOK
  BY IdleType, InboundAssumption DEF Init, TypeOK, PCs, TargetType
<1>2. RunsBelong
  BY DEF Init, RunsBelong, NoRun
<1>3. ASSUME NEW t \in Tasks PROVE Handling(t) /\ Works(t) /\ Asks(t)
  BY DEF Init, Handling, Works, Asks, Executing, Idle
<1>4. Homes /\ Tied
  BY DEF Init, Homes, Tied, NoRun
<1>5. QED
  BY <1>1, <1>2, <1>3, <1>4 DEF InboundInv

LEMMA ReturnKeeps ==
  ASSUME InboundInv, NEW t \in Tasks, Return(t)
  PROVE  /\ pc' \in [Tasks -> PCs] /\ local' \in [Tasks -> LocalType]
         /\ pc'[t] = "idle" /\ local'[t] = Idle
         /\ \A u \in Tasks : u # t => pc'[u] = pc[u] /\ local'[u] = local[u]
  BY IdleType DEF InboundInv, TypeOK, Return, Goto, PCs

-----------------------------------------------------------------------------
(* Type correctness, action by action.                                     *)

LEMMA TypeStep == InboundInv /\ [Next]_vars => TypeOK'
<1> SUFFICES ASSUME InboundInv, [Next]_vars PROVE TypeOK'
  OBVIOUS
<1> USE InboundAssumption
<1>1. ASSUME NEW t \in Tasks, NEW b \in Bots, NEW c \in Chats, Receive(t, b, c) PROVE TypeOK'
  <2>1. [Idle EXCEPT !.bot = b, !.chat = c, !.replies = {r \in RunIds : asked[r] = To(b, c)}]
          \in LocalType
    BY IdleType DEF LocalType
  <2>2. QED
    BY <1>1, <2>1 DEF Receive, InboundInv, TypeOK, Goto, PCs, tables, history
<1>2. ASSUME NEW t \in Tasks, Select(t) PROVE TypeOK'
  <2>1. local[t] \in LocalType /\ local[t].bot \in Bots /\ pc' \in [Tasks -> PCs]
    BY <1>2 DEF Select, InboundInv, TypeOK, Goto, PCs, Handling
  <2>2. CASE \E r \in Latest(WaitingFor(local[t].bot, local[t].chat)) :
               local' = [local EXCEPT ![t].replies = {}, ![t].run = r, ![t].wf = runs[r].wf]
    <3>1. PICK r \in RunIds :
            local' = [local EXCEPT ![t].replies = {}, ![t].run = r, ![t].wf = runs[r].wf]
      BY <2>2 DEF Latest, WaitingFor, Waiting
    <3>2. [local[t] EXCEPT !.replies = {}, !.run = r, !.wf = runs[r].wf] \in LocalType
      BY <2>1 DEF LocalType, InboundInv, TypeOK, RunType
    <3>3. local' \in [Tasks -> LocalType]
      BY <3>1, <3>2 DEF InboundInv, TypeOK, LocalType
    <3>4. QED
      BY <1>2, <2>1, <3>3 DEF Select, InboundInv, TypeOK, tables, history
  <2>3. CASE \E w \in ResolveWorkflow(local[t].bot) :
               local' = [local EXCEPT ![t].replies = {}, ![t].wf = w,
                                      ![t].captures = CaptureIn(w)]
    <3>1. PICK w \in ResolveWorkflow(local[t].bot) :
            local' = [local EXCEPT ![t].replies = {}, ![t].wf = w,
                                      ![t].captures = CaptureIn(w)]
      BY <2>3
    <3>2. [local[t] EXCEPT !.replies = {}, !.wf = w, !.captures = CaptureIn(w)] \in LocalType
      BY <2>1, <3>1, ResolveFacts, CaptureType DEF LocalType
    <3>3. local' \in [Tasks -> LocalType]
      BY <3>1, <3>2 DEF InboundInv, TypeOK, LocalType
    <3>4. QED
      BY <1>2, <2>1, <3>3 DEF Select, InboundInv, TypeOK, tables, history
  <2>4. QED
    BY <1>2, <2>2, <2>3 DEF Select
<1>3. ASSUME NEW t \in Tasks, Resolve(t) PROVE TypeOK'
  <2> DEFINE c == To(local[t].bot, local[t].chat)
  <2>1. /\ local[t] \in LocalType /\ local[t].bot \in Bots /\ local[t].chat \in Chats
        /\ local[t].wf \in Workflows /\ pc' \in [Tasks -> PCs]
        /\ local[t].bot.wf \in {None, local[t].wf} /\ local[t].bot.role = "customer"
    BY <1>3 DEF Resolve, InboundInv, TypeOK, Goto, PCs, Handling
  <2>2. notify' \in [Bindings -> Chats \cup {None}]
    BY <1>3, <2>1 DEF Resolve, InboundInv, TypeOK
  <2>3. PICK x \in AskFor(local[t].wf, c) :
          local' = [local EXCEPT ![t] = [local[t] EXCEPT !.captures = {}, !.ask = x, !.answer = c]]
    BY ZenonT(60), <1>3 DEF Resolve
  <2>4. c \in TargetType
    BY <2>1 DEF To, TargetType
  <2>5. x \in TargetType
    BY <2>1, <2>3, AskForFacts DEF InboundInv
  <2>6. local' \in [Tasks -> LocalType]
    <3> HIDE DEF c
    <3>1. [local[t] EXCEPT !.captures = {}, !.ask = x, !.answer = c] \in LocalType
      BY <2>1, <2>4, <2>5 DEF LocalType
    <3>2. QED
      BY <2>3, <3>1 DEF InboundInv, TypeOK
  <2>7. QED
    BY <1>3, <2>1, <2>2, <2>6 DEF Resolve, InboundInv, TypeOK, history
<1>4. ASSUME NEW t \in Tasks, SelectApproval(t) PROVE TypeOK'
  <2>1. /\ local[t] \in LocalType /\ local[t].bot \in Bots /\ local[t].chat \in Chats
        /\ pc' \in [Tasks -> PCs]
    BY <1>4 DEF SelectApproval, InboundInv, TypeOK, Goto, PCs, Handling
  <2> DEFINE answer(r) == IF runs[r].first = None \/ ~DefaultBot THEN NoTarget
                          ELSE To(Default, runs[r].first)
             then(r) == [local[t] EXCEPT !.replies = {}, !.run = r, !.wf = local[t].bot.wf,
                           !.ask = To(local[t].bot, local[t].chat), !.answer = answer(r)]
  <2>2. PICK r \in RunIds : local' = [local EXCEPT ![t] = then(r)]
    <3> DEFINE new(r) == [local EXCEPT
          ![t].replies = {}, ![t].run = r, ![t].wf = local[t].bot.wf,
          ![t].ask = To(local[t].bot, local[t].chat), ![t].answer = answer(r)]
    <3>1. \E r \in Latest(WaitingFor(local[t].bot, local[t].chat)) : local' = new(r)
      BY <1>4, Zenon DEF SelectApproval
    <3>2. Latest(WaitingFor(local[t].bot, local[t].chat)) \subseteq RunIds
      BY DEF Latest, WaitingFor, Waiting
    <3>3. \A r \in RunIds : new(r) = [local EXCEPT ![t] = then(r)]
      OBVIOUS
    <3> HIDE DEF new, then
    <3>4. QED
      BY <3>1, <3>2, <3>3
  <2>3. answer(r) \in TargetType /\ To(local[t].bot, local[t].chat) \in TargetType
    BY <2>1 DEF InboundInv, TypeOK, RunType, To, TargetType, Bots
  <2>4. then(r) \in LocalType
    <3>1. local[t].bot.wf \in Workflows \cup {None}
      BY <2>1, BotFacts
    <3> HIDE DEF answer
    <3> QED
      BY <2>1, <2>3, <3>1 DEF LocalType
  <2>5. local' \in [Tasks -> LocalType]
    BY <2>2, <2>4 DEF InboundInv, TypeOK
  <2>6. QED
    BY <1>4, <2>1, <2>5 DEF SelectApproval, InboundInv, TypeOK, tables, history
<1>5. ASSUME NEW t \in Tasks, Register(t) PROVE TypeOK'
  <2>1. notify' \in [Bindings -> Chats \cup {None}]
    BY <1>5 DEF Register, InboundInv, TypeOK, Handling
  <2>2. QED
    BY <1>5, <2>1, ReturnKeeps DEF Register, InboundInv, TypeOK, history
<1>6. ASSUME NEW t \in Tasks, Create(t) PROVE TypeOK'
  <2>1. PICK r \in RunIds :
          /\ runs' = [runs EXCEPT ![r] = [NoRun EXCEPT !.status = "pending", !.wf = local[t].wf,
                                           !.home = local[t].bot]]
          /\ local' = [local EXCEPT ![t].run = r]
    BY <1>6 DEF Create
  <2>2. [NoRun EXCEPT !.status = "pending", !.wf = local[t].wf, !.home = local[t].bot]
          \in RunType
    BY <1>6, IdleType DEF Create, InboundInv, TypeOK, LocalType, RunType
  <2>3. [local[t] EXCEPT !.run = r] \in LocalType
    BY DEF InboundInv, TypeOK, LocalType
  <2>4. runs' \in [RunIds -> RunType] /\ local' \in [Tasks -> LocalType]
    BY <2>1, <2>2, <2>3 DEF InboundInv, TypeOK, LocalType
  <2>5. QED
    BY <1>6, <2>4 DEF Create, InboundInv, TypeOK, Goto, PCs, history
<1>7. ASSUME NEW t \in Tasks, PersistInbound(t) PROVE TypeOK'
  <2>1. local[t].run \in RunIds /\ local[t].chat \in Chats
    BY <1>7 DEF PersistInbound, InboundInv, TypeOK, LocalType, Handling, Works, Executing
  <2> DEFINE q == runs[local[t].run]
             c == local[t].chat
  <2>2. q \in RunType
    BY <2>1 DEF InboundInv, TypeOK
  <2>3. [q EXCEPT !.chats = @ \cup {c}, !.first = IF @ = None THEN c ELSE @] \in RunType
    BY <2>1, <2>2, PersistType
  <2>4. runs' = [runs EXCEPT ![local[t].run] =
                   [q EXCEPT !.chats = @ \cup {c}, !.first = IF @ = None THEN c ELSE @]]
    BY <1>7, <2>1 DEF PersistInbound, InboundInv, TypeOK, RunType
  <2>5. runs' \in [RunIds -> RunType]
    <3> HIDE DEF q, c
    <3> QED
      BY <2>3, <2>4 DEF InboundInv, TypeOK
  <2>6. QED
    BY <1>7, <2>5 DEF PersistInbound, InboundInv, TypeOK, Goto, PCs, history
<1>21. ASSUME NEW t \in Tasks, NEW r \in RunIds, NEW w \in Workflows, NEW x \in Notified(w),
              Spawn(t, r, w, x)
       PROVE  pc' \in [Tasks -> PCs] /\ local' \in [Tasks -> LocalType]
  <2>1. x \in TargetType
    BY NotifiedFacts DEF InboundInv
  <2>2. [Idle EXCEPT !.run = r, !.wf = w, !.ask = x, !.answer = x, !.tags = x # NoTarget]
          \in LocalType
    BY <2>1, IdleType DEF LocalType
  <2>3. QED
    BY <1>21, <2>2 DEF Spawn, InboundInv, TypeOK, Goto, PCs
<1>8. ASSUME NEW t \in Tasks, NEW w \in Workflows, CreateConsole(t, w) PROVE TypeOK'
  <2>1. PICK r \in RunIds, x \in Notified(w) :
          /\ runs' = [runs EXCEPT ![r] = [NoRun EXCEPT !.status = "pending", !.wf = w]]
          /\ Spawn(t, r, w, x)
    BY <1>8 DEF CreateConsole
  <2>2. [NoRun EXCEPT !.status = "pending", !.wf = w] \in RunType
    BY IdleType DEF RunType
  <2>3. QED
    BY <1>8, <1>21, <2>1, <2>2 DEF CreateConsole, InboundInv, TypeOK, history
<1>22. ASSUME NEW t \in Tasks, NEW r \in RunIds, ResumeConsole(t, r) PROVE TypeOK'
  <2>1. runs[r].wf \in Workflows
    BY <1>22 DEF ResumeConsole, InboundInv, RunsBelong
  <2>2. QED
    BY <1>21, <1>22, <2>1 DEF ResumeConsole, InboundInv, TypeOK, tables, history
<1>9. ASSUME NEW r \in RunIds, NEW s \in {"running", "waiting_human", "completed", "failed"},
             SetStatus(r, s)
      PROVE  runs' \in [RunIds -> RunType]
  <2>1. runs \in [RunIds -> RunType]
    BY DEF InboundInv, TypeOK
  <2>2. [runs[r] EXCEPT !.status = s] \in RunType
    BY <2>1 DEF RunType
  <2>3. runs' = [runs EXCEPT ![r] = [runs[r] EXCEPT !.status = s]]
    BY <1>9 DEF SetStatus
  <2>4. QED
    BY <2>1, <2>2, <2>3
<1>10. ASSUME NEW t \in Tasks, pc[t] \in Executing
       PROVE  local[t].run \in RunIds
  BY <1>10 DEF InboundInv, TypeOK, LocalType, Works
<1>11. ASSUME NEW t \in Tasks, Begin(t) PROVE TypeOK'
  BY <1>11, <1>9, <1>10 DEF Begin, InboundInv, TypeOK, Goto, PCs, Executing, TargetType
<1>12. ASSUME NEW t \in Tasks, Pause(t) \/ Complete(t) PROVE TypeOK'
  BY <1>12, <1>9, <1>10 DEF Pause, Complete, InboundInv, TypeOK, Goto, PCs, Executing, history
<1>13. ASSUME NEW t \in Tasks, Fail(t) PROVE TypeOK'
  BY <1>13, <1>9, <1>10, ReturnKeeps DEF Fail, InboundInv, TypeOK, Executing, history
<1>14. ASSUME NEW t \in Tasks, AfterSend(t)
       PROVE  pc' \in [Tasks -> PCs] /\ local' \in [Tasks -> LocalType]
  BY <1>14, ReturnKeeps DEF AfterSend, InboundInv, TypeOK, Goto, PCs
<1>15. ASSUME NEW t \in Tasks, Ask(t) PROVE TypeOK'
  <2>1. asked' \in [RunIds -> TargetType]
    BY <1>15, <1>10 DEF Ask, InboundInv, TypeOK, LocalType, Executing
  <2>2. QED
    BY <1>15, <1>14, <2>1 DEF Ask, InboundInv, TypeOK, tables
<1>16. ASSUME NEW t \in Tasks, Answer(t) PROVE TypeOK'
  <2>1. [run |-> local[t].run, chat |-> local[t].answer.chat]
          \in [run : RunIds, chat : Chats \cup {None}]
    BY <1>16, <1>10, TargetFacts DEF Answer, InboundInv, TypeOK, LocalType, Executing
  <2>2. QED
    BY <1>16, <1>14, <2>1 DEF Answer, InboundInv, TypeOK, tables
<1>17. ASSUME NEW t \in Tasks, Tag(t) PROVE TypeOK'
  <2>1. local[t].run \in RunIds /\ local[t].ask.chat \in Chats
    BY <1>17, <1>10, TargetFacts DEF Tag, InboundInv, TypeOK, LocalType, Executing, Asks
  <2>2. [runs[local[t].run] EXCEPT !.chats = @ \cup {local[t].ask.chat}] \in RunType
    BY <2>1 DEF InboundInv, TypeOK, RunType
  <2>3. runs' \in [RunIds -> RunType]
    BY <1>17, <2>1, <2>2 DEF Tag, InboundInv, TypeOK, RunType
  <2>4. QED
    BY <1>17, <2>3, ReturnKeeps DEF Tag, InboundInv, TypeOK, history
<1>18. ASSUME NEW t \in Tasks, SendFails(t) PROVE TypeOK'
  BY <1>18, <1>9, <1>10, ReturnKeeps DEF SendFails, InboundInv, TypeOK, Executing, history
<1>19. CASE UNCHANGED vars
  BY <1>19 DEF vars, InboundInv, TypeOK
<1>20. QED
  BY <1>1, <1>2, <1>3, <1>4, <1>5, <1>6, <1>7, <1>8, <1>11, <1>12, <1>13, <1>15, <1>16,
     <1>17, <1>18, <1>19, <1>22 DEF Next, Turn, Step

-----------------------------------------------------------------------------
(* The rest of the invariant.                                              *)

\* A run that exists keeps its workflow and origin; chats are only added.
Grown == \A r \in RunIds : runs[r].status # "absent" =>
  /\ runs'[r].status # "absent"
  /\ runs'[r].wf = runs[r].wf
  /\ runs'[r].home = runs[r].home
  /\ runs[r].chats \subseteq runs'[r].chats

Others(t) == \A u \in Tasks \ {t} : pc'[u] = pc[u] /\ local'[u] = local[u]

LEMMA RunsGrow == InboundInv /\ [Next]_vars => Grown
<1> SUFFICES ASSUME InboundInv, [Next]_vars PROVE Grown
  OBVIOUS
<1>1. runs \in [RunIds -> RunType]
  BY DEF InboundInv, TypeOK
<1>2. CASE UNCHANGED runs
  BY <1>2 DEF Grown
<1>3. ASSUME NEW r \in RunIds, runs[r].status = "absent", NEW x, runs' = [runs EXCEPT ![r] = x]
      PROVE  Grown
  BY <1>1, <1>3 DEF Grown
<1>4. ASSUME NEW r \in RunIds, NEW s \in {"running", "waiting_human", "completed", "failed"},
             SetStatus(r, s)
      PROVE  Grown
  BY <1>1, <1>4 DEF Grown, SetStatus, RunType
<1>5. ASSUME NEW t \in Tasks, pc[t] \in Executing
      PROVE  local[t].run \in RunIds
  BY <1>5 DEF InboundInv, TypeOK, LocalType, Works
<1>6. ASSUME NEW t \in Tasks, Create(t) PROVE Grown
  BY <1>3, <1>6, NextIsAbsent DEF Create
<1>7. ASSUME NEW t \in Tasks, NEW w \in Workflows, CreateConsole(t, w) PROVE Grown
  BY <1>3, <1>7, NextIsAbsent DEF CreateConsole
<1>8. ASSUME NEW t \in Tasks, PersistInbound(t) \/ Tag(t) PROVE Grown
  BY <1>1, <1>5, <1>8 DEF PersistInbound, Tag, Executing, Grown, RunType
<1>9. ASSUME NEW t \in Tasks, Begin(t) \/ Pause(t) \/ Complete(t) \/ Fail(t) \/ SendFails(t)
      PROVE  Grown
  BY <1>2, <1>4, <1>5, <1>9 DEF Begin, Pause, Complete, Fail, SendFails, Executing
<1>10. QED
  BY <1>2, <1>6, <1>7, <1>8, <1>9
  DEF Next, Turn, Step, vars, tables, Receive, ResumeConsole, Select, Resolve, SelectApproval,
      Register, Ask, Answer

LEMMA RunsStayBelonging == InboundInv /\ Grown /\ [Next]_vars => RunsBelong'
<1> SUFFICES ASSUME InboundInv, Grown, [Next]_vars PROVE RunsBelong'
  OBVIOUS
<1>1. runs \in [RunIds -> RunType] /\ RunsBelong
  BY DEF InboundInv, TypeOK
<1>2. ASSUME NEW q \in RunIds, NEW w \in Workflows, NEW x, x.wf = w, runs' = [runs EXCEPT ![q] = x]
      PROVE  RunsBelong'
  BY <1>1, <1>2 DEF RunsBelong, Grown
<1>3. CASE \A r \in RunIds : runs'[r].status # "absent" => runs[r].status # "absent"
  BY <1>1, <1>3 DEF RunsBelong, Grown
<1>4. ASSUME NEW t \in Tasks, Create(t) PROVE RunsBelong'
  <2>1. PICK r \in RunIds :
          runs' = [runs EXCEPT ![r] = [NoRun EXCEPT !.status = "pending", !.wf = local[t].wf,
                                       !.home = local[t].bot]]
    BY <1>4 DEF Create
  <2>2. local[t].wf \in Workflows
    BY <1>4 DEF Create, InboundInv, Handling
  <2>3. QED
    BY <1>2, <2>1, <2>2 DEF NoRun
<1>5. ASSUME NEW t \in Tasks, NEW w \in Workflows, CreateConsole(t, w) PROVE RunsBelong'
  BY <1>2, <1>5 DEF CreateConsole, NoRun
<1>6. CASE UNCHANGED runs
  BY <1>3, <1>6
<1>7. ASSUME NEW t \in Tasks, pc[t] \in Executing
      PROVE  local[t].run \in RunIds /\ runs[local[t].run].status # "absent"
  BY <1>7 DEF InboundInv, TypeOK, LocalType, Works
<1>8. ASSUME NEW t \in Tasks,
             \/ PersistInbound(t) \/ Tag(t) \/ Begin(t) \/ Pause(t) \/ Complete(t)
             \/ Fail(t) \/ SendFails(t)
      PROVE  RunsBelong'
  BY <1>1, <1>3, <1>6, <1>7, <1>8
  DEF PersistInbound, Tag, Begin, Pause, Complete, Fail, SendFails, SetStatus, Executing, RunType
<1>9. QED
  BY <1>4, <1>5, <1>6, <1>8
  DEF Next, Turn, Step, vars, tables, Receive, ResumeConsole, Select, Resolve, SelectApproval,
      Register, Ask, Answer

LEMMA OthersKeep ==
  ASSUME InboundInv, Grown, NEW u \in Tasks, pc'[u] = pc[u], local'[u] = local[u]
  PROVE  Handling(u)' /\ Works(u)' /\ Asks(u)'
<1>1. Handling(u) /\ Works(u) /\ Asks(u)
  BY DEF InboundInv
<1>2. Handling(u)'
  BY <1>1 DEF Handling
<1>3. Works(u)'
  BY <1>1 DEF Works, Grown, InboundInv, TypeOK, LocalType
<1>4. Asks(u)'
  BY <1>1 DEF Asks, Works, Grown, Executing, InboundInv, TypeOK, LocalType
<1>5. QED
  BY <1>2, <1>3, <1>4

\* A task that returns, and one that only moves on in the execution of its run.
LEMMA IdleKeeps ==
  ASSUME NEW t \in Tasks, pc'[t] = "idle", local'[t] = Idle
  PROVE  Handling(t)' /\ Works(t)' /\ Asks(t)'
  BY DEF Handling, Works, Asks, Executing, Idle

LEMMA MovesOn ==
  ASSUME InboundInv, Grown, NEW t \in Tasks, NEW p, Goto(t, p), UNCHANGED local,
         pc[t] \in Executing \ {"inbound"}, p \in Executing \ {"inbound"},
         p = "tag" => local[t].tags
  PROVE  Handling(t)' /\ Works(t)' /\ Asks(t)' /\ Others(t)
<1>1. Handling(t) /\ Works(t) /\ Asks(t)
  BY DEF InboundInv
<1>2. pc'[t] = p /\ Others(t)
  BY DEF Goto, InboundInv, TypeOK, Others
<1>3. local[t].run \in RunIds
  BY <1>1 DEF Works, InboundInv, TypeOK, LocalType
<1>4. Handling(t)' /\ Works(t)'
  BY <1>1, <1>2, <1>3 DEF Handling, Works, Grown, Executing
<1>5. Asks(t)'
  BY <1>1, <1>2, <1>3 DEF Asks, Works, Grown, Executing
<1>6. QED
  BY <1>2, <1>4, <1>5

\* What one step makes of the task that takes it.
LEMMA TaskStep ==
  ASSUME InboundInv, Grown, NEW t \in Tasks,
         Turn(t)
  PROVE  Handling(t)' /\ Works(t)' /\ Asks(t)' /\ Others(t)
<1> DEFINE Goal == Handling(t)' /\ Works(t)' /\ Asks(t)' /\ Others(t)
<1> USE InboundAssumption
<1>1. pc \in [Tasks -> PCs] /\ local \in [Tasks -> LocalType] /\ runs \in [RunIds -> RunType]
  BY DEF InboundInv, TypeOK
<1>2. Handling(t) /\ Works(t) /\ Asks(t)
  BY DEF InboundInv
<1>3. ASSUME NEW b \in Bots, NEW c \in Chats, Receive(t, b, c) PROVE Goal
  BY <1>1, <1>3 DEF Receive, Goto, Others, Handling, Works, Asks, Executing, Idle
<1>4. CASE Select(t)
  <2>1. pc'[t] = "resolve" /\ Others(t)
    BY <1>1, <1>4 DEF Select, Goto, Others
  <2>2. local[t].bot \in Bots /\ local[t].chat \in Chats /\ local[t].bot.role = "customer"
    BY <1>2, <1>4 DEF Select, Handling
  <2>3. CASE \E r \in Latest(WaitingFor(local[t].bot, local[t].chat)) :
               local' = [local EXCEPT ![t].replies = {}, ![t].run = r, ![t].wf = runs[r].wf]
    <3>1. PICK r \in RunIds :
            /\ local' = [local EXCEPT ![t].replies = {}, ![t].run = r, ![t].wf = runs[r].wf]
            /\ r \in WaitingFor(local[t].bot, local[t].chat)
      BY <2>3 DEF Latest, WaitingFor, Waiting
    <3>2. /\ runs[r].status = "waiting_human" /\ local[t].bot.wf \in {None, runs[r].wf}
      BY <2>2, <3>1 DEF WaitingFor, Waiting
    <3>3. local'[t] = [local[t] EXCEPT !.replies = {}, !.run = r, !.wf = runs[r].wf]
      BY <1>1, <3>1 DEF LocalType
    <3>4. runs[r].wf \in Workflows /\ UNCHANGED runs
      BY <1>4, <3>2 DEF Select, tables, InboundInv, RunsBelong
    <3>5. /\ local'[t].bot = local[t].bot /\ local'[t].chat = local[t].chat
          /\ local'[t].wf = runs[r].wf /\ local'[t].run = r
          /\ local'[t].ask = local[t].ask /\ local'[t].tags = local[t].tags
      BY <1>1, <3>3 DEF LocalType
    <3>6. Handling(t)'
      BY <2>1, <2>2, <3>2, <3>4, <3>5 DEF Handling
    <3>7. Works(t)'
      BY <2>1, <3>2, <3>4, <3>5 DEF Works, Executing
    <3>8. Asks(t)'
      BY <1>2, <2>1, <3>5 DEF Asks, Executing
    <3>9. QED
      BY <2>1, <3>6, <3>7, <3>8
  <2>4. CASE /\ WaitingFor(local[t].bot, local[t].chat) = {}
             /\ \E w \in ResolveWorkflow(local[t].bot) :
               local' = [local EXCEPT ![t].replies = {}, ![t].wf = w,
                                      ![t].captures = CaptureIn(w)]
    <3>1. PICK w \in ResolveWorkflow(local[t].bot) :
            local' = [local EXCEPT ![t].replies = {}, ![t].wf = w,
                                      ![t].captures = CaptureIn(w)]
      BY <2>4
    <3>2. w \in Workflows /\ local[t].bot.wf \in {None, w}
      BY <2>2, <3>1, ResolveFacts
    <3>3. local'[t] = [local[t] EXCEPT !.replies = {}, !.wf = w, !.captures = CaptureIn(w)]
      BY <1>1, <3>1 DEF LocalType
    <3>4. /\ local'[t].bot = local[t].bot /\ local'[t].chat = local[t].chat
          /\ local'[t].wf = w /\ local'[t].run = local[t].run
          /\ local'[t].ask = local[t].ask /\ local'[t].tags = local[t].tags
      BY <1>1, <3>3 DEF LocalType
    <3>5. Handling(t)'
      BY <2>1, <2>2, <3>2, <3>4 DEF Handling
    <3>6. Works(t)'
      BY <1>2, <1>4, <2>1, <3>4 DEF Select, Handling, Works, Executing
    <3>7. Asks(t)'
      BY <1>2, <2>1, <3>4 DEF Asks, Executing
    <3>8. QED
      BY <2>1, <3>5, <3>6, <3>7
  <2>5. QED
    BY <1>4, <2>3, <2>4 DEF Select
<1>5. CASE Resolve(t)
  <2> DEFINE l == local[t]
  <2>2. /\ l.bot \in Bots /\ l.chat \in Chats /\ l.bot.role = "customer" /\ l.wf \in Workflows
        /\ l.bot.wf \in {None, l.wf}
    BY <1>2, <1>5 DEF Resolve, Handling
  <2>1. PICK a \in AskFor(l.wf, To(l.bot, l.chat)) :
          /\ local'[t] = [l EXCEPT !.captures = {}, !.ask = a, !.answer = To(l.bot, l.chat)]
          /\ Others(t)
    BY <1>1, <1>5 DEF Resolve, Goto, Others, LocalType
  <2>3. /\ a.bot.wf \in {None, l.wf}
        /\ a.bot.role = "customer" => a.chat = l.chat
        /\ a # NoTarget
    BY <2>1, <2>2, AskForFacts DEF InboundInv
  <2>4. pc'[t] = (IF l.run = 0 THEN "create" ELSE "inbound") /\ UNCHANGED runs
    BY <1>1, <1>5 DEF Resolve, Goto
  <2>5. l \in LocalType /\ pc[t] = "resolve"
    BY <1>1, <1>5 DEF Resolve
  <2>6. /\ local'[t].ask = a /\ local'[t].bot = l.bot /\ local'[t].chat = l.chat
        /\ local'[t].wf = l.wf /\ local'[t].run = l.run /\ local'[t].tags = l.tags
    BY <2>1, <2>5 DEF LocalType
  <2>7. Handling(t)' /\ Works(t)'
    BY <1>2, <2>2, <2>4, <2>5, <2>6 DEF Handling, Works, Executing
  <2>8. Asks(t)'
    BY <1>2, <2>3, <2>4, <2>6 DEF Asks, Executing
  <2>9. QED
    BY <2>1, <2>7, <2>8
<1>6. CASE SelectApproval(t)
  <2> DEFINE answer(r) == IF runs[r].first = None \/ ~DefaultBot THEN NoTarget
                          ELSE To(Default, runs[r].first)
  <2>1. PICK r \in RunIds :
          /\ local' = [local EXCEPT ![t].replies = {}, ![t].run = r, ![t].wf = local[t].bot.wf,
                          ![t].ask = To(local[t].bot, local[t].chat), ![t].answer = answer(r)]
          /\ r \in WaitingFor(local[t].bot, local[t].chat)
    BY <1>6 DEF SelectApproval, Latest, WaitingFor, Waiting
  <2>2. /\ pc[t] = "select" /\ pc'[t] = "inbound" /\ Others(t) /\ UNCHANGED runs
        /\ local[t].chat \in Chats /\ local[t].bot.role = "approval"
    BY <1>1, <1>2, <1>6 DEF SelectApproval, Goto, Others, tables, Handling
  <2>3. runs[r].status = "waiting_human" /\ local[t].bot.wf = runs[r].wf
    BY <2>1, <2>2 DEF WaitingFor, Waiting
  <2>4. /\ local'[t].bot = local[t].bot /\ local'[t].chat = local[t].chat
        /\ local'[t].wf = local[t].bot.wf /\ local'[t].run = r
        /\ local'[t].ask = To(local[t].bot, local[t].chat) /\ local'[t].tags = local[t].tags
    <3> HIDE DEF answer
    <3> QED
      BY <1>1, <2>1 DEF LocalType
  <2>5. Handling(t)'
    BY <2>2, <2>4 DEF Handling
  <2>6. Works(t)'
    BY <2>2, <2>3, <2>4 DEF Works, Executing, RunIds
  <2>7. local'[t].ask # NoTarget /\ local'[t].ask.bot = local[t].bot
    BY <2>2, <2>4 DEF To, NoTarget
  <2>8. Asks(t)'
    BY <2>2, <2>4, <2>7 DEF Asks
  <2>9. QED
    BY <2>2, <2>5, <2>6, <2>8
<1>7. CASE Create(t)
  <2>1. PICK r \in RunIds :
          /\ runs' = [runs EXCEPT ![r] = [NoRun EXCEPT !.status = "pending", !.wf = local[t].wf,
                                           !.home = local[t].bot]]
          /\ local' = [local EXCEPT ![t].run = r]
    BY <1>7 DEF Create
  <2>2. local'[t] = [local[t] EXCEPT !.run = r] /\ pc'[t] = "inbound" /\ Others(t)
    BY <1>1, <1>7, <2>1 DEF Create, Goto, Others, LocalType
  <2>3. runs'[r].status = "pending" /\ runs'[r].wf = local[t].wf
    BY <1>1, <2>1 DEF NoRun
  <2>4. r # 0 /\ local[t] \in LocalType /\ pc[t] = "create"
    BY <1>1, <1>7 DEF RunIds, Create
  <2>5. Handling(t)' /\ Works(t)'
    BY <1>2, <2>2, <2>3, <2>4 DEF Handling, Works, Executing, LocalType
  <2>6. Asks(t)'
    BY <1>2, <2>2, <2>4 DEF Asks, Executing, LocalType
  <2>7. QED
    BY <2>2, <2>5, <2>6
<1>8. CASE PersistInbound(t)
  <2>1. local[t].run \in RunIds /\ pc[t] = "inbound" /\ pc'[t] = "start" /\ UNCHANGED local
    BY <1>1, <1>2, <1>8 DEF PersistInbound, Goto, Works, Executing, LocalType
  <2>2. Others(t)
    BY <1>1, <1>8 DEF PersistInbound, Goto, Others
  <2>3. local[t].chat \in runs'[local[t].run].chats
    BY <1>1, <1>8, <2>1 DEF PersistInbound, RunType
  <2>4. Handling(t)' /\ Works(t)'
    BY <1>2, <2>1 DEF Handling, Works, Grown, Executing
  <2>5. Asks(t)'
    BY <1>2, <2>1, <2>3 DEF Asks, Works, Grown, Executing
  <2>6. QED
    BY <2>2, <2>4, <2>5
<1>9. ASSUME NEW r \in RunIds, NEW w \in Workflows, NEW x \in Notified(w), Spawn(t, r, w, x),
             runs'[r].status # "absent", runs'[r].wf = w
      PROVE  Goal
  <2>1. /\ local'[t] = [Idle EXCEPT !.run = r, !.wf = w, !.ask = x, !.answer = x,
                                    !.tags = x # NoTarget]
        /\ pc'[t] = "start" /\ Others(t)
    BY <1>1, <1>9 DEF Spawn, Goto, Others
  <2>2. x # NoTarget => x.bot.wf \in {None, w}
    BY NotifiedFacts DEF InboundInv
  <2>3. r # 0
    BY DEF RunIds
  <2>4. /\ local'[t].run = r /\ local'[t].wf = w /\ local'[t].ask = x
        /\ (x # NoTarget => local'[t].tags)
        /\ (local'[t].tags => x # NoTarget)
    BY <2>1 DEF Idle
  <2>5. Handling(t)'
    BY <2>1 DEF Handling
  <2>6. Works(t)'
    BY <1>9, <2>1, <2>3, <2>4 DEF Works, Executing
  <2>7. Asks(t)'
    BY <2>1, <2>2, <2>4 DEF Asks, Executing
  <2>8. QED
    BY <2>1, <2>5, <2>6, <2>7
<1>15. ASSUME NEW w \in Workflows, CreateConsole(t, w) PROVE Goal
  <2>1. PICK r \in RunIds, x \in Notified(w) :
          /\ runs' = [runs EXCEPT ![r] = [NoRun EXCEPT !.status = "pending", !.wf = w]]
          /\ Spawn(t, r, w, x)
    BY <1>15 DEF CreateConsole
  <2>2. runs'[r].status = "pending" /\ runs'[r].wf = w
    BY <1>1, <2>1 DEF NoRun
  <2>3. QED
    BY <1>9, <2>1, <2>2
<1>16. ASSUME NEW r \in RunIds, ResumeConsole(t, r) PROVE Goal
  <2>1. runs[r].wf \in Workflows /\ UNCHANGED runs /\ runs[r].status # "absent"
    BY <1>16 DEF ResumeConsole, InboundInv, RunsBelong, tables
  <2>2. PICK x \in Notified(runs[r].wf) : Spawn(t, r, runs[r].wf, x)
    BY <1>16 DEF ResumeConsole
  <2>3. QED
    BY <1>9, <2>1, <2>2
<1>10. CASE Begin(t) \/ Pause(t) \/ Complete(t)
  <2>1. CASE Begin(t)
    BY <2>1, MovesOn DEF Begin, Executing
  <2>2. CASE Pause(t)
    BY <2>2, MovesOn DEF Pause, Executing
  <2>3. CASE Complete(t)
    BY <2>3, MovesOn DEF Complete, Executing
  <2>4. QED
    BY <1>10, <2>1, <2>2, <2>3
<1>11. CASE Return(t)
  BY <1>11, ReturnKeeps, IdleKeeps DEF Others
<1>12. CASE (Ask(t) \/ Answer(t)) /\ local[t].tags
  BY <1>12, MovesOn DEF Ask, Answer, AfterSend, Executing
<1>13. CASE \/ Register(t) \/ Fail(t) \/ Tag(t) \/ SendFails(t)
            \/ (Ask(t) \/ Answer(t)) /\ ~local[t].tags
  BY <1>11, <1>13 DEF Register, Fail, Tag, SendFails, Ask, Answer, AfterSend
<1>14. QED
  BY <1>3, <1>4, <1>5, <1>6, <1>7, <1>8, <1>10, <1>12, <1>13, <1>15, <1>16
  DEF Turn, Step

LEMMA InboundStep == InboundInv /\ [Next]_vars => InboundInv'
<1> SUFFICES ASSUME InboundInv, [Next]_vars PROVE InboundInv'
  OBVIOUS
<1>1. TypeOK' /\ Grown /\ RunsBelong'
  BY TypeStep, RunsGrow, RunsStayBelonging
<1>3. ASSUME NEW u \in Tasks PROVE Handling(u)' /\ Works(u)' /\ Asks(u)'
  <2>1. CASE UNCHANGED vars
    BY <1>1, <2>1, OthersKeep DEF vars
  <2>2. ASSUME NEW t \in Tasks,
               Turn(t)
        PROVE  Handling(u)' /\ Works(u)' /\ Asks(u)'
    <3>1. Handling(t)' /\ Works(t)' /\ Asks(t)' /\ Others(t)
      BY <1>1, <2>2, TaskStep
    <3>2. CASE u = t
      BY <3>1, <3>2
    <3>3. CASE u # t
      BY <1>1, <3>1, <3>3, OthersKeep DEF Others
    <3>4. QED
      BY <3>2, <3>3
  <2>3. QED
    BY <2>1, <2>2 DEF Next
<1>4. QED
  BY <1>1, <1>3 DEF InboundInv

\* The rows, the bindings and the local variables keep their types (router.py and
\* notify.py as a whole).
THEOREM InboundTypes == Spec => []TypeOK
<1>1. Init => InboundInv
  BY InboundInit
<1>2. InboundInv => TypeOK
  BY DEF InboundInv
<1>3. QED
  BY <1>1, <1>2, InboundStep, PTL DEF Spec

-----------------------------------------------------------------------------
(* The conversations of different bots.                                    *)

LEMMA HomesStep == InboundInv /\ Homes /\ [Next]_vars => Homes'
<1> SUFFICES ASSUME InboundInv, Homes, [Next]_vars PROVE Homes'
  OBVIOUS
<1>1. runs \in [RunIds -> RunType]
  BY DEF InboundInv, TypeOK
<1>2. CASE \A r \in RunIds : runs'[r].home = runs[r].home /\ runs'[r].wf = runs[r].wf
  BY <1>2 DEF Homes
<1>3. ASSUME NEW t \in Tasks, Create(t) PROVE Homes'
  <2>1. PICK r \in RunIds :
          runs' = [runs EXCEPT ![r] = [NoRun EXCEPT !.status = "pending", !.wf = local[t].wf,
                                       !.home = local[t].bot]]
    BY <1>3 DEF Create
  <2>2. local[t].bot.role = "customer" /\ local[t].bot.wf \in {None, local[t].wf}
    BY <1>3 DEF Create, InboundInv, Handling
  <2>3. runs'[r].home = local[t].bot /\ runs'[r].wf = local[t].wf
    BY <1>1, <2>1 DEF NoRun
  <2>4. \A q \in RunIds : q # r => runs'[q] = runs[q]
    BY <1>1, <2>1
  <2>5. QED
    BY <2>2, <2>3, <2>4 DEF Homes
<1>4. ASSUME NEW t \in Tasks, NEW w \in Workflows, CreateConsole(t, w) PROVE Homes'
  BY <1>1, <1>4 DEF CreateConsole, Homes, NoRun
<1>5. CASE UNCHANGED runs
  BY <1>2, <1>5
<1>6. ASSUME NEW t \in Tasks,
             \/ PersistInbound(t) \/ Tag(t) \/ Begin(t) \/ Pause(t) \/ Complete(t)
             \/ Fail(t) \/ SendFails(t)
      PROVE  Homes'
  BY <1>1, <1>2, <1>5, <1>6
  DEF PersistInbound, Tag, Begin, Pause, Complete, Fail, SendFails, SetStatus, RunType
<1>7. QED
  BY <1>3, <1>4, <1>5, <1>6
  DEF Next, Turn, Step, vars, tables, Receive, ResumeConsole, Select, Resolve, SelectApproval,
      Register, Ask, Answer

\* What a customer says to the bot of one workflow never resumes a run that began with
\* the bot of another (router.py:98-102), for any bindings, several bots of a workflow
\* among them, and any messages, console runs and resumes in any order.
THEOREM BotsNeverCross == Spec => []NoCrossWire
<1>1. Init => InboundInv /\ Homes
  BY InboundInit
<1>2. InboundInv /\ Homes /\ [Next]_vars => (InboundInv /\ Homes)'
  BY InboundStep, HomesStep
<1>3. InboundInv /\ Homes => NoCrossWire
  <2> SUFFICES ASSUME InboundInv, Homes, NEW t \in Tasks, pc[t] = "resolve", local[t].run # 0,
                      runs[local[t].run].home # None
               PROVE  \/ runs[local[t].run].home.wf = local[t].bot.wf
                      \/ None \in {runs[local[t].run].home.wf, local[t].bot.wf}
    BY DEF NoCrossWire
  <2>1. local[t].run \in RunIds /\ runs[local[t].run].wf = local[t].wf
    BY DEF InboundInv, Works, TypeOK, LocalType
  <2>2. local[t].bot.wf \in {None, local[t].wf}
    BY DEF InboundInv, Handling
  <2>3. QED
    BY <2>1, <2>2 DEF Homes
<1>4. QED
  BY <1>1, <1>2, <1>3, PTL DEF Spec

-----------------------------------------------------------------------------
(* Questions and the runs they belong to.                                  *)

LEMMA TiedStep == InboundInv /\ Tied /\ [Next]_vars => Tied'
<1> SUFFICES ASSUME InboundInv, Tied, [Next]_vars, NEW r \in RunIds, asked'[r] # NoTarget
             PROVE  /\ runs'[r].status # "absent"
                    /\ asked'[r].bot.wf \in {None, runs'[r].wf}
                    /\ asked'[r].bot.role = "customer" =>
                         \/ asked'[r].chat \in runs'[r].chats
                         \/ \E t \in Tasks : /\ pc'[t] = "tag" /\ local'[t].run = r
                                             /\ local'[t].ask = asked'[r]
  BY DEF Tied
<1> DEFINE Goal == /\ runs'[r].status # "absent"
                   /\ asked'[r].bot.wf \in {None, runs'[r].wf}
                   /\ asked'[r].bot.role = "customer" =>
                        \/ asked'[r].chat \in runs'[r].chats
                        \/ \E t \in Tasks : /\ pc'[t] = "tag" /\ local'[t].run = r
                                            /\ local'[t].ask = asked'[r]
<1>1. Grown /\ runs \in [RunIds -> RunType] /\ asked \in [RunIds -> TargetType]
  BY RunsGrow DEF InboundInv, TypeOK
<1>2. ASSUME asked'[r] = asked[r],
             \A t \in Tasks : pc[t] = "tag" => pc'[t] = "tag" /\ local'[t] = local[t]
      PROVE  Goal
  BY <1>1, <1>2 DEF Tied, Grown
<1>3. ASSUME NEW t \in Tasks, pc[t] # "tag", Others(t), asked'[r] = asked[r] PROVE Goal
  BY <1>2, <1>3 DEF Others
<1>4. ASSUME NEW t \in Tasks, Begin(t) PROVE Goal
  <2>1. local[t].run # r
    BY <1>1, <1>4 DEF Begin
  <2>2. asked'[r] = asked[r] /\ Others(t)
    BY <1>1, <1>4, <2>1 DEF Begin, Goto, Others, InboundInv, TypeOK
  <2>3. QED
    BY <1>3, <1>4, <2>2 DEF Begin
<1>5. ASSUME NEW t \in Tasks, Ask(t) PROVE Goal
  <2>1. pc[t] = "ask" /\ local[t].run \in RunIds /\ Works(t) /\ Asks(t)
    BY <1>5 DEF Ask, InboundInv, TypeOK, LocalType, Works, Executing
  <2>2. Others(t)
    BY <1>1, <1>5, TaskStep DEF Turn, Step
  <2>3. CASE local[t].run # r
    BY <1>1, <1>3, <1>5, <2>1, <2>2, <2>3 DEF Ask
  <2>4. CASE local[t].run = r
    <3>1. asked'[r] = local[t].ask /\ UNCHANGED runs
      BY <1>1, <1>5, <2>1, <2>4 DEF Ask, tables
    <3>2. /\ runs'[r].status # "absent"
          /\ asked'[r].bot.wf \in {None, runs'[r].wf}
      BY <2>1, <2>4, <3>1 DEF Works, Asks, Executing
    <3>3. CASE local[t].tags
      <4>1. pc'[t] = "tag" /\ local'[t] = local[t]
        BY <1>5, <3>3 DEF Ask, AfterSend, Goto, InboundInv, TypeOK
      <4>2. QED
        BY <2>4, <3>1, <3>2, <4>1
    <3>4. CASE ~local[t].tags
      BY <2>1, <2>4, <3>1, <3>2, <3>4 DEF Asks, Executing
    <3>5. QED
      BY <3>3, <3>4
  <2>5. QED
    BY <2>3, <2>4
<1>6. ASSUME NEW t \in Tasks, Tag(t) PROVE Goal
  <2>1. local[t].run \in RunIds /\ asked' = asked /\ Others(t)
    BY <1>1, <1>6, TaskStep
    DEF Tag, Turn, Step, history, InboundInv, TypeOK, LocalType, Works, Executing
  <2>2. local[t].ask.chat \in runs'[local[t].run].chats
    BY <1>1, <1>6, <2>1 DEF Tag, RunType
  <2>3. QED
    BY <1>1, <2>1, <2>2 DEF Tied, Grown, Others
<1>7. ASSUME NEW t \in Tasks,
             \/ Select(t) \/ Resolve(t) \/ SelectApproval(t) \/ Register(t) \/ Create(t)
             \/ PersistInbound(t) \/ Pause(t) \/ Complete(t) \/ Fail(t) \/ Answer(t) \/ SendFails(t)
      PROVE  Goal
  <2>1. Others(t)
    BY <1>1, <1>7, TaskStep DEF Turn, Step
  <2>2. pc[t] # "tag" /\ asked' = asked
    BY <1>7 DEF Select, Resolve, SelectApproval, Register, Create, PersistInbound, Pause,
                Complete, Fail, Answer, SendFails, history
  <2>3. QED
    BY <1>3, <2>1, <2>2
<1>8. ASSUME NEW t \in Tasks, NEW b \in Bots, NEW c \in Chats, Receive(t, b, c) PROVE Goal
  <2>1. Others(t)
    BY <1>1, <1>8, TaskStep DEF Turn
  <2>2. QED
    BY <1>3, <1>8, <2>1 DEF Receive, history
<1>9. ASSUME NEW t \in Tasks, NEW w \in Workflows, CreateConsole(t, w) PROVE Goal
  <2>1. Others(t)
    BY <1>1, <1>9, TaskStep DEF Turn
  <2>2. QED
    BY <1>3, <1>9, <2>1 DEF CreateConsole, history
<1>10. CASE UNCHANGED vars
  BY <1>2, <1>10 DEF vars
<1>11. ASSUME NEW t \in Tasks, NEW q \in RunIds, ResumeConsole(t, q) PROVE Goal
  <2>1. Others(t)
    BY <1>1, <1>11, TaskStep DEF Turn
  <2>2. QED
    BY <1>3, <1>11, <2>1 DEF ResumeConsole, history
<1>12. QED
  BY <1>4, <1>5, <1>6, <1>7, <1>8, <1>9, <1>10, <1>11 DEF Next, Turn, Step

\* Once its sender has finished, a question is where an answer finds the run: with the
\* approver's bot of its workflow or in a chat tied to the run (notify.py:59-63,
\* router.py:239-243), for any bots, bindings and overlap of tasks.
THEOREM QuestionsAreTied == Spec => []QuestionIsTied
<1>1. Init => InboundInv /\ Tied
  BY InboundInit
<1>2. InboundInv /\ Tied /\ [Next]_vars => (InboundInv /\ Tied)'
  BY InboundStep, TiedStep
<1>3. InboundInv /\ Tied => QuestionIsTied
  BY DEF Tied, QuestionIsTied
<1>4. QED
  BY <1>1, <1>2, <1>3, PTL DEF Spec

-----------------------------------------------------------------------------
(* Replies find their run, when no run is started or resumed from the      *)
(* console: the notifier has sent a question before it ties the chat to    *)
(* the run.                                                                *)

\* A message that replies to the question of a run that still waits starts no new run.
ReplyFindsRun == [][\A t \in Tasks :
  Select(t) /\ local'[t].run = 0 => local[t].replies \cap Waiting = {}]_vars

\* A task of a chat tags nothing, and the questions its message may reply to are tied.
Replies(t) ==
  /\ ~local[t].tags
  /\ pc[t] = "select" => \A r \in local[t].replies :
       /\ runs[r].status # "absent"
       /\ local[t].bot.wf \in {None, runs[r].wf}
       /\ local[t].bot.role = "customer" => local[t].chat \in runs[r].chats

LEMMA TagsStay ==
  ASSUME InboundInv, Console = FALSE, NEW t \in Tasks, ~local[t].tags,
         Turn(t)
  PROVE  ~local'[t].tags
<1>1. local \in [Tasks -> LocalType]
  BY DEF InboundInv, TypeOK
<1>2. CASE UNCHANGED local \/ local'[t] = Idle
  BY <1>2 DEF Idle
<1>3. ASSUME Return(t) PROVE local'[t] = Idle
  BY <1>1, <1>3 DEF Return
<1>4. CASE Select(t)
  BY <1>1, <1>4, ZenonT(60) DEF Select, LocalType
<1>5. CASE Resolve(t) \/ SelectApproval(t) \/ Create(t)
  <2>1. CASE Resolve(t)
    <3>1. PICK x, y : local' = [local EXCEPT ![t].captures = {}, ![t].ask = x, ![t].answer = y]
      BY <2>1 DEF Resolve
    <3>2. QED
      BY <1>1, <3>1 DEF LocalType
  <2>2. CASE SelectApproval(t)
    <3> DEFINE answer(r) == IF runs[r].first = None \/ ~DefaultBot THEN NoTarget
                            ELSE To(Default, runs[r].first)
    <3>1. PICK r : local' = [local EXCEPT ![t].replies = {}, ![t].run = r,
                               ![t].wf = local[t].bot.wf,
                               ![t].ask = To(local[t].bot, local[t].chat),
                               ![t].answer = answer(r)]
      BY <2>2 DEF SelectApproval
    <3> HIDE DEF answer
    <3>2. QED
      BY <1>1, <3>1 DEF LocalType
  <2>3. CASE Create(t)
    BY <1>1, <2>3 DEF Create, LocalType
  <2>4. QED
    BY <1>5, <2>1, <2>2, <2>3
<1>6. ASSUME NEW b \in Bots, NEW c \in Chats, Receive(t, b, c) PROVE ~local'[t].tags
  BY <1>1, <1>6 DEF Receive, Idle
<1>7. QED
  BY <1>2, <1>3, <1>4, <1>5, <1>6
  DEF Turn, Step, Register, PersistInbound, Begin, Pause, Complete, Fail, Ask, Answer, AfterSend,
      Tag, SendFails, CreateConsole, ResumeConsole

LEMMA RepliesStep ==
  ASSUME InboundInv, Tied, Console = FALSE, \A t \in Tasks : Replies(t), [Next]_vars
  PROVE  \A t \in Tasks : Replies(t)'
<1>1. Grown /\ local \in [Tasks -> LocalType] /\ pc \in [Tasks -> PCs]
      /\ asked \in [RunIds -> TargetType]
  BY RunsGrow DEF InboundInv, TypeOK
<1>2. ASSUME NEW u \in Tasks, pc'[u] = pc[u], local'[u] = local[u] PROVE Replies(u)'
  BY <1>1, <1>2 DEF Replies, Grown, LocalType
<1>3. ASSUME NEW t \in Tasks,
             Turn(t)
      PROVE  Replies(t)' /\ Others(t)
  <2>1. Others(t) /\ ~local'[t].tags
    BY <1>1, <1>3, TaskStep, TagsStay DEF Replies
  <2>2. ASSUME NEW b \in Bots, NEW c \in Chats, Receive(t, b, c) PROVE Replies(t)'
    <3>1. UNCHANGED runs
      BY <2>2 DEF Receive, tables
    <3>2. local'[t].bot = b /\ local'[t].chat = c
          /\ local'[t].replies = {r \in RunIds : asked[r] = To(b, c)}
      BY <1>1, <2>2 DEF Receive, Idle
    <3>3. ASSUME NEW r \in RunIds, asked[r] = To(b, c)
          PROVE  /\ runs[r].status # "absent" /\ b.wf \in {None, runs[r].wf}
                 /\ b.role = "customer" => c \in runs[r].chats
      <4>1. asked[r] # NoTarget /\ asked[r].bot = b /\ asked[r].chat = c
        BY <3>3, InboundAssumption DEF To, NoTarget
      <4>2. \A u \in Tasks : pc[u] # "tag"
        BY DEF Replies, Asks, InboundInv
      <4>3. QED
        BY <4>1, <4>2 DEF Tied
    <3>4. QED
      BY <2>1, <3>1, <3>2, <3>3 DEF Replies
  <2>3. CASE Step(t)
    <3>1. pc'[t] # "select"
      BY <1>1, <2>3
      DEF Step, Select, Resolve, SelectApproval, Register, Create, PersistInbound, Begin,
          Pause, Complete, Fail, Ask, Answer, AfterSend, Tag, SendFails, Return, Goto
    <3>2. QED
      BY <2>1, <3>1 DEF Replies
  <2>4. ASSUME (\E w \in Workflows : CreateConsole(t, w)) \/ \E r \in RunIds : ResumeConsole(t, r)
        PROVE  Replies(t)'
    BY <2>4 DEF CreateConsole, ResumeConsole
  <2>5. QED
    BY <1>3, <2>1, <2>2, <2>3, <2>4 DEF Turn
<1>4. CASE UNCHANGED vars
  BY <1>2, <1>4 DEF vars
<1>5. CASE Next
  BY <1>2, <1>3, <1>5 DEF Next, Others
<1>6. QED
  BY <1>4, <1>5

\* A message that replies to the question of a run that still waits starts no new run
\* (router.py:239-243, notify.py:9), when all runs come from chats.
THEOREM RepliesFindRuns ==
  ASSUME Console = FALSE
  PROVE  Spec => ReplyFindsRun
<1> DEFINE RInv == InboundInv /\ Tied /\ \A t \in Tasks : Replies(t)
<1>1. Init => RInv
  BY InboundInit DEF Init, Replies, Idle
<1>2. RInv /\ [Next]_vars => RInv'
  BY InboundStep, TiedStep, RepliesStep
<1>3. ASSUME RInv, NEW t \in Tasks, Select(t), local'[t].run = 0
      PROVE  local[t].replies \cap Waiting = {}
  <2>1. /\ local \in [Tasks -> LocalType] /\ pc[t] = "select"
        /\ local[t].bot \in Bots /\ local[t].bot.role = "customer"
    BY <1>3 DEF Select, InboundInv, TypeOK, Handling
  <2>2. WaitingFor(local[t].bot, local[t].chat) = {}
    <3>1. ASSUME NEW r \in Latest(WaitingFor(local[t].bot, local[t].chat)),
                 local' = [local EXCEPT ![t].replies = {}, ![t].run = r, ![t].wf = runs[r].wf]
          PROVE  FALSE
      <4>1. r \in RunIds /\ local'[t].run = r
        BY <2>1, <3>1 DEF Latest, WaitingFor, Waiting, LocalType
      <4>2. QED
        BY <1>3, <4>1, InboundAssumption DEF RunIds
    <3>2. QED
      BY <1>3, <3>1 DEF Select
  <2>3. ASSUME NEW r \in local[t].replies, r \in Waiting
        PROVE  r \in WaitingFor(local[t].bot, local[t].chat)
    <3>1. local[t].bot.wf \in {None, runs[r].wf} /\ local[t].chat \in runs[r].chats
      BY <1>3, <2>1, <2>3 DEF Replies
    <3>2. QED
      BY <2>1, <2>3, <3>1 DEF WaitingFor
  <2>4. QED
    BY <2>2, <2>3
<1>4. RInv /\ [Next]_vars =>
        [\A t \in Tasks : Select(t) /\ local'[t].run = 0 => local[t].replies \cap Waiting = {}]_vars
  BY <1>3
<1>5. QED
  BY <1>1, <1>2, <1>4, PTL DEF Spec, ReplyFindsRun

-----------------------------------------------------------------------------
(* With the console: a reply misses its run, and an answer is in a chat    *)
(* that the run does not know, only while a notifier is between its send   *)
(* and the row that ties the chat to the run.                              *)

\* The questions that the message of a task may reply to are tied or being tied.
Finds(t) == pc[t] = "select" => \A r \in local[t].replies :
  /\ runs[r].status # "absent"
  /\ local[t].bot.wf \in {None, runs[r].wf}
  /\ local[t].bot.role = "customer" =>
       local[t].chat \in runs[r].chats \/ Tying(r, local[t].chat)

\* Only the tag itself ends the tying.
LEMMA TyingStays ==
  ASSUME InboundInv, [Next]_vars, NEW r \in RunIds, NEW c, Tying(r, c)
  PROVE  c \in runs'[r].chats \/ Tying(r, c)'
<1>1. PICK u \in Tasks : pc[u] = "tag" /\ local[u].run = r /\ local[u].ask.chat = c
  BY DEF Tying
<1>2. ASSUME pc'[u] = pc[u], local'[u] = local[u] PROVE Tying(r, c)'
  BY <1>1, <1>2 DEF Tying
<1>3. Grown /\ runs \in [RunIds -> RunType]
  BY RunsGrow DEF InboundInv, TypeOK
<1>4. ASSUME NEW t \in Tasks, t # u,
             Turn(t)
      PROVE  Tying(r, c)'
  BY <1>2, <1>3, <1>4, TaskStep DEF Others
<1>5. CASE Tag(u)
  BY <1>1, <1>3, <1>5 DEF Tag, RunType
<1>6. ASSUME Turn(u)
      PROVE  Tag(u)
  BY <1>1, <1>6
  DEF Turn, Step, Select, Resolve, SelectApproval, Register, Create, PersistInbound, Begin, Pause,
      Complete, Fail, Ask, Answer, SendFails, Receive, CreateConsole, ResumeConsole
<1>7. CASE UNCHANGED vars
  BY <1>2, <1>7 DEF vars
<1> QED
  BY <1>4, <1>5, <1>6, <1>7 DEF Next

LEMMA FindsStep ==
  ASSUME InboundInv, Tied, \A t \in Tasks : Finds(t), [Next]_vars
  PROVE  \A t \in Tasks : Finds(t)'
<1>1. Grown /\ local \in [Tasks -> LocalType] /\ pc \in [Tasks -> PCs]
      /\ asked \in [RunIds -> TargetType]
  BY RunsGrow DEF InboundInv, TypeOK
<1>2. ASSUME NEW u \in Tasks, pc'[u] = pc[u], local'[u] = local[u] PROVE Finds(u)'
  <2> SUFFICES ASSUME pc[u] = "select", NEW r \in local[u].replies
               PROVE  /\ runs'[r].status # "absent"
                      /\ local[u].bot.wf \in {None, runs'[r].wf}
                      /\ local[u].bot.role = "customer" =>
                           local[u].chat \in runs'[r].chats \/ Tying(r, local[u].chat)'
    BY <1>2 DEF Finds, Tying
  <2>1. /\ r \in RunIds /\ runs[r].status # "absent"
        /\ local[u].bot.wf \in {None, runs[r].wf}
        /\ local[u].bot.role = "customer" =>
             local[u].chat \in runs[r].chats \/ Tying(r, local[u].chat)
    BY <1>1 DEF Finds, LocalType
  <2>2. /\ runs'[r].status # "absent" /\ runs'[r].wf = runs[r].wf
        /\ runs[r].chats \subseteq runs'[r].chats
    BY <1>1, <2>1 DEF Grown
  <2>3. ASSUME NEW c, Tying(r, c) PROVE c \in runs'[r].chats \/ Tying(r, c)'
    BY <2>1, <2>3, TyingStays
  <2>4. PICK c : c = local[u].chat
    OBVIOUS
  <2>5. Tying(r, c) => c \in runs'[r].chats \/ Tying(r, c)'
    BY <2>3
  <2>6. Tying(r, local[u].chat)' <=> Tying(r, c)'
    BY <1>2, <2>4 DEF Tying
  <2> QED
    BY <1>2, <2>1, <2>2, <2>4, <2>5, <2>6
<1>3. ASSUME NEW t \in Tasks,
             Turn(t)
      PROVE  Finds(t)' /\ Others(t)
  <2>1. Others(t)
    BY <1>1, <1>3, TaskStep
  <2>2. ASSUME NEW b \in Bots, NEW c \in Chats, Receive(t, b, c) PROVE Finds(t)'
    <3>1. UNCHANGED runs /\ pc[t] = "idle"
      BY <2>2 DEF Receive, tables
    <3>2. local'[t].bot = b /\ local'[t].chat = c
          /\ local'[t].replies = {r \in RunIds : asked[r] = To(b, c)}
      BY <1>1, <2>2 DEF Receive, Idle
    <3>3. ASSUME NEW r \in RunIds, asked[r] = To(b, c)
          PROVE  /\ runs[r].status # "absent" /\ b.wf \in {None, runs[r].wf}
                 /\ b.role = "customer" => c \in runs[r].chats \/ Tying(r, c)'
      <4>1. asked[r] # NoTarget /\ asked[r].bot = b /\ asked[r].chat = c
        BY <3>3, InboundAssumption DEF To, NoTarget
      <4>2. \A u \in Tasks : pc[u] = "tag" => pc'[u] = pc[u] /\ local'[u] = local[u]
        BY <2>1, <3>1 DEF Others
      <4>3. (\E u \in Tasks : pc[u] = "tag" /\ local[u].run = r /\ local[u].ask = asked[r])
              => Tying(r, c)'
        BY <4>1, <4>2 DEF Tying
      <4>4. QED
        BY <4>1, <4>3 DEF Tied
    <3>4. ASSUME NEW r PROVE Tying(r, local[t].chat)' <=> Tying(r, c)'
      BY <3>2 DEF Tying
    <3>6. QED
      BY <3>1, <3>2, <3>3, <3>4 DEF Finds
  <2>3. CASE Step(t)
    <3>1. pc'[t] # "select"
      BY <1>1, <2>3
      DEF Step, Select, Resolve, SelectApproval, Register, Create, PersistInbound, Begin,
          Pause, Complete, Fail, Ask, Answer, AfterSend, Tag, SendFails, Return, Goto
    <3>2. QED
      BY <2>1, <3>1 DEF Finds
  <2>4. ASSUME (\E w \in Workflows : CreateConsole(t, w)) \/ \E r \in RunIds : ResumeConsole(t, r)
        PROVE  Finds(t)'
    <3>1. pc'[t] = "start"
      BY <1>1, <2>4 DEF CreateConsole, ResumeConsole, Spawn, Goto
    <3> QED
      BY <3>1 DEF Finds
  <2>5. QED
    BY <1>3, <2>1, <2>2, <2>3, <2>4 DEF Turn
<1>4. CASE UNCHANGED vars
  BY <1>2, <1>4 DEF vars
<1>5. CASE Next
  BY <1>2, <1>3, <1>5 DEF Next, Others
<1>6. QED
  BY <1>4, <1>5

\* Whatever bots, bindings, console runs and failing sends there are, a reply to a run
\* that waits starts a new run only while the question's notifier has yet to tie its
\* chat to the run: RepliesFindRuns without its assumption, and what it then costs.
THEOREM RepliesMissOnlyTheTag == Spec => OnlyTheTagLoses
<1> DEFINE FInv == InboundInv /\ Tied /\ \A t \in Tasks : Finds(t)
<1>1. Init => FInv
  BY InboundInit DEF Init, Finds
<1>2. FInv /\ [Next]_vars => FInv'
  BY InboundStep, TiedStep, FindsStep
<1>3. ASSUME FInv, NEW t \in Tasks, Select(t), local'[t].run = 0,
             NEW r \in local[t].replies \cap Waiting
      PROVE  Tying(r, local[t].chat)
  <2>1. /\ local \in [Tasks -> LocalType] /\ pc[t] = "select"
        /\ local[t].bot \in Bots /\ local[t].bot.role = "customer"
    BY <1>3 DEF Select, InboundInv, TypeOK, Handling
  <2>2. WaitingFor(local[t].bot, local[t].chat) = {}
    <3>1. ASSUME NEW q \in Latest(WaitingFor(local[t].bot, local[t].chat)),
                 local' = [local EXCEPT ![t].replies = {}, ![t].run = q, ![t].wf = runs[q].wf]
          PROVE  FALSE
      <4>1. q \in RunIds /\ local'[t].run = q
        BY <2>1, <3>1 DEF Latest, WaitingFor, Waiting, LocalType
      <4>2. QED
        BY <1>3, <4>1, InboundAssumption DEF RunIds
    <3>2. QED
      BY <1>3, <3>1 DEF Select
  <2>3. /\ local[t].bot.wf \in {None, runs[r].wf}
        /\ local[t].chat \in runs[r].chats \/ Tying(r, local[t].chat)
    BY <1>3, <2>1 DEF Finds
  <2>4. r \notin WaitingFor(local[t].bot, local[t].chat)
    BY <2>2
  <2>5. QED
    BY <1>3, <2>1, <2>3, <2>4 DEF WaitingFor
<1>4. FInv /\ [Next]_vars =>
        [\A t \in Tasks : Select(t) /\ local'[t].run = 0 =>
           \A r \in local[t].replies \cap Waiting : Tying(r, local[t].chat)]_vars
  BY <1>3
<1>5. QED
  BY <1>1, <1>2, <1>4, PTL DEF Spec, OnlyTheTagLoses

\* The first chat of a run takes part in it.
FirstTied == \A r \in RunIds : runs[r].first # None => runs[r].first \in runs[r].chats

\* The chat an answer will go to: none, the one the notifier is about to tie, the one
\* that writes, or one that takes part in the run.
Heads(t) ==
  /\ pc[t] \in {"select", "resolve"} => ~local[t].tags
  /\ pc[t] \in Executing \cup {"create"} =>
       \/ local[t].answer.chat = None
       \/ local[t].tags /\ local[t].answer = local[t].ask
       \/ pc[t] \in {"create", "inbound"} /\ local[t].answer.chat = local[t].chat
       \/ pc[t] \in Executing /\ local[t].answer.chat \in runs[local[t].run].chats

Inside == \A a \in answers :
  /\ runs[a.run].status # "absent"
  /\ a.chat = None \/ a.chat \in runs[a.run].chats \/ Tying(a.run, a.chat)

LEMMA FirstTiedStep == InboundInv /\ FirstTied /\ [Next]_vars => FirstTied'
<1> SUFFICES ASSUME InboundInv, FirstTied, [Next]_vars PROVE FirstTied'
  OBVIOUS
<1>1. runs \in [RunIds -> RunType]
  BY DEF InboundInv, TypeOK
<1>2. CASE UNCHANGED runs
  BY <1>1, <1>2 DEF FirstTied
<1>3. ASSUME NEW r \in RunIds, NEW x, x.first = None, runs' = [runs EXCEPT ![r] = x]
      PROVE  FirstTied'
  BY <1>1, <1>3 DEF FirstTied
<1>4. ASSUME NEW r \in RunIds, NEW s, SetStatus(r, s) PROVE FirstTied'
  BY <1>1, <1>4 DEF FirstTied, SetStatus, RunType
<1>5. ASSUME NEW t \in Tasks, pc[t] \in Executing
      PROVE  local[t].run \in RunIds
  BY <1>5 DEF InboundInv, TypeOK, LocalType, Works
<1>6. ASSUME NEW t \in Tasks, Create(t) \/ \E w \in Workflows : CreateConsole(t, w)
      PROVE  FirstTied'
  BY <1>3, <1>6 DEF Create, CreateConsole, NoRun
<1>7. ASSUME NEW t \in Tasks, PersistInbound(t) PROVE FirstTied'
  BY <1>1, <1>5, <1>7 DEF PersistInbound, Executing, FirstTied, RunType
<1>8. ASSUME NEW t \in Tasks, Tag(t) PROVE FirstTied'
  BY <1>1, <1>5, <1>8 DEF Tag, Executing, FirstTied, RunType
<1>9. ASSUME NEW t \in Tasks, Begin(t) \/ Pause(t) \/ Complete(t) \/ Fail(t) \/ SendFails(t)
      PROVE  FirstTied'
  BY <1>2, <1>4, <1>5, <1>9 DEF Begin, Pause, Complete, Fail, SendFails, Executing
<1>10. QED
  BY <1>2, <1>6, <1>7, <1>8, <1>9
  DEF Next, Turn, Step, vars, tables, Receive, ResumeConsole, Select, Resolve, SelectApproval,
      Register, Ask, Answer

LEMMA HeadsStays ==
  ASSUME InboundInv, Grown, NEW u \in Tasks, Heads(u), pc'[u] = pc[u], local'[u] = local[u]
  PROVE  Heads(u)'
<1>1. Works(u) /\ local[u] \in LocalType
  BY DEF InboundInv, TypeOK
<1>2. pc[u] \in Executing => runs[local[u].run].chats \subseteq runs'[local[u].run].chats
  BY <1>1 DEF Works, Grown, LocalType
<1>3. QED
  BY <1>2 DEF Heads

LEMMA HeadsOn ==
  ASSUME InboundInv, Grown, NEW t \in Tasks, Heads(t), pc[t] \in Executing \ {"inbound"},
         pc'[t] \in Executing, local'[t] = local[t]
  PROVE  Heads(t)'
<1>1. Works(t) /\ local[t] \in LocalType
  BY DEF InboundInv, TypeOK
<1>2. runs[local[t].run].chats \subseteq runs'[local[t].run].chats
  BY <1>1 DEF Works, Grown, LocalType
<1>3. QED
  BY <1>2 DEF Heads, Executing

LEMMA HeadsStep ==
  ASSUME InboundInv, Grown, FirstTied, NEW t \in Tasks, Heads(t),
         Turn(t)
  PROVE  Heads(t)'
<1>1. /\ pc \in [Tasks -> PCs] /\ local \in [Tasks -> LocalType] /\ runs \in [RunIds -> RunType]
      /\ local[t] \in LocalType /\ Works(t) /\ Handling(t)
  BY DEF InboundInv, TypeOK
<1>2. ASSUME Return(t) PROVE Heads(t)'
  <2>1. pc'[t] = "idle"
    BY <1>1, <1>2 DEF Return, Goto
  <2> QED
    BY <2>1 DEF Heads, Executing
<1>3. ASSUME NEW b \in Bots, NEW c \in Chats, Receive(t, b, c) PROVE Heads(t)'
  <2>1. pc'[t] = "select" /\ ~local'[t].tags
    BY <1>1, <1>3 DEF Receive, Goto, Idle
  <2>2. QED
    BY <2>1 DEF Heads, Executing
<1>4. CASE Select(t)
  <2>1. pc[t] = "select" /\ pc'[t] = "resolve" /\ ~local[t].tags
    BY <1>1, <1>4 DEF Select, Goto, Heads
  <2>2. CASE \E r \in Latest(WaitingFor(local[t].bot, local[t].chat)) :
               local' = [local EXCEPT ![t].replies = {}, ![t].run = r, ![t].wf = runs[r].wf]
    BY <1>1, <2>1, <2>2 DEF Heads, Executing, LocalType
  <2>3. CASE \E w \in ResolveWorkflow(local[t].bot) :
               local' = [local EXCEPT ![t].replies = {}, ![t].wf = w,
                                      ![t].captures = CaptureIn(w)]
    <3>1. PICK w, b : local' = [local EXCEPT ![t].replies = {}, ![t].wf = w, ![t].captures = b]
      BY <2>3, Zenon
    <3>2. ~local'[t].tags
      BY <1>1, <2>1, <3>1 DEF LocalType
    <3>3. QED
      BY <2>1, <3>2 DEF Heads, Executing
  <2>4. QED
    BY <1>4, <2>2, <2>3 DEF Select
<1>5. CASE Resolve(t)
  <2>1. PICK x : local' = [local EXCEPT ![t].captures = {}, ![t].ask = x,
                                        ![t].answer = To(local[t].bot, local[t].chat)]
    BY <1>5 DEF Resolve
  <2>2. local'[t].chat = local[t].chat /\ local'[t].answer = To(local[t].bot, local[t].chat)
    BY <1>1, <2>1 DEF LocalType
  <2>3. pc'[t] \in {"create", "inbound"}
    BY <1>1, <1>5 DEF Resolve, Goto
  <2>4. local'[t].answer.chat = local'[t].chat
    BY <2>2 DEF To
  <2>5. QED
    BY <2>3, <2>4 DEF Heads, Executing
<1>6. CASE SelectApproval(t)
  <2> DEFINE answer(r) == IF runs[r].first = None \/ ~DefaultBot THEN NoTarget
                          ELSE To(Default, runs[r].first)
  <2>1. PICK r \in Latest(WaitingFor(local[t].bot, local[t].chat)) :
          local' = [local EXCEPT ![t].replies = {}, ![t].run = r, ![t].wf = local[t].bot.wf,
                      ![t].ask = To(local[t].bot, local[t].chat), ![t].answer = answer(r)]
    BY <1>6 DEF SelectApproval
  <2>2. r \in RunIds
    BY <1>6, <2>1 DEF SelectApproval, Latest, WaitingFor, Waiting
  <2>3. answer(r).chat = None \/ answer(r).chat \in runs[r].chats
    BY <2>2 DEF NoTarget, To, FirstTied
  <2> HIDE DEF answer
  <2>4. local'[t].run = r /\ local'[t].answer = answer(r)
    BY <1>1, <2>1 DEF LocalType
  <2>5. pc'[t] = "inbound" /\ UNCHANGED runs
    BY <1>1, <1>6 DEF SelectApproval, Goto, tables
  <2> QED
    BY <2>3, <2>4, <2>5 DEF Heads, Executing
<1>7. CASE Create(t)
  <2>1. PICK r \in RunIds : local' = [local EXCEPT ![t].run = r]
    BY <1>7 DEF Create
  <2>2. /\ pc[t] = "create" /\ pc'[t] = "inbound"
        /\ local'[t].chat = local[t].chat /\ local'[t].answer = local[t].answer
        /\ local'[t].ask = local[t].ask
    BY <1>1, <1>7, <2>1 DEF Create, Goto, LocalType
  <2>3. local'[t].tags <=> local[t].tags
    BY <1>1, <2>1 DEF LocalType
  <2>4. QED
    BY <2>2, <2>3 DEF Heads, Executing
<1>8. ASSUME (\E w \in Workflows : CreateConsole(t, w)) \/ \E r \in RunIds : ResumeConsole(t, r)
      PROVE  Heads(t)'
  <2>1. PICK r, w, x : Spawn(t, r, w, x)
    BY <1>8 DEF CreateConsole, ResumeConsole
  <2>2. local'[t] = [Idle EXCEPT !.run = r, !.wf = w, !.ask = x, !.answer = x,
                                 !.tags = x # NoTarget]
    BY <1>1, <2>1 DEF Spawn
  <2>3. pc'[t] = "start" /\ local'[t].answer = x /\ local'[t].ask = x
    BY <1>1, <2>1, <2>2 DEF Spawn, Goto, Idle
  <2>4. local'[t].tags <=> x # NoTarget
    BY <2>2 DEF Idle
  <2>5. CASE x = NoTarget
    BY <2>3, <2>5 DEF Heads, NoTarget
  <2>6. CASE x # NoTarget
    BY <2>3, <2>4, <2>6 DEF Heads
  <2> QED
    BY <2>5, <2>6
<1>9. CASE Fail(t) \/ Tag(t) \/ SendFails(t) \/ Register(t)
  BY <1>2, <1>9 DEF Fail, Tag, SendFails, Register
<1>10. CASE PersistInbound(t)
  <2>1. /\ pc[t] = "inbound" /\ pc'[t] = "start" /\ local'[t] = local[t]
        /\ local[t].run \in RunIds
        /\ runs' = [runs EXCEPT ![local[t].run].chats = @ \cup {local[t].chat},
                                ![local[t].run].first = IF @ = None THEN local[t].chat ELSE @]
    BY <1>1, <1>10 DEF PersistInbound, Goto, Works, Executing, LocalType
  <2>2. runs'[local[t].run].chats = runs[local[t].run].chats \cup {local[t].chat}
    BY <1>1, <2>1 DEF RunType
  <2> QED
    BY <2>1, <2>2 DEF Heads, Executing
<1>11. CASE Begin(t) \/ Pause(t) \/ Complete(t)
  <2>1. pc[t] \in Executing \ {"inbound"} /\ pc'[t] \in Executing /\ local'[t] = local[t]
    BY <1>1, <1>11 DEF Begin, Pause, Complete, Goto, Executing
  <2>2. QED
    BY <1>1, <2>1, HeadsOn
<1>12. CASE Ask(t) \/ Answer(t)
  <2>1. CASE Return(t)
    BY <1>2, <2>1
  <2>2. CASE Goto(t, "tag") /\ UNCHANGED local
    <3>1. pc[t] \in Executing \ {"inbound"} /\ pc'[t] \in Executing /\ local'[t] = local[t]
      BY <1>1, <1>12, <2>2 DEF Ask, Answer, Goto, Executing
    <3>2. QED
      BY <1>1, <3>1, HeadsOn
  <2>3. QED
    BY <1>12, <2>1, <2>2 DEF Ask, Answer, AfterSend
<1>13. QED
  BY <1>3, <1>4, <1>5, <1>6, <1>7, <1>8, <1>9, <1>10, <1>11, <1>12
  DEF Turn, Step

LEMMA InsideStep ==
  ASSUME InboundInv, Grown, \A t \in Tasks : Heads(t), Inside, [Next]_vars
  PROVE  Inside'
<1>1. /\ answers \subseteq [run : RunIds, chat : Chats \cup {None}]
      /\ pc \in [Tasks -> PCs] /\ local \in [Tasks -> LocalType]
  BY DEF InboundInv, TypeOK
<1>2. ASSUME NEW a \in answers
      PROVE  /\ runs'[a.run].status # "absent"
             /\ a.chat = None \/ a.chat \in runs'[a.run].chats \/ Tying(a.run, a.chat)'
  BY <1>1, TyingStays DEF Inside, Grown
<1>3. CASE UNCHANGED answers
  BY <1>2, <1>3 DEF Inside
<1>4. ASSUME NEW t \in Tasks, Answer(t) PROVE Inside'
  <2>1. PICK r, c : r = local[t].run /\ c = local[t].answer.chat
    OBVIOUS
  <2>2. pc[t] = "answer" /\ UNCHANGED runs /\ answers' = answers \cup {[run |-> r, chat |-> c]}
    BY <1>4, <2>1 DEF Answer, tables
  <2>3. runs[r].status # "absent"
    BY <2>1, <2>2 DEF InboundInv, Works, Executing
  <2>4. SUFFICES c = None \/ c \in runs[r].chats \/ Tying(r, c)'
    BY <1>2, <2>2, <2>3 DEF Inside
  <2>5. CASE local[t].tags /\ local[t].answer = local[t].ask
    <3>1. pc'[t] = "tag" /\ local'[t] = local[t]
      BY <1>1, <1>4, <2>5 DEF Answer, AfterSend, Goto
    <3>2. local'[t].run = r /\ local'[t].ask.chat = c
      BY <2>1, <2>5, <3>1
    <3>3. Tying(r, c)'
      BY <3>1, <3>2 DEF Tying
    <3> QED
      BY <3>3
  <2>6. CASE ~(local[t].tags /\ local[t].answer = local[t].ask)
    BY <2>1, <2>2, <2>6 DEF Heads, Executing
  <2>7. QED
    BY <2>5, <2>6
<1>5. QED
  BY <1>3, <1>4
  DEF Next, Turn, Step, vars, history, Receive, Select, Resolve, SelectApproval, Register, Create,
      PersistInbound, CreateConsole, ResumeConsole, Begin, Pause, Complete, Fail, Ask, Tag,
      SendFails

\* Whatever bots, bindings, approvers, console runs and resumes and failing sends there
\* are, what is answered for a run (router.py:117 and 226-233, notify.py:46-64) is sent to
\* nobody, to a chat that takes part in the run, or to one its notifier is about to tie.
THEOREM AnswersNeverLeak == Spec => []AnswersStayInside
<1> DEFINE LInv == InboundInv /\ FirstTied /\ (\A t \in Tasks : Heads(t)) /\ Inside
<1>1. Init => LInv
  BY InboundInit DEF Init, FirstTied, Heads, Inside, NoRun, Executing
<1>2. LInv /\ [Next]_vars => LInv'
  <2> SUFFICES ASSUME LInv, [Next]_vars PROVE LInv'
    OBVIOUS
  <2>1. InboundInv' /\ Grown /\ FirstTied'
    BY InboundStep, RunsGrow, FirstTiedStep
  <2>2. ASSUME NEW u \in Tasks PROVE Heads(u)'
    <3>1. CASE UNCHANGED vars
      BY <2>1, <3>1, HeadsStays DEF vars
    <3>2. ASSUME NEW t \in Tasks,
                 Turn(t)
          PROVE  Heads(u)'
      <4>1. Heads(t)' /\ Others(t)
        BY <2>1, <3>2, HeadsStep, TaskStep
      <4>2. CASE u # t
        BY <2>1, <4>1, <4>2, HeadsStays DEF Others
      <4>3. QED
        BY <4>1, <4>2
    <3>3. QED
      BY <3>1, <3>2 DEF Next
  <2>3. Inside'
    BY <2>1, InsideStep
  <2>4. QED
    BY <2>1, <2>2, <2>3
<1>3. LInv => AnswersStayInside
  BY DEF Inside, AnswersStayInside
<1> HIDE DEF LInv
<1>4. QED
  BY <1>1, <1>2, <1>3, PTL DEF Spec
=============================================================================
