------------------------------- MODULE Inbound -------------------------------
(***************************************************************************)
(* Conversations over chat: backend/app/channels/router.py and notify.py.  *)
(* An inbound message starts a run or resumes the one that waits for it;   *)
(* questions and answers go back to a chat.  A run that was started in the *)
(* console or by the scheduler reaches a chat through workflow_notifier.   *)
(*                                                                         *)
(* A task is one handle_inbound, or one execution spawned by the console   *)
(* or the scheduler with its notifier.  Executor.run and Executor.resume   *)
(* are awaited inside the task and appear here by what they do to the      *)
(* status of the run (module Executor has the rest): Begin, then one of    *)
(* Pause, Complete and Fail.  Bindings are fixed and active; texts are     *)
(* left out.  Operators named after a definition and listed before it,     *)
(* such as WaitingForAnyBot, are its mutants.                              *)
(***************************************************************************)
EXTENDS Integers

CONSTANTS
  Chats,       \* Telegram chats; a person has the same chat id with every bot
  Workflows,
  Demo,        \* the workflow to fall back on
  Bindings,    \* the rows of channel_bindings, several per workflow if need be
  Chosen,      \* Chosen[b]: the chat a user has chosen for binding b, or None
  DefaultBot,  \* TRUE: the bot of the environment's token is started
  Console,     \* TRUE: runs are also started and resumed from the console
  SendFaults,  \* TRUE: a send may fail
  Tasks,
  MaxRuns,     \* bound of the model: rows of workflow_runs
  None

\* A binding: its place in the order of created_at, its workflow if it has one, the
\* role in its config, and whether it carries a bot token of its own.
BindingType == [at : Nat \ {0}, wf : Workflows \cup {None}, role : {"customer", "approval"},
                token : BOOLEAN]

ASSUME InboundAssumption ==
  /\ Bindings \subseteq BindingType
  /\ \A a, b \in Bindings : a.at = b.at => a = b
  /\ Chosen \in [Bindings -> Chats \cup {None}]
  /\ Demo \in Workflows
  /\ DefaultBot \in BOOLEAN /\ Console \in BOOLEAN /\ SendFaults \in BOOLEAN
  /\ MaxRuns \in Nat
  /\ None \notin Chats \cup Workflows \cup Bindings

VARIABLES
  runs,      \* the rows of workflow_runs in the order of created_at
  notify,    \* notify[b]: notify_chat_id of binding b
  pc,        \* pc[t]: where task t awaits
  local,     \* local[t]: the local variables of task t
  asked,     \* history: asked[r], the bot and chat that hold the question of r
  answers    \* history: the chat each answer was sent to, None if it was dropped

tables == <<runs, notify>>
history == <<asked, answers>>
vars == <<runs, notify, pc, local, asked, answers>>

\* A bot is known by the binding whose token it polls with; the default bot has no
\* binding, no workflow, and the customer's role.
Default == [at |-> 0, wf |-> None, role |-> "customer", token |-> TRUE]
Bots == (IF DefaultBot THEN {Default} ELSE {}) \cup {b \in Bindings : b.token}

BindingsOf(w, role) == {b \in Bindings : b.wf = w /\ b.role = role}
Newest(S) == {b \in S : \A a \in S : a.at <= b.at}

\* Where a text may be sent: a bot and a chat.
NoTarget == [bot |-> None, chat |-> None]
To(b, c) == [bot |-> b, chat |-> c]

RunIds == 1 .. MaxRuns
NoRun == [status |-> "absent", wf |-> None, chats |-> {}, first |-> None,
          home |-> None]
Idle == [bot |-> None, chat |-> None, wf |-> None, run |-> 0, captures |-> {},
         ask |-> NoTarget, answer |-> NoTarget, tags |-> FALSE, replies |-> {}]

Init ==
  /\ runs = [r \in RunIds |-> NoRun]
  /\ notify = Chosen
  /\ pc = [t \in Tasks |-> "idle"]
  /\ local = [t \in Tasks |-> Idle]
  /\ asked = [r \in RunIds |-> NoTarget]
  /\ answers = {}

-----------------------------------------------------------------------------

Goto(t, p) == pc' = [pc EXCEPT ![t] = p]
Return(t) == Goto(t, "idle") /\ local' = [local EXCEPT ![t] = Idle]

\* A message arrives; each update is a task of its own.  History: the questions it
\* may reply to, those that this chat holds through this bot.
Receive(t, b, c) ==
  /\ pc[t] = "idle"
  /\ Goto(t, "select")
  /\ local' = [local EXCEPT ![t] = [Idle EXCEPT
       !.bot = b, !.chat = c, !.replies = {r \in RunIds : asked[r] = To(b, c)}]]
  /\ UNCHANGED <<tables, history>>

Waiting == {r \in RunIds : runs[r].status = "waiting_human"}

\* Mutant of WaitingFor: without the filter by workflow.
WaitingForAnyBot(b, c) ==
  IF b.role = "approval" THEN {r \in Waiting : runs[r].wf = b.wf}
  ELSE {r \in Waiting : c \in runs[r].chats}

\* The waiting runs a message may resume: by workflow for the approver's bot,
\* else by chat, and for a dedicated bot by workflow too.
WaitingFor(b, c) ==
  IF b.role = "approval" THEN {r \in Waiting : runs[r].wf = b.wf}
  ELSE {r \in Waiting : c \in runs[r].chats /\ (b.wf # None => runs[r].wf = b.wf)}

Latest(S) == {r \in S : \A q \in S : q <= r}

\* Of several bindings for the whole channel the database returns any.
ResolveWorkflow(b) ==
  IF b.wf # None THEN {b.wf}
  ELSE LET bound == {a.wf : a \in Bindings} \ {None} IN
       IF bound # {} THEN bound ELSE {Demo}

\* The binding _capture_chat may set: the newest of the workflow that is not the
\* approver's, unless a chat has been chosen for it.
CaptureIn(w) == {b \in Newest(BindingsOf(w, "customer")) : notify[b] = None}

\* The first transaction of handle_inbound, up to the read of _capture_chat.
Select(t) == LET l == local[t]
                 found == WaitingFor(l.bot, l.chat) IN
  /\ pc[t] = "select"
  /\ l.bot.role = "customer"
  /\ \/ \E r \in Latest(found) :
          local' = [local EXCEPT ![t].replies = {}, ![t].run = r, ![t].wf = runs[r].wf]
     \/ /\ found = {}
        /\ \E w \in ResolveWorkflow(l.bot) :
             local' = [local EXCEPT ![t].replies = {}, ![t].wf = w,
                                    ![t].captures = CaptureIn(w)]
  /\ Goto(t, "resolve")
  /\ UNCHANGED <<tables, history>>

\* Mutant of AskFor: the approval binding of any workflow is taken.
AskForAny(w, here) ==
  LET approvals == {a \in Bindings : a.role = "approval"}
      Asks(a) == IF a.token /\ notify[a] # None THEN To(a, notify[a]) ELSE here IN
  IF approvals = {} THEN {here} ELSE {Asks(a) : a \in approvals}

\* Where the questions of workflow w go: to the chat of an approval binding, any of
\* several, through its own bot; else back to the chat that writes.
AskFor(w, here) ==
  LET approvals == BindingsOf(w, "approval")
      Asks(a) == IF a.token /\ notify[a] # None THEN To(a, notify[a]) ELSE here IN
  IF approvals = {} THEN {here} ELSE {Asks(a) : a \in approvals}

\* The commit of _capture_chat, and the read of the approval binding.
Resolve(t) == LET l == local[t]
                  here == To(l.bot, l.chat) IN
  /\ pc[t] = "resolve"
  /\ notify' = [b \in Bindings |-> IF b \in l.captures THEN l.chat ELSE notify[b]]
  /\ \E x \in AskFor(l.wf, here) :
       local' = [local EXCEPT ![t].captures = {}, ![t].ask = x, ![t].answer = here]
  /\ Goto(t, IF l.run = 0 THEN "create" ELSE "inbound")
  /\ UNCHANGED <<runs, history>>

\* The approver's bot, and a run of its workflow waits.  The answer goes to the chat
\* of the first user message of the run, through router.send: the default bot, or
\* nowhere when there is none.
SelectApproval(t) == LET l == local[t] IN
  /\ pc[t] = "select"
  /\ l.bot.role = "approval"
  /\ \E r \in Latest(WaitingFor(l.bot, l.chat)) :
       local' = [local EXCEPT
         ![t].replies = {}, ![t].run = r, ![t].wf = l.bot.wf, ![t].ask = To(l.bot, l.chat),
         ![t].answer = IF runs[r].first = None \/ ~DefaultBot THEN NoTarget
                       ELSE To(Default, runs[r].first)]
  /\ Goto(t, "inbound")
  /\ UNCHANGED <<tables, history>>

\* None waits: whoever writes becomes the approver, on any approval binding of the
\* bot's workflow.
Register(t) == LET l == local[t] IN
  /\ pc[t] = "select"
  /\ l.bot.role = "approval"
  /\ WaitingFor(l.bot, l.chat) = {}
  /\ \E a \in BindingsOf(l.bot.wf, "approval") : notify' = [notify EXCEPT ![a] = l.chat]
  /\ Return(t)
  /\ UNCHANGED <<runs, history>>

IsNext(r) == \A q \in RunIds : runs[q].status = "absent" <=> q >= r

Create(t) == LET l == local[t] IN
  /\ pc[t] = "create"
  /\ \E r \in RunIds :
       /\ IsNext(r)
       /\ runs' = [runs EXCEPT ![r] = [NoRun EXCEPT !.status = "pending", !.wf = l.wf,
                                                     !.home = l.bot]]
       /\ local' = [local EXCEPT ![t].run = r]
  /\ Goto(t, "inbound")
  /\ UNCHANGED <<notify, history>>

\* Mutants of PersistInbound: the run is tied to no chat; to its workflow's id.
PersistInboundUntied(t) ==
  /\ pc[t] = "inbound"
  /\ Goto(t, "start")
  /\ UNCHANGED <<tables, local, history>>

PersistInboundSwapped(t) ==
  /\ pc[t] = "inbound"
  /\ runs' = [runs EXCEPT ![local[t].run].chats = @ \cup {local[t].wf},
                          ![local[t].run].first = local[t].wf]
  /\ Goto(t, "start")
  /\ UNCHANGED <<notify, local, history>>

\* _persist_inbound ties the chat to the run.
PersistInbound(t) == LET r == local[t].run
                         c == local[t].chat IN
  /\ pc[t] = "inbound"
  /\ runs' = [runs EXCEPT ![r].chats = @ \cup {c},
                          ![r].first = IF @ = None THEN c ELSE @]
  /\ Goto(t, "start")
  /\ UNCHANGED <<notify, local, history>>

\* workflow_notifier: the newest binding of the workflow that has a chat, with the
\* binding's own bot or the default one; with neither there are no replies.
Notified(w) ==
  LET reached == Newest({b \in Bindings : b.wf = w /\ notify[b] # None})
      Through(b) == IF b.token THEN b ELSE Default IN
  IF \E b \in reached : Through(b) \in Bots
  THEN {To(Through(b), notify[b]) : b \in reached}
  ELSE {NoTarget}

\* An execution with the workflow's notifier is spawned for run r.
Spawn(t, r, w, x) ==
  /\ local' = [local EXCEPT ![t] = [Idle EXCEPT !.run = r, !.wf = w, !.ask = x, !.answer = x,
                                                 !.tags = x # NoTarget]]
  /\ Goto(t, "start")

\* POST /api/runs, or a cron job that fires: the row, the notifier and the task.
CreateConsole(t, w) ==
  /\ Console
  /\ pc[t] = "idle"
  /\ \E r \in RunIds, x \in Notified(w) :
       /\ IsNext(r)
       /\ runs' = [runs EXCEPT ![r] = [NoRun EXCEPT !.status = "pending", !.wf = w]]
       /\ Spawn(t, r, w, x)
  /\ UNCHANGED <<notify, history>>

\* POST /api/runs/{id}/resume: any run that exists, whatever its status and whoever
\* started it; no message of a user is persisted for it.
ResumeConsole(t, r) ==
  /\ Console
  /\ pc[t] = "idle"
  /\ runs[r].status # "absent"
  /\ \E x \in Notified(runs[r].wf) : Spawn(t, r, runs[r].wf, x)
  /\ UNCHANGED <<tables, history>>

-----------------------------------------------------------------------------
(* Executor.run and Executor.resume.                                       *)

SetStatus(r, s) == runs' = [runs EXCEPT ![r].status = s]

Begin(t) ==
  /\ pc[t] = "start"
  /\ SetStatus(local[t].run, "running")
  /\ asked' = [asked EXCEPT ![local[t].run] = NoTarget]
  /\ Goto(t, "running")
  /\ UNCHANGED <<notify, local, answers>>

Pause(t) ==
  /\ pc[t] = "running"
  /\ SetStatus(local[t].run, "waiting_human")
  /\ Goto(t, "ask")
  /\ UNCHANGED <<notify, local, history>>

Complete(t) ==
  /\ pc[t] = "running"
  /\ SetStatus(local[t].run, "completed")
  /\ Goto(t, "answer")
  /\ UNCHANGED <<notify, local, history>>

Fail(t) ==
  /\ pc[t] = "running"
  /\ SetStatus(local[t].run, "failed")
  /\ Return(t)
  /\ UNCHANGED <<notify, history>>

\* After a send the notifier still has to tag the run with the chat.
AfterSend(t) ==
  IF local[t].tags THEN Goto(t, "tag") /\ UNCHANGED local ELSE Return(t)

Ask(t) == LET l == local[t] IN
  /\ pc[t] = "ask"
  /\ asked' = [asked EXCEPT ![l.run] = l.ask]
  /\ AfterSend(t)
  /\ UNCHANGED <<tables, answers>>

Answer(t) == LET l == local[t] IN
  /\ pc[t] = "answer"
  /\ answers' = answers \cup {[run |-> l.run, chat |-> l.answer.chat]}
  /\ AfterSend(t)
  /\ UNCHANGED <<tables, asked>>

\* Mutant of Tag: the tag is lost.
TagLost(t) ==
  /\ pc[t] = "tag"
  /\ Return(t)
  /\ UNCHANGED <<tables, history>>

\* The second half of the notifier's on_reply: the row that ties the chat to the run.
Tag(t) ==
  /\ pc[t] = "tag"
  /\ runs' = [runs EXCEPT ![local[t].run].chats = @ \cup {local[t].ask.chat}]
  /\ Return(t)
  /\ UNCHANGED <<notify, history>>

\* A failed send fails the run, but the notifier swallows it.
SendFails(t) ==
  /\ SendFaults
  /\ \/ pc[t] = "ask" /\ local[t].ask # NoTarget
     \/ pc[t] = "answer" /\ local[t].answer # NoTarget
  /\ IF local[t].tags THEN UNCHANGED runs ELSE SetStatus(local[t].run, "failed")
  /\ Return(t)
  /\ UNCHANGED <<notify, history>>

-----------------------------------------------------------------------------

Step(t) ==
  \/ Select(t) \/ Resolve(t) \/ SelectApproval(t) \/ Register(t) \/ Create(t)
  \/ PersistInbound(t) \/ Begin(t) \/ Pause(t) \/ Complete(t) \/ Fail(t)
  \/ Ask(t) \/ Answer(t) \/ Tag(t) \/ SendFails(t)

Turn(t) ==
  \/ Step(t)
  \/ \E b \in Bots, c \in Chats : Receive(t, b, c)
  \/ \E w \in Workflows : CreateConsole(t, w)
  \/ \E r \in RunIds : ResumeConsole(t, r)

Next == \E t \in Tasks : Turn(t)

Spec == Init /\ [][Next]_vars

-----------------------------------------------------------------------------
(* Properties.                                                             *)

RunType == [status : {"absent", "pending", "running", "waiting_human", "completed", "failed"},
            wf : Workflows \cup {None}, chats : SUBSET Chats, first : Chats \cup {None},
            home : Bots \cup {None}]

TargetType == {NoTarget} \cup [bot : Bots, chat : Chats]

LocalType == [bot : Bots \cup {None}, chat : Chats \cup {None}, wf : Workflows \cup {None},
              run : {0} \cup RunIds, captures : SUBSET Bindings, ask : TargetType,
              answer : TargetType, tags : BOOLEAN, replies : SUBSET RunIds]

PCs == {"idle", "select", "resolve", "create", "inbound", "start", "running", "ask",
        "answer", "tag"}

\* The values the rows, the bindings and the local variables may have.
TypeOK ==
  /\ runs \in [RunIds -> RunType]
  /\ notify \in [Bindings -> Chats \cup {None}]
  /\ pc \in [Tasks -> PCs]
  /\ local \in [Tasks -> LocalType]
  /\ asked \in [RunIds -> TargetType]
  /\ answers \subseteq [run : RunIds, chat : Chats \cup {None}]

\* A notifier has sent a text about run r to chat c and has yet to tie them.
Tying(r, c) == \E t \in Tasks : pc[t] = "tag" /\ local[t].run = r /\ local[t].ask.chat = c

\* "An inbound reply resumes the right run" (notify.py:9), or another that waits: a
\* message that replies to the question of a run that still waits starts a new run
\* only before the question's notifier has tied the chat to the run (notify.py:59-63).
OnlyTheTagLoses == [][\A t \in Tasks : Select(t) /\ local'[t].run = 0 =>
  \A r \in local[t].replies \cap Waiting : Tying(r, local[t].chat)]_vars

\* Once its sender has finished, a question is where an answer can find its run: the
\* approver's bot of its workflow, or a chat tied to the run, through a bot that
\* looks at the run's workflow.
QuestionIsTied == \A r \in RunIds :
  asked[r] # NoTarget /\ (\A t \in Tasks : pc[t] = "tag" => local[t].run # r) =>
    /\ asked[r].bot.wf \in {None, runs[r].wf}
    /\ asked[r].bot.role = "customer" => asked[r].chat \in runs[r].chats

\* What a customer says to the bot of one workflow never resumes a run that began with
\* the bot of another: "a dedicated bot only resumes runs of its own workflow"
\* (router.py:98-102), whatever the messages, the bots and the tasks that overlap.
NoCrossWire == \A t \in Tasks : pc[t] = "resolve" /\ local[t].run # 0 =>
  LET home == runs[local[t].run].home
      bot == local[t].bot IN
  home # None => home.wf = bot.wf \/ None \in {home.wf, bot.wf}

\* The reason router.py:98-99 gives for that filter: "so two bots talking to the same
\* Telegram user can't cross-wire their conversations".  A run that began with one bot
\* is not resumed by what the customer says to another.
OneBotOneTalk == \A t \in Tasks :
  pc[t] = "resolve" /\ local[t].run # 0 => runs[local[t].run].home \in {None, local[t].bot}

\* What is answered for a run (router.py:117 and 226-233, notify.py:46-64) is said to
\* nobody, to a chat that takes part in the run, or to one its notifier is about to tie
\* to it: whoever resumes it, from whichever chat, bot or console.
AnswersStayInside == \A a \in answers :
  a.chat = None \/ a.chat \in runs[a.run].chats \/ Tying(a.run, a.chat)
=============================================================================
