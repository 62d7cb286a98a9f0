# YunoFlow: models, checks and proofs

YunoFlow builds workflows of LLM agents in a web editor, compiles them to
LangGraph graphs, runs them in a FastAPI process, pauses them for human
approval over Telegram, and shows their events live. This directory holds the
TLA+ models of its concurrent core and of the pages that drive it, the TLC configurations that check them on
small instances, and theorems about them that TLAPS has checked for every value
of the constants.

`backend/` is short for `src/backend/app/` below, `frontend/` for `src/frontend/src/`; a bare file name is a file of it,
`README.md:<line>` is the repository's own README, and
`backend-implementation-plan.md` is in `src/tech-docs/`.

    tlc -config MCExecutorSolo.cfg MCExecutor.tla      # one of the runs
    tlapm ExecutorProofs.tla                           # one of the proof modules

| module | models | kind |
|---|---|---|
| `RunLifecycle` | what the status of a run promises its readers | abstract |
| `Executor` | `backend/runtime/executor.py`, `backend/api/runs.py` | detailed |
| `RunTimeline` | what the persisted events of a run promise | abstract |
| `EventBus` | `backend/runtime/events.py`, `backend/api/ws.py` | detailed |
| `Inbound` | `backend/channels/router.py`, `backend/channels/notify.py` | detailed |
| `Compiler` | `backend/runtime/compiler.py`, the editor's conversions | operators |
| `Builder` | `frontend/features/WorkflowBuilder.tsx` (the graph on the canvas) | detailed |
| `Workbench` | `frontend/features/WorkflowBuilder.tsx` (requests, socket, run panel) | detailed |
| `Lifespan` | `backend/scheduling/scheduler.py`, `backend/channels/manager.py`, the endpoints of agents, workflows and channels, `backend/main.py` | detailed |
| `Console` | `frontend/App.tsx` and the other views of `frontend/features/` | detailed |
| `MCExecutor`, `MCEventBus`, `MCInbound`, `MCBuilder`, `MCWorkbench`, `MCLifespan`, `MCConsole` | instances for TLC | bounds |
| `ExecutorProofs`, `SoloProofs`, `EventBusProofs`, `InboundProofs`, `BuilderProofs`, `WorkbenchProofs`, `LifespanProofs`, `ConsoleProofs` | the theorems | proofs |

## 1. Inventory

### Run executor (modelled)
`runtime/executor.py`, started by `api/runs.py`, `channels/router.py` and the
launcher of `main.py`.

* State: the row of `workflow_runs` (status, totals), the rows of `messages` and
  `usage`, the LangGraph checkpoint of the thread (same id as the run), and the
  local variables of each `_stream` (tokens so far, whether a message was seen).
* Operations: `run`, `resume`, the loop over `graph.astream`, `_persist`,
  `_persist_usage`, `_set_status`, `_finalize`, `_event`, the pause on an
  interrupt, the budget stop, the except clause.
* Interactions: the reply callbacks of the channel router and of the notifier;
  the event bus; cascading deletes of `api/workflows.py`.
* Hard: each execution is an asyncio task and yields at every await; two
  executions of one run may overlap (`resume_run` looks at no status); the row is
  read and written back in separate awaits; any await may raise; the process may
  stop; a graph may cycle.
* Correct when: the budget stops it; it always returns; a run never stays at
  `running` unattended; a settled status is not overwritten behind the reader's
  back; a waiting run can be resumed; messages, usage and totals agree; the monitor
  shows the status of the row.

### Event bus and monitor socket (modelled)
`runtime/events.py`, `api/ws.py`.

* State: rows of `run_events`; `bus._subs`, one unbounded queue per subscriber.
* Operations: `emit` (read the maximum seq, insert, fan out), `history`,
  `subscribe`, `unsubscribe`, the socket handler (replay, then live).
* Hard: history and subscription are separate awaits; a number is read in one await
  and used in another; a failure after the commit; a client that leaves; a restart.
* Correct when: seqs count without gap or repetition; a client sees events in order;
  what is stored while it is subscribed reaches it; it sees the whole timeline.

### Channel router and notifier (modelled)
`channels/router.py`, `channels/notify.py`, `channels/base.py`.

* State: messages that tie chats to runs, `notify_chat_id` of each binding, and
  per message the local variables of `handle_inbound`.
* Operations: a customer's message (resume the run that waits, else start one), an
  approver's message (resume, else register), capture of a chat; `create_run`, `resume_run`
  and the launcher of cron jobs with their notifier: its question, answer and tag.
* Hard: one person talks to several bots with one chat id, and a workflow may have several
  bots; a run is started by one chat, asked in a second and answered by a third or in the
  console, whatever its status; a reply may be quicker than the row that ties its chat to the
  run; updates are handled concurrently.
* Correct when: a reply resumes a run that waits for it, two bots never cross-wire,
  a question can be answered where it was asked, an answer stays within the conversation
  of its run.

### Scheduler (modelled)
`scheduling/scheduler.py`, `api/workflows.py`, `api/agents.py`, `main.py`.

* State: `schedule_cron` of agents and workflows (database), jobs of APScheduler
  (memory).
* Operations: the requests that create, change and delete an agent or a workflow,
  `_register`, `_remove`, the registration of every row at the start-up.
* Hard: a request commits the row and then registers or removes the job, with awaits
  between; two requests interleave; an invalid expression keeps the old job; a restart
  loses the jobs and registers all rows again.
* Correct when: between requests, the jobs are those of the rows ("the DB is the
  source of truth", `scheduler.py:7`), and a schedule that is saved takes effect.

### Workflow graph and compiler (modelled in part)
`runtime/compiler.py`, `runtime/nodes/condition_node.py`, `schemas/graph.py`, and the canvas of
`frontend/features/WorkflowBuilder.tsx`; besides, `runtime/builder.py`,
`runtime/fixed_graph.py` and the other nodes, which are not modelled.

* State: the canvas (nodes, edges, node data) in the browser, `workflows.graph_json` in the
  database. `validate` and `compile_graph` are functions of a graph.
* Operations: open (`buildRF`), add and delete nodes, connect, delete edges, save
  (`serializeGraph`, PATCH), validate, compile.
* Hard: a route is written in `edge.data.when`, or in `edge.label`, or both; branches and
  default of a condition are derived from the edges at every save, but the default only if
  there was none; `validate` checks some of what the compiler, LangGraph and the condition
  node need; a graph goes through any number of sessions.
* Correct when: opening and saving changes nothing; in a graph that `validate` accepts every
  branch of a condition has an edge; a default without one comes about in no way but by
  deleting its edge.

### Workflow page and run panel (modelled)
`frontend/features/WorkflowBuilder.tsx`, with `lib/api.ts`.

* State: the workflow loaded, the drawing, `run`, `hud`, the reply box, `wsRef`; every
  request in flight, with what its handler closed over.
* Operations: open, create, leave and return; draw, save, validate, saveSchedule,
  delete; start, sendReply, the handler of the socket's events.
* Interactions: the endpoints of workflows and runs, the executions they spawn, and the socket
  of the event bus.
* Hard: answers come in any order, after other clicks, or to a page that is gone; nothing
  cancels a request; a run is started while the socket of the last one is open; a run may
  be answered in Telegram and on the page at once; events get lost; the connection may break.
* Correct when: no workflow is overwritten with another's drawing; a verdict is about what
  was on screen; one socket feeds the panel, and the panel ends with what the run ended with;
  a reply reaches the run that asked; the Run button comes back.

### Channel manager and Telegram (modelled)
`channels/manager.py`, `channels/telegram.py`, `api/channels.py`.

* State: `manager.bots` (memory) against `channel_bindings` (database).
* Operations: `create_binding`, `delete_binding`, `add_telegram_bot`, `remove_telegram_bot`,
  `start_all`.
* Hard: creation commits and then starts the bot, deletion stops it and then
  commits; the two interleave, and a start-up restores what it reads.
* Correct when: a bot runs exactly for the bindings with a token, and none without a row.

### Web console (modelled in part)
`frontend/App.tsx`, `components/Shell.tsx`, `lib/auth.ts`, `lib/voice.ts`, and the views `Login`,
`AgentStudio`, `ChannelsView`, `MessageHistory`, `TemplateGallery` and the voice and text
buttons of `WorkflowBuilder`.

* State: the token in `localStorage`, the page and view shown, the lists of agents and bindings,
  the agent being edited, the run selected and its transcript, the busy flag of each button.
* Operations: sign in and out, navigate, create, change and delete agents and bindings, select a
  run, use a template, generate, explain, speak, dictate.
* Hard: answers that come after the view, or the whole console, was left; overlapping
  fetches of one list; a button pressed twice; a failure in the middle of a handler.
* Correct when: no console without a token; lists and transcripts end with what the backend has;
  a button is busy exactly while its request is in flight, and comes back.

### Not modelled
* Durable sweep (`scheduling/dbos_workflows.py`): off by default, and its step only
  logs; section 5 says what that leaves.
* Templates and the generator: data, and one LLM call with a pure conversion. The
  shapes of the seed graphs are what `MCBuilder` opens the editor on.
* Tools, the check of a token, metrics, A2A cards, health, speech, pricing, tracing,
  configuration, logging, the LLM client: stateless, read-only or external.
* Database, checkpointer, models: present as the atomic steps, cascades and
  checkpoints of the modules; types, migrations and pools are not.
* Of the views: the fields of forms, the node inspector, the colours of running nodes,
  the metrics strip, `lib/layout.ts` (positions of nodes), the browser's speech recognition
  and its recorders. Nothing but the screen depends on them.
* The public pages (`Landing`, `Docs`, `Roadmap`, `Pricing`, `DemoRetired`, their chrome and
  animations): text, without a request or a state that anything else reads. Together with the
  markup of the views and the vendored `frontend/../public/redoc.standalone.js` they are
  about nine tenths of the JavaScript, and there is no behaviour in them to state.

`PROJECT.json` lists every component with its files, and every hazard at its line
with the properties that cover it.

## 2. Models and code

Each await of a coroutine is a point where other tasks run. An action covers what
a coroutine does from one await to the next, so all interleavings the event loop can
produce are interleavings of actions. Where several awaits in a row touch nothing
that others write or read differently, they are merged, and the definition says so.
Operators that stand before a definition and carry its name with a suffix
(`AfterUsageLate` before `AfterUsage`) are mutants: plausible mistakes that make a
property fail, kept so that one can see that each property says something.

### Executor
`row`, `ledger` (tokens in messages and usage), `thread` (where the checkpoint goes
next), `shown` (status the last lifecycle event told), and per execution `pc` and
`frame`, its local variables. `segments` bounds the model; `paused` is a history
variable.

| actions | code |
|---|---|
| `CreateRun`, `ResumeRun` | `api/runs.py` create_run, resume_run; also the router and the launcher |
| `Load`, `Commit` | the two awaits of `_set_status` and `_finalize`: SQLAlchemy updates the columns that differ from what was loaded, from a row that may be stale or gone |
| `Announce` | `_event`, whose failure is swallowed, and what follows it |
| `Open`, `Superstep`, `StreamInterrupts`, `StreamEnds`, `StreamRaises` | one `__anext__` of `graph.astream`: a node's update, an interrupt, the end, an exception or the recursion limit |
| `PersistMessage`, `PersistUsage`, `Probe`, `PersistQuestion`, `Deliver` | the awaits of the loop and of the pause |
| `SendRaises`, `DbRaises`, `Crash`, `DeleteRun` | a callback or a transaction raises, the process stops, a workflow is deleted |

A graph is any sequence of supersteps: after each one, LangGraph may go to an
ordinary node, to a human node or to the end. So no result depends on one workflow.
`Raise` is what an exception does at each await: inside the try of `_stream` it leads
to the failure write, before it and inside the except clause it ends the task.

An update of a superstep carries one message or none, as those of the repository's nodes do
(`agent_node.py:36-39`, `deepagent_node.py:31`, `human_node.py:35`; the results of a tool node cost
no tokens and count as one), although the loop at `executor.py:98` would go through several.

Left out: texts and timestamps; dollars, which are summed and checked in the same
statements as tokens; supersteps that run several nodes at once (the loop reads their
updates one after another, so tokens are counted the same, but the budget check could
then stop between two messages of one superstep); and the events of nodes and tokens,
which change nothing else.

### EventBus
One run is the whole system, since the bus shares nothing between runs. `log` holds
seqs in order of commit, and events are named by their position in it. Emitters step
through `ReadMax`, `Insert`, `Publish` (`events.py:26-39`), and `EmitRaises` fails on either
side of the commit. A session steps through `Connect`, `ReadHistory`, `SendReplay`,
`Subscribe`, `Forward` (`ws.py:15-35`); `Leave` and `SendFails` are the client that goes and
the send that notices. `Crash` keeps rows and loses tasks, sockets and subscriptions.

### Inbound
A bot is known by the binding whose token it polls with, as `ChannelManager` keeps them, any number
per workflow, for customers or for approvers; `Default` is the bot of the environment's token, which
has neither binding nor workflow. A task is one `handle_inbound`, or one execution spawned without
a chat, with its notifier. `runs` has status, workflow, the chats tied to it, the first of them
and (for the properties only) the bot it came from.

| actions | code |
|---|---|
| `Receive`, `Select`, `Resolve` | a customer's message: `WaitingFor` (the waiting runs of the chat, or of the approver's workflow), `ResolveWorkflow`, `_capture_chat` (`CaptureIn`), `_approval_binding` (`AskFor`) |
| `SelectApproval`, `Register` | `_handle_approval` |
| `Create`, `PersistInbound` | the rest of `handle_inbound` |
| `CreateConsole`, `ResumeConsole` | `create_run` and the launcher of `main.py`; `resume_run`, of any run in any status; with `workflow_notifier` (`Notified`) |
| `Begin`, `Pause`, `Complete`, `Fail` | the executor, awaited inside the task: its writes of the status, each possible at any time, which is what `Executor` allows |
| `Ask`, `Answer`, `Tag`, `SendFails` | the reply callbacks, and a send that fails |

`asked`, `answers`, `home` and `replies` are history.

Merged awaits: the lookups inside `Select`, `Resolve`, `Register` and `CreateConsole` read
what only the same handler writes, except the capture of a chat, which is cut between its
read and its commit. Bindings are fixed and active, none of them has an `external_chat_id`, and
`Chosen` are the chats given when they were created. Every reply has a text. Where the database
promises no order (`limit(1)` without one, `_approval_binding`), any row may be taken.

### Compiler and Builder
A graph is a record of nodes, edges and the data of its conditions; the type of a node is
the constant set it belongs to, and edges have an order. `Valid` is `validate` without its
warnings, `PathMap` and `Targets` are the conditional and the ordinary edges that `compile_graph`
hands to LangGraph, and `Meaning` collects what it builds. What LangGraph's own `compile` checks
is not modelled. `BuildRF` and
`SerializeGraph` are the editor's functions of (almost) these names.

| actions | code |
|---|---|
| `AddNode`, `Connect` | `addNode`, `onConnect` with the label prompt, and `addEdge`, which ignores a second edge between two nodes |
| `RemoveNode`, `RemoveEdge` | React Flow's Delete key |
| `Save`, `Reopen` | `serializeGraph` and PATCH; the effect that loads a workflow |
| `DeleteAgent` | `DELETE /api/agents/{id}`, which does not look for workflows |

Left out: prompts, modes, positions, names and tools of nodes; the fallback on the first
branch when a condition has no default, since whoever makes branches gives a default
(`WorkflowBuilder.tsx:232`, `generator.py:97`, the seed); node types the palette cannot draw.
The editor is opened on the graphs of the new-workflow button and the templates (`Fresh`);
graphs of the generator are whatever a language model answers and are not assumed to be so.

### Workbench
A drawing is whose it is and the click that made it. A request is a record in `calls`: its kind,
what it carries, where it is (`sent`, `served`, `checking`, `refused`) and whether its page is
gone. `runs` are the rows of the page's runs, `execs` the executions, several of one run at a time
if need be: each writes the row and emits the event in transactions of its own, as in `Executor`.
A socket is accepted, reads the history and subscribes, in three steps, as in `EventBus`; `queue` has
what it will be told, `told` whether the last event of the run is or was among it. Of the executor
there is what the panel can tell apart: `token_usage`, `interrupt`, `run_completed` and `error`, any
number of the first, and the exceptions that lead to the last.

| actions | code |
|---|---|
| `Open`, `Create`, `LoadAnswered`, `Created`, `Leave`, `Return` | `openBuilder` and the effect on `workflowId`, whose cleanup closes the socket; React keeps or drops the state of the page |
| `Draw`, `Save`, `Validate`, `Schedule`, `Delete` | the canvas and the handlers of the toolbar, up to their first await |
| `Start`, `StartAnswered`, `Reply` | `start`, `sendReply` |
| `Check`, `Checked`, `Answered`, `Rejected` | what a handler does when its request is answered or fails |
| `Serve` | the endpoints: load, write, schedule, delete, create, start, resume, or a 404; `create_run` and `resume_run` spawn an execution and answer before it writes anything |
| `Begin`, `Use`, `Settle`, `CallBack` | an execution: it writes *running*, uses tokens, writes what it ends with, calls back |
| `Log`, `Publish`, `Swallow` | `emit` commits, and hands the event to who is subscribed; `_event` swallows a failure before or after the commit |
| `Replay`, `Subscribe`, `Deliver` | `ws_run`, and `ws.onmessage` |
| `Approve` | somebody answers in Telegram; an execution is spawned, whether there is one or not |
| `Lose`, `Break` | a request or its answer is lost; the connection breaks |

`upsets`, `doubled` and the fields `told`, `alone`, `shown` and `asked` are history, for the
properties. Left out: a database that fails in `_set_status` or `_finalize`, after which the row
itself is wrong (`Executor` has it), and the two awaits of these writes, which are one here.

### Lifespan
An agent and a workflow are alike here, an `owner`. A request steps through its awaits:

| actions | code |
|---|---|
| `Request`, `Load`, `Commit`, `Refresh`, `Schedule` | an endpoint of `api/agents.py` or `api/workflows.py`: `db.get` and its 404, the columns that differ from what was loaded, `db.refresh`, then `_register` or `_remove` without an await |
| `Bind`, `StartBot` | `create_binding`: commit, refresh, then `add_telegram_bot` |
| `StopBot`, `Unbind` | `delete_binding`: `remove_telegram_bot`, then the commit |
| `DbRaises`, `Crash`, `Startup` | a query raises, the process stops, the lifespan of `main.py` starts bots and registers schedules |

`spoilt` is a history variable: ids whose requests overlapped, or failed halfway, since the
start-up. The properties are about the others; section 5 says what happens to these.

### Console
A view keeps lists, flags and a transcript until it is left; a request remembers whether its
view (`gone`) or the whole console (`out`) has been left.

| actions | code |
|---|---|
| `Navigate`, `SignOut`, `Retire` | `setView`, `setPage`, `auth.clear`, the effect of `App.tsx` |
| `Press`, `Edit`, `Open`, `Delete`, `Select`, `Tap` | the handlers of the buttons, up to their first await |
| `Serve`, `Lose` | the backend answers, refuses or is not heard |
| `SignedIn`, `Opened`, `Saved`, `Listed`, `Changed`, `Told`, `MicOpens`, `Over` | what follows an answer or a failure |

`mixed` is history: lists whose requests overlapped, failed, or were followed by a change from
a view left since. A delete that the backend refuses is answered like any other (`api.ts:42, 93`). The
list of workflows is not among the lists, since `Workbench` has the workflow that is open. A
playback that has begun is taken to end: `speakText` sets `onended` but no `onerror`
(`WorkflowBuilder.tsx:184`), so an error after `play()` would leave the button busy.

### How the modules fit
`Executor` shows what one or two executions do to one run, whoever starts them;
`ResumeRun` with `Overlap = TRUE` makes no assumption about the caller, hence covers what
`Inbound` does. `EventBus` takes any number of emitters, hence whatever `Executor` emits.
`Inbound` takes the statuses that `Executor` can produce. `Executor` implements
`RunLifecycle` under the mapping `Lifecycle` (status is the column, a run is open while an
execution is past its first write; a crash is its `Stop`), and `EventBus` implements `RunTimeline` with
`timeline <- log`. `Workbench` has executions and sockets of its own, cut where those of
`Executor` and `EventBus` are cut as far as the panel can tell: row and event in two steps, commit and
publication in two, history and subscription in two, so the gap of `replay_gap` and the overlap
of `executor_overlap` are in it; a socket repeats no event, which would change nothing on the
panel. No refinement between them is checked. `Builder` says what a drawing of `Workbench` is.
`Lifespan` says which bots `Inbound` hears and when `CreateRun` is called without a user.

## 3. Runs

States are distinct states; every run finishes within three minutes.

| run | instance | shows |
|---|---|---|
| `executor_solo` (662,661) | 1 run, 1 execution at a time, messages of 0, 1 or 2 tokens, caps 0 (none) and 1, recursion limit 2, 3 segments, every fault | `BudgetEnforced`, `OvershootBounded`: the budget stops a run one message late at most. `WaitingIsResumable`: also after a crash or a failed write, a waiting run has a checkpoint at a human node. `AccountsAgree`, `MonitorAgrees`: until a fault has cost a write (`disturbed`), message tokens, usage rows and the total agree once the tokens of paused segments are added, and the last event tells the status. `EveryExecutionReturns`. `ImplementsLifecycle`. |
| `executor_overlap` (211,278) | 2 executions of one run, 3 segments, failing nodes and sends, deletes | `NoOrphanRunning`: whoever writes whichever stale row, a running row has an execution that will overwrite it. `EveryRunSettles`: hence it leaves that status. |
| `bus_timeline` (55,067) | 1 emitter, 2 clients, 3 events, every fault | `ImplementsTimeline`: 1, 2, 3, ... across failures and restarts. `ReceivedInOrder`: a client sees events in order, and at most one of them twice. `LiveDelivered`: what is stored while a client is subscribed reaches it or its connection ends. |
| `inbound` (6,809,514) | 2 chats, 2 workflows with a customers' bot each, an approver's bot and the default bot, 2 tasks, 1 run, started and resumed in chats and in the console, failing sends | `NoCrossWire`: the bot of one workflow resumes no run that began with the bot of another. `QuestionIsTied`: when its sender is done, a question is where an answer finds the run. `OnlyTheTagLoses`: a reply misses the run that asked only before the notifier has tied the chat. `AnswersStayInside`: an answer goes to a chat of the conversation or nowhere. |
| `builder` (226,528) | 1 start, 1 end, 2 agents, a human, a condition, 3 labels; opened on a new workflow or one of four template shapes; 3 edits, any saves and reopenings | `BranchesHaveEdges`: a valid graph has an edge for every branch of a condition that has edges at all. `RoundTrip`: opening and saving changes nothing. `DeadDefaultIsOld`: a default that leads nowhere is one that was saved before. |
| `workbench` (1,458,386) | 2 workflows, 3 clicks, 2 runs, 2 executions at a time, 2 happenings (tokens used, a question, a failure of a run, of an emission, of a request or of a connection) | `OneSocket`. `PanelSettles`: whatever was opened, started, answered or asked, the panel ends with the status of its run, if its socket was told the last event and no two executions of the run overlapped. `SavesStayHome`: a workflow is overwritten with its own drawing only. `VerdictOnScreen`, `ReplyReachesAsker`. `RunButtonReturns`: *running* goes away again, but for a failure or a lost event. |
| `lifespan` (296,111) | 1 owner, 1 binding, 2 expressions and one that is none, 3 requests, failing queries and bots, crashes | `JobsMirrorRows`, `BotsMirrorBindings`: between requests, memory agrees with the rows. `NoStrayBot`: no bot is without its row, at no await. Both but for ids that are `spoilt`: requests about them overlapped or failed halfway, after which the code does leave a stray bot or job. `ScheduleTakesEffect`. |
| `console` (1,042,400) | 2 agents, 2 bindings, 2 runs, 3 clicks, a loss per visit of a view | `ConsoleIsEntitled`: no late answer mounts a console without a token or in a retired demo. `ListsSettle`, `TranscriptSettles`: what is on screen is what is stored. `BusyIsInFlight`: a guarded button sends one request at a time and is never stuck. `ButtonsReturn`. |
| `pause_budget` | 1 run, cap 1, 2 segments, no fault | violates `CompletedWithinBudget` |
| `replay_gap` | 1 emitter, 1 client, 2 events, no fault | violates `FullTimeline` |
| `twin_seqs` | 2 emitters, no fault | violates `SeqsUnique` |
| `two_doors` | 1 workflow with 2 customers' bots, 2 chats, 2 tasks, 1 run | violates `OneBotOneTalk` |

`TypeOK` is an invariant of one run of each module, but of `Console`, where it is a theorem.
Symmetry is used in `Inbound` only (chats and tasks), whose properties are invariants and one
action property.

**Bounds.** One run suffices for `Executor` because executions of different runs share no
variable; two executions are the fewest that overlap, and three segments let one of them
be followed by a third that finds what the others left. Messages of 0, 1 and 2 tokens with
a cap of 1 give a total under, at, one above and two above the cap, and a message that
costs nothing. A recursion limit of 2 lets a segment work, pause, loop and run out of
steps. Three events let a restart happen in the middle of a timeline and let a client miss,
repeat or receive live events; the interesting window of `ReceivedInOrder` needs two.
Two chats and two bots are what it takes to cross-wire, and one run is enough to be resumed by
the wrong one; two tasks are what it takes to race.
Three edits of a template delete a branch, redraw it elsewhere or under another label, and
delete another one; from an empty canvas they draw a condition with an edge.
Two workflows are the fewest that can be confused, and two runs let one be started before the
other has settled; three clicks are, for instance, start, reply and start again, or open, save
and open another, with every order of the answers. Two executions at a time are a reply on
the page and one in Telegram. Two happenings are a question and whatever befalls its answer:
what completes a run without a word is not counted.
Three requests are two that race and one that finds what they
left, and one owner and one binding suffice because requests about different ids share nothing.
The program reaches any state in more steps, which is what the theorems are for.
The model bounds are `MaxSegments`, `MaxEvents`, `MaxRuns`, `MaxEdits`, `MaxClicks` and
`Requests`, `MaxExecs`, all in guards, and one loss per visit in `Console`. In `Workbench`, `MaxEvents`
bounds all that `Happens`, and `MaxClicks` all that is done on the page or in Telegram.

**Deadlock** is not checked: a system in which nobody starts another run is allowed to stop,
and every model stops at its bound.

**Fairness.** `Executor!FairSpec` has weak fairness of each execution's steps, and
`EventBus!FairSpec` of an emission that has begun and of each handler: the asyncio loop runs
every ready task, and each await (a query, a model call, a send) returns or raises. Nobody is
obliged to create, resume or delete a run, to connect or leave, or to crash. A model call
without a timeout that never answers breaks this assumption, and then the run stays at
`running` as long as the call does. `Workbench!FairSpec` and `Console!FairSpec` have weak fairness of each request of the page:
it is answered or fails, since the browser rejects what it gives up; in `Workbench` also of each
execution, which ends (`EveryExecutionReturns`), and of what the socket's handler and the browser do
with an open socket. `Console` also takes a playback to end.
`Lifespan!FairSpec` has weak fairness of each request's next await, and of `Startup`: somebody
starts the process again. The user need do nothing. `Inbound` and `Builder` are checked for
safety only.

## 4. Proofs

`tlapm` proves 10,800 obligations in eight modules. The theorems hold for any sets of runs,
executions, chats, workflows, bots, tasks, nodes, labels, opened graphs, owners, bindings,
requests, agents and clicks, any caps, any recursion limit, and whatever the bound of the
model. They assume the named assumption of each module (`ConstantsAssumption`, `BusAssumption`,
`InboundAssumption`, `CompilerAssumption`, `BuilderAssumption`, `WorkbenchAssumption`,
`LifespanAssumption`, `ConsoleAssumption`), which type the constants and, for `Builder`, say what
the editor is opened on; and what the table lists.

| theorem | says | argument |
|---|---|---|
| **Executor** | | |
| `TypeCorrect` | `[]TypeOK` | inductive by itself |
| `BudgetHolds` | `[]BudgetEnforced` | inductive with `TypeOK`: tokens grow only in `PersistMessage`, which leads to the check of `PersistUsage`; an overspent execution has no path back to the stream |
| `OvershootIsOneMessage` | `[]OvershootBounded` | with the two above: `PersistMessage` is reached only within the budget, and adds one message |
| `WorkIsBounded` | `[]WorkBounded`: an execution has at most `4 * RecursionLimit + 14` awaits left, and none exactly when idle | `TypeOK` with `LoadedAtWrites` |
| `EveryStepCounts` | `StepsCount`: its own steps lessen that measure, nobody else's raises it | `Ahead`: a place in the handler (`Phase`), and four awaits for every superstep the limit still allows |
| `RunningIsOwned` | `[]NoOrphanRunning` if neither the database fails nor the process stops | see below |
| `WaitingRunsResume` | `[]WaitingIsResumable` if executions of a run do not overlap | `SoloInv`, see below |
| `AccountsBalance` | `[]AccountsAgree`, likewise | `SoloInv`: the balance with the tokens in flight, at each await |
| `MonitorShowsTheRow` | `[]MonitorAgrees`, likewise | `SoloInv` |
| `KeepsThePromise` | every step of `Executor` is a step of `RunLifecycle` or a stutter, likewise | `SoloInv` and `Fitting` (what the row says while an execution is at each await): a step begins, settles, withdraws or closes a run, accepts or removes one, or stops all of them |
| **EventBus** | | |
| `NumberingHolds` | `[]NumberingInv` with one emitter | event i has seq i, and what an emitter holds is the length of the log |
| `TimelineKept` | `Spec` implements `RunTimeline` with one emitter | `Insert` appends the length plus one by `NumberingInv`; every other step stutters |
| `SentInOrder` | `[]ReceivedInOrder` with one emitter | `ViewedInv`: a replay is strictly ascending; a queue is ascending and holds nothing below what was received, but for one repetition at the seam |
| `SeqsHaveNoGap`, `BusTypes` | `[]BusInv`, `[]TypeOK`, with any emitters | the seqs in use are 1, 2, ... with repetitions, and nobody holds a maximum above the log |
| `ClientsMissOnlyTheGap` | `OnlyTheGapLoses`, with any emitters | `BusInv`: a replay holds all that was stored when it was read, and `Publish` reaches whoever is subscribed |
| **Inbound** | | |
| `InboundTypes` | `[]TypeOK` | from `InboundInv` |
| `BotsNeverCross` | `[]NoCrossWire` | `InboundInv` with `Homes`: a run that came from a bot with a workflow belongs to that workflow |
| `QuestionsAreTied` | `[]QuestionIsTied` | `InboundInv` with `Tied`: a question is with the approver's bot, in a tied chat, or its sender has the tag still to write |
| `RepliesFindRuns` | `ReplyFindsRun` if runs are started and resumed in chats only | `Tied` and `Replies`: a task that has found nobody waiting was not sent as a reply to a run that waits |
| `RepliesMissOnlyTheTag` | `OnlyTheTagLoses`: `ReplyFindsRun` but for a reply that overtakes the notifier's tag | `Finds`: the questions a message replies to are in a tied chat or one being tied (`Tying`) |
| `AnswersNeverLeak` | `[]AnswersStayInside`: an answer goes to no chat outside the run's conversation | `Heads`: where a task will send to, at each of its awaits |
| **Compiler and Builder** | | |
| `BuilderTypes` | `[]TypeOK` | `BuilderInv` |
| `EveryBranchHasAnEdge` | `[]BranchesHaveEdges` | `BuilderInv` with `Derived` |
| `SavingKeepsTheMeaning` | `[]RoundTrip` | `BuilderInv` with `Derived`; the edges keep their routes (`BuildRFKeeps`, `SameEdges`) |
| `DeadDefaultsAreOld` | `DeadDefaultIsOld`: a save gives no condition a default that leads nowhere, unless it was saved before | `BuilderInv` with `Loaded`: a default on the canvas is the one saved, or there is none; `serializeGraph` takes a new one from an edge it has drawn |
| **Workbench** | | |
| `PageTypes` | `[]TypeOK` | inductive by itself |
| `OneVoice` | `[]OneSocket` | whoever replaces `wsRef` closes the socket it held |
| `SavesComeHome` | `[]SavesStayHome` | `Home`: every write in flight, every answer of a load and the page itself carry a drawing of their workflow |
| `VerdictsAreRight` | `[]VerdictOnScreen` | `Writing`: two writes of one workflow in flight know of each other, and what a lone one wrote is still there |
| `RepliesReach` | `[]ReplyReachesAsker` | `Joined` and `Asking`: the reply box shows the run of the panel, and while a start is in flight the panel does not wait |
| `PanelShowsTheRun` | `[]PanelSettles` | `PanelInv`, see below |
| `RunButtonIsOwed` | `[]DisabledIsOwed`: what takes *running* off the panel again is under way, or the event that would was lost | `Linked` and `RunningLinked`: the socket of the panel's run is open, or a start or a load is in flight; `More`: what is told last is not that tokens were used; so the socket `Feeds` the panel, by an event to tell, an execution or a reply on the way |
| **Lifespan** | | |
| `LifespanTypes`, `SchedulesAreKept`, `BotsAreKept`, `NoBotStrays` | `[]TypeOK`, `[]JobsMirrorRows`, `[]BotsMirrorBindings`, `[]NoStrayBot` | `IInv`: what memory and rows are at each await of the one request in flight for an id (`Stage`), and between requests (`Settled`); a crash spoils what it cuts short |
| `MismatchesAreOwed` | `[]MismatchIsOwed`: the job of an id that is not spoilt is out of step with its row only until the next start-up, or while one request is between `db.commit` and the scheduler | from `IInv`: without such a request `Settled` and `Stage` make them agree |
| `DebtsArePaid` | `DebtIsPaid`: the two steps left of that request put it right, and no other request takes the debt away; start-up puts every job right, spoilt or not | the scheduler is handed what is in the row, by `Stage` |
| **Console** | | |
| `ConsoleTypes`, `OnlyTheEntitled`, `BusyMeansInFlight` | `[]TypeOK`, `[]ConsoleIsEntitled`, `[]BusyIsInFlight` | `CInv`: what every request in flight is about (`Tidy`), and a guarded button waits for one at most (`Single`) |
| `ListsKept`, `TranscriptsKept` | `[]ListsSettle`, `[]TranscriptSettles` | `SettleInv`: a list has one request at a time, which brings what is stored unless a change is in flight that a refresh will follow (`Fresh`, `Script`) |
| `NoButtonIsStranded` | `[]BusyIsOwed`: a disabled button waits for something in flight | `CInv` for the guarded ones, `Owed` for the others |
| `EveryAnswerCounts` | `AnswersCount`: what an answer sends after itself ranks below it | `Rank`: a change is followed by a fetch, a fetch by nothing |

*Why a running row is owned.* `NoOrphanRunning` alone is not inductive: an execution that
loaded the row at `waiting_human` and is about to write `waiting_human` writes nothing, so it
must not count as the one that will settle a row another execution has set to `running`.
`OwesOutcome` therefore counts an execution only if its last write is still to be loaded, or
was loaded with a status that differs from the one it writes. With `TypeOK` and
`LoadedAtWrites` (a loaded row is given up when its session closes) this is inductive: when
an execution commits, the row leaves `running`; when it loads, it reads the very row it has to
change; and the one that sets `running` owes an outcome from then on. The assumption on faults
is needed: item 17 of section 5 is the failure without it.

*Why `SoloInv`.* With `Overlap = FALSE` a run has one busy execution, so what it loaded is what
the row still says, unless the row was deleted. `SoloInv` says for each await what is in the row,
in the checkpoint, in the ledger and on the monitor, in terms of the local variables; a question,
for instance, is only ever asked when the checkpoint waits at a human node. Outside executions
the four parts are the three properties. Overlapping executions do break them, and
`executor_overlap` checks what is left then.

*Why one emitter.* `twin_seqs` refutes uniqueness with two.

*Why `InboundInv` has that many parts.* `NoCrossWire` and `QuestionIsTied` speak of what a
task has in its local variables many awaits after it read them. `Handling`, `Works` and `Asks`
say what the variables mean at each await (the run exists, has the task's workflow, is tied to
its chat); they are preserved by a task's own step, and by those of others because rows only
grow (`Grown`): a status never returns to absent, a workflow and a home never change, chats
are only added. The assumption of `RepliesFindRuns` is needed: item 12 of section 5 is the failure
without it.

*Why saved graphs are `Derived`.* A valid graph may have a branch without an edge if the
default is another one, so `BranchesHaveEdges` does not follow from `validate`, nor `RoundTrip`
from the two conversions. Both need to know how the saved graph came about: if a condition has
a labelled edge, its branches are exactly the labels drawn and it has a default. That holds of
what is opened by assumption, and `SerializeKeeps` proves it of every save, whatever is on the
canvas. `Numbered` (positions of edges are bounded) is there for the last edge of a label to
exist. The library's facts about well-founded relations give the least element.

*How the proofs of the pages go.* Both are about requests that are answered in any order. The
invariants quantify over `calls` and say what each request carries, and `CallsStep` (of
`WorkbenchProofs`) says once for each action where every request of the next state comes from:
an old one, an old one further on, or a new one. A step then only has to show the requests it
made or moved.

*Why `PanelInv` has that many parts.* What the panel shows, what is in the socket's queue, what an
execution is about to emit and what the row says are four copies of one status, written at
different times. The panel is right at rest because of `Said`: of a run whose socket was told the
last event, the event still to be told last is a settling one and says what the row says, and when
nothing is left to tell the panel shows the row's status. An execution puts the next event there,
and `Truth` is why it fits: what a lone execution (its run not in `doubled`) is about to tell is
what it made of the row. `OneExec` is where `doubled` comes in: a run outside it has at most one
execution, so that no other writes the row between a write and its event. The rest ties the panel
to its run: `Joined` (it is the run of the page's socket, or none), `Newborn` and `Fresh` (a start
that is served and not yet answered names a run that no other request and no socket has, so its
events wait for a socket that does not exist yet), `Alive` and `Refused` (what only a failure
brings about).

*What the liveness properties rest on.* Each leads-to property is checked by TLC on its instance.
What can be proved of them for every instance is the part that the code, and not the scheduling,
is responsible for: whenever something is awaited, somebody in flight owes it, and each step of
whoever owes it brings it closer. For `EveryExecutionReturns` that is `EveryStepCounts`, and
`WorkIsBounded` says how far it may be; for `EveryRunSettles` it is `RunningIsOwned` and the same
measure; for `ButtonsReturn` it is `NoButtonIsStranded` and `EveryAnswerCounts`; for
`RunButtonReturns`, `RunButtonIsOwed`; for `ScheduleTakesEffect`, `MismatchesAreOwed` and
`DebtsArePaid`; and for `LiveDelivered`, `ClientsMissOnlyTheGap`, which says that what a
client is still to be sent is never dropped. What is left to TLC is that the owing actor gets its turn.

*Replies and answers.* The notifier sends and then ties the chat to the run, in a later transaction:
a reply that is handled between the two finds nobody waiting, and by `RepliesMissOnlyTheTag` that is
the only way to miss a run, whoever starts and resumes it. And whoever resumes a run, and whichever
bots and bindings there are, its answer goes to nobody, to a chat that takes part in it or to one
about to be tied (`AnswersNeverLeak`).

**Only model-checked:** the liveness properties (`EveryExecutionReturns`, `EveryRunSettles`,
`LiveDelivered`, `RunButtonReturns`, `ScheduleTakesEffect`, `ButtonsReturn` and the half of
`ImplementsLifecycle` that says runs come to rest), because fairness and ENABLED are outside what
the provers handle. Every other property of a passing run is a theorem. No module uses
RECURSIVE operators.

## 5. Where code and documents disagree

Each of the first four is a run in which TLC refutes what a document or a comment says.

1. `pause_budget`: the totals of `_stream` are local (`executor.py:77`), so each resume has the
   whole budget again and a run completes above it. `README.md:170` and
   `backend-implementation-plan.md:689` promise a budget per run.
2. `replay_gap`: an event published between the history query and the subscription is in
   neither (`ws.py:25`, against `backend-implementation-plan.md:550`).
3. `twin_seqs`: two executions of a run store the same seq (`events.py:28`, against
   `run_event.py:20` and `test_executor_events.py:36-37`).
4. `two_doors`: the waiting run is looked for by chat and workflow (`router.py:94-101`), and a
   workflow may have several bots, one per binding (`manager.py:57-75`). What a person says to one of
   them resumes the run they began with another, against the comment at `router.py:98-99`, "so
   two bots talking to the same Telegram user can't cross-wire their conversations".

Seen with TLC, on variants of the instances or as the case a property has to except:

5. A default whose edge was deleted survives the save (`WorkflowBuilder.tsx:232`); `validate`
   accepts the graph (`compiler.py:71-74`), and a run fails when the condition falls back on
   it, a route without an edge. `backend-implementation-plan.md:407` has the router return a
   label of the path map, and line 295 has `validate` report structural errors. `DeadDefaultIsOld` is
   what does hold.
6. The tokens of a segment that paused never reach `workflow_runs.total_tokens`
   (`executor.py:142`), although usage has them: without `paused`, `AccountsAgree` fails in
   `executor_solo`. Line 548 of the implementation plan and `README.md:41` speak of totals per run.
7. When the answer cannot be sent, `_finalize` runs a second time (`executor.py:151`, then 162):
   the run turns from completed to failed, and its tokens are counted twice.
8. The default bot filters by chat only and may resume the run of a dedicated bot, and a dedicated
   bot one of its workflow that began with the default bot (`router.py:98-101`): hence the `None` in
   `NoCrossWire`.
9. With a default bot that is also used by the approver, the approver's reply ties their chat to
   the run (`router.py:227`), and a later message of theirs to the default bot resumes it as their
   own and has the answer, against `router.py:117`, "the final answer goes back to the customer". Hence
   `AnswersStayInside` speaks of the chats of the conversation, not of its owner.
10. `_capture_chat` is "set once" (`router.py:72`), but of two first messages handled at once
    the second overwrites the first (read at 77-86, commit at 88-89).
11. The answer of a run that was resumed by its approver is logged and dropped when there is no
    default bot (`router.py:231`), and so is that of a run that was started in the console: the
    `None` of `AnswersStayInside`.
12. A reply to the notifier that is quicker than its tag (`notify.py:55` sends, 60-63 commit) starts
    a new run, against the comment at `notify.py:59`: the exception of `OnlyTheTagLoses`, without
    which it fails in `inbound`.
13. A reply on the page and an approval in Telegram that overlap make two executions of the run
    (`api/runs.py:120-134` and `router.py:190-192` look at no execution): the row may end with what
    one of them wrote and the panel with what the other one emitted (`doubled`).
14. `resume_run` answers before the spawned execution has written *running*: until then the row still
    says `waiting_human` and a second reply is accepted (`api/runs.py:132-134`).
15. An event that is published between the history and the subscription, or whose emission fails and is
    swallowed (`executor.py:50-55`), never reaches the panel: if it was the one that settles the run,
    the Run button stays disabled although nothing failed (`Missed`).
16. An invalid expression is stored and logged, and the job of the expression before keeps firing
    until the next start-up (`scheduler.py:61`, against "the DB is the source of truth", line
    7). Two overlapping updates of one owner may register in the other order, or one may
    register what a delete has removed, with the same effect (hence `spoilt`).
17. With `Faults = {"crash"}`, `EveryRunSettles` fails: after a crash a run stays at
    `running`; nothing at start-up touches runs and the sweep only logs
    (`dbos_workflows.py:53`, against its docstring, lines 8-9).
18. The answer of `saveSchedule` sets the workflow of the page (`WorkflowBuilder.tsx:268`). If
    another one was opened meanwhile, its drawing now stands under the first one's title, and
    the next save stores it there (`title` in `upsets`).
19. An old run may ask while `createRun` of the next one is in flight: the reply box shows its
    question, and the reply goes to the new run (`crossed` in `upsets`), against the comment at
    `WorkflowBuilder.tsx:309`, "resumes the same run".
20. `start` and `sendReply` set `running` and have no try (`WorkflowBuilder.tsx:313, 323`): a
    request that fails leaves the Run button disabled until the page is left (`failed` in `upsets`).
21. `validate` writes and then asks, in two requests, while `save` is enabled: with another write in
    flight, "valid" may be said of a graph that is not the one on screen
    (`WorkflowBuilder.tsx:258`, "validate what's on screen"; the field `alone`).
22. A page left during `createRun` still gets its socket when the answer comes, and nothing closes it
    (`WorkflowBuilder.tsx:325`; the state `leaked`).
23. Selecting a second run before the messages of the first have come may leave the first
    one's on screen (`MessageHistory.tsx:22`); overlapping refreshes of a roster end with
    whichever answer comes last (`mixed`).
24. A login answered after the user went back opens the console by itself (`Login.tsx:15`). It is
    a console with a token, so `ConsoleIsEntitled` holds.

Read in the code while modelling, not checked:

25. Two edges of a condition may get one label; the path map keeps the later one
    (`compiler.py:142`) and nothing reports the other.
26. Save does not call `/validate` (`WorkflowBuilder.tsx:244-253`), although
    `backend/api/workflows.py:1` says the builder calls it on save.
27. A workflow edited while one of its runs waits is resumed on the new graph: `resume_run`
    builds the graph from the row.
28. The jobstore is in memory (`scheduler.py:7`), against `backend-implementation-plan.md:760`, "an
    APScheduler SQLAlchemy jobstore"; registering the rows at start-up has the same effect.
29. Runs that a channel starts or resumes get no budget and no recursion limit of their own
    (`router.py:192, 204, 236`).
30. Two bindings may have one bot token: only the default bot's is refused (`channels.py:55`).
31. A second tap while the browser asks for the microphone starts a second recorder, and the
    first one, like that of a page left meanwhile, is never stopped (`WorkflowBuilder.tsx:140`).
32. `DEMO_RETIRED` is true by default (`lib/config.ts:14`), so a build without
    `VITE_DEMO_RETIRED=false` has no console at all.
33. A new workflow, a start and an end without an edge, validates, and LangGraph does not compile it
    (against `README.md:224`, "dry-run compile").
34. `speakText` has no `onerror` (`WorkflowBuilder.tsx:184`): a playback that fails after `play()` leaves
    its button busy until the view is left.

## 6. Plan

Done, in this order, each with its proofs: 1 `RunLifecycle` and `Executor`; 2 `RunTimeline` and
`EventBus`; 3 `Inbound`; 4 `Compiler` and `Builder`; 5 `Lifespan`; 6 `Workbench`; 7 `Console`.

What could still be modelled: the generator's conversion of a model's answer into a graph
(`runtime/generator.py`), as an operator checked against `Valid`; resuming a run on a graph
edited meanwhile, which joins `Builder` and `Executor`; bindings that change while messages
arrive, which joins `Lifespan` and `Inbound`; a refinement of the executions and sockets of `Workbench` by `Executor`
and `EventBus`; and `lib/layout.ts`. The rest is listed
under "Not modelled", with its reasons.
