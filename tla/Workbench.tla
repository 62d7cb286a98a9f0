------------------------------ MODULE Workbench ------------------------------
(***************************************************************************)
(* The page of one workflow, frontend/src/features/WorkflowBuilder.tsx:    *)
(* its requests to the backend, the socket of a run, and the run panel.    *)
(* Every handler of the page awaits a request and goes on with what it     *)
(* closed over; nothing cancels a request, and answers come in any order.  *)
(*                                                                         *)
(* A drawing stands for nodes and edges (module Builder has them): whose   *)
(* it is, and the click that made it.                                      *)
(*                                                                         *)
(* Of the backend there is what the panel can tell apart: the rows, the    *)
(* executions that write them and emit events, each in transactions of its *)
(* own and several of one run at a time, and the socket, which reads the   *)
(* history and only then subscribes.                                       *)
(***************************************************************************)
EXTENDS Integers, Sequences, FiniteSets, Functions

CONSTANTS
  Workflows,   \* workflow ids
  First,       \* the workflows there are at the start
  None,
  MaxClicks,   \* bound of the model: what is done on the page or in Telegram
  MaxRuns,     \* bound of the model: runs started from the page
  MaxEvents,   \* bound of the model: what happens besides (see events)
  MaxExecs,    \* bound of the model: executions at a time
  Faults       \* which of the Disturbances may happen

\* call: a request or its answer is lost; socket: a connection breaks.
Disturbances == {"call", "socket"}

ASSUME WorkbenchAssumption ==
  /\ First \subseteq Workflows
  /\ None \notin Workflows
  /\ MaxClicks \in Nat /\ MaxRuns \in Nat /\ MaxEvents \in Nat /\ MaxExecs \in Nat
  /\ Faults \subseteq Disturbances

RunIds == 1 .. MaxRuns
ExecIds == 1 .. MaxExecs

\* failed: a request was refused or lost, a socket broke, or a run was deleted;
\* title: the answer of a schedule has put one workflow's name over another's drawing;
\* crossed: a run asked while createRun of the next one was in flight.
Upsets == {"failed", "title", "crossed"}

VARIABLES
  \* the backend
  born,      \* workflows created so far
  exists,    \* rows of workflows
  stored,    \* stored[w]: the drawing in graph_json
  runs,      \* runs[r]: workflow, status and logged events of run r
  execs,     \* execs[e]: a call of Executor.run or resume, and where it is
  doubled,   \* history: runs that had two executions at a time
  events,    \* how often a run used tokens, asked or failed, an emission failed, a
             \* request was lost or a socket broke
  \* the page
  mounted,   \* the builder is the view shown
  opened,    \* the property workflowId, a state of App.tsx
  wf,        \* the workflow loaded
  canvas,    \* the drawing on screen
  run,       \* the run set by the last createRun answered
  hud,       \* hud.status
  asker,     \* the run whose interrupt the reply box shows
  verdict,   \* editStatus, and whether it is right
  ws,        \* wsRef
  sockets,   \* sockets[r]: the socket of run r, as the page and ws_run have it
  calls,     \* requests in flight
  clicks,
  upsets     \* history: which of the Upsets have happened

work == <<runs, execs, doubled, events>>
backend == <<born, exists, stored, work>>
panel == <<run, hud, asker>>
page == <<wf, canvas, panel, verdict>>
frame == <<mounted, opened>>
wires == <<ws, sockets>>
vars == <<backend, frame, page, wires, calls, clicks, upsets>>

Kinds == {"load", "create", "save", "validate", "schedule", "delete", "start", "reply"}
Drawings == [of : Workflows \cup {None}, at : Nat]

NoDrawing == [of |-> None, at |-> 0]

\* state: what the page has of it; phase: how far ws_run is; queue: the log of the
\* run, as long as ws_run has not read it, and then the events on their way; told:
\* whether the last event of the log is or was among them.
NoSocket == [state |-> "none", phase |-> "accepted", queue |-> <<>>, told |-> TRUE]
ClosedSocket == [NoSocket EXCEPT !.state = "closed"]
Idle == [run |-> 0, at |-> "idle", event |-> "none"]
NoRun == [wf |-> None, status |-> "absent"]

\* A request: the click that sent it, what it is about, where it is, and whether the
\* page that sent it is gone; for some, the drawing it carries, whether no other
\* write of its workflow was in flight with it, whether its workflow was the one
\* shown (which its handler closed over), and which run had asked.
Call(kind, w) ==
  [id |-> clicks', kind |-> kind, wf |-> w, run |-> 0, drawing |-> NoDrawing, alone |-> TRUE,
   shown |-> FALSE, asked |-> 0, at |-> "sent", gone |-> FALSE]

\* The list, or a workflow opened from it and loaded.
Init ==
  /\ born = First /\ exists = First
  /\ stored = [w \in Workflows |-> [of |-> w, at |-> 0]]
  /\ runs = [r \in RunIds |-> NoRun]
  /\ execs = [e \in ExecIds |-> Idle] /\ doubled = {} /\ events = 0
  /\ mounted = TRUE /\ opened \in {None} \cup First
  /\ wf = opened /\ canvas = IF opened = None THEN NoDrawing ELSE stored[opened]
  /\ run = 0 /\ hud = "" /\ asker = 0
  /\ verdict = "none"
  /\ ws = 0 /\ sockets = [r \in RunIds |-> NoSocket]
  /\ calls = {} /\ clicks = 0 /\ upsets = {}

\* The landing list is shown instead of a workflow.
Listed == opened = None \/ wf = None

InFlight(kind) == \E c \in calls : c.kind = kind /\ ~c.gone

\* The bounds leave room for what another request of this kind makes.
Room(kind, left) == Cardinality({c \in calls : c.kind = kind /\ c.at = "sent"}) < left

Click == clicks < MaxClicks /\ clicks' = clicks + 1
OnPage == mounted /\ ~Listed /\ Click

-----------------------------------------------------------------------------
(* Opening a workflow.                                                     *)

CloseSocket(r) ==
  IF r \in RunIds THEN [sockets EXCEPT ![r] = ClosedSocket] ELSE sockets

\* openBuilder and the effect on workflowId, whose cleanup closes the socket.  The
\* effect runs when the id changes or the page is mounted, and not otherwise.
GoTo(w, others) ==
  /\ opened' = w /\ mounted' = TRUE
  /\ IF w = opened /\ mounted
     THEN calls' = others /\ UNCHANGED sockets
     ELSE /\ calls' = others \cup {Call("load", w)}
          /\ sockets' = CloseSocket(ws)

Open(w) ==
  /\ mounted /\ Listed /\ Click
  /\ w \in born
  /\ GoTo(w, calls)
  /\ UNCHANGED <<backend, page, ws, upsets>>

\* New workflow, generate, or Use template: a request that opens what it made.
Create ==
  /\ ~mounted \/ Listed
  /\ Click
  /\ Room("create", Cardinality(Workflows \ born))
  /\ calls' = calls \cup {Call("create", None)}
  /\ UNCHANGED <<backend, frame, page, wires, upsets>>

\* Mutant of LoadAnswered: the status of the panel stays.
LoadAnsweredKeeps(c) ==
  /\ wf' = c.wf /\ canvas' = c.drawing
  /\ run' = 0 /\ asker' = 0
  /\ UNCHANGED <<frame, hud, verdict, wires, upsets>>

\* The effect's answer replaces the page, whatever has been opened since.
LoadAnswered(c) ==
  /\ wf' = c.wf /\ canvas' = c.drawing
  /\ run' = 0 /\ hud' = "" /\ asker' = 0
  /\ UNCHANGED <<frame, verdict, wires, upsets>>

\* The view is left: React drops the page's state; its cleanup closes the socket.
Leave ==
  /\ mounted /\ Click
  /\ mounted' = FALSE
  /\ wf' = None /\ canvas' = NoDrawing
  /\ run' = 0 /\ hud' = "" /\ asker' = 0 /\ verdict' = "none"
  /\ sockets' = CloseSocket(ws) /\ ws' = 0
  /\ calls' = {[c EXCEPT !.gone = TRUE] : c \in calls}
  /\ UNCHANGED <<backend, opened, upsets>>

Return ==
  /\ ~mounted /\ Click
  /\ mounted' = TRUE
  /\ calls' = calls \cup {Call("load", w) : w \in {opened} \ {None}}
  /\ UNCHANGED <<backend, opened, page, wires, upsets>>

-----------------------------------------------------------------------------
(* Drawing and saving.                                                     *)

Draw ==
  /\ OnPage
  /\ canvas' = [canvas EXCEPT !.at = clicks']
  /\ UNCHANGED <<backend, frame, wf, panel, verdict, wires, calls, upsets>>

Writes(w) == {c \in calls : c.kind \in {"save", "validate"} /\ c.wf = w}

\* A PATCH of the graph of w: two that are in flight together are not alone.
SendWrite(kind, w) ==
  calls' = {[c EXCEPT !.alone = FALSE] : c \in Writes(w)} \cup (calls \ Writes(w))
           \cup {[Call(kind, w) EXCEPT !.drawing = canvas, !.alone = Writes(w) = {}]}

\* Mutant of Save: it saves to the workflow that was asked for.
SaveOpened ==
  /\ OnPage
  /\ SendWrite("save", opened)
  /\ verdict' = "none"
  /\ UNCHANGED <<backend, frame, wf, canvas, panel, wires, upsets>>

Save ==
  /\ OnPage
  /\ SendWrite("save", wf)
  /\ verdict' = "none"
  /\ UNCHANGED <<backend, frame, wf, canvas, panel, wires, upsets>>

\* Mutant of Validate: it asks without saving.
ValidateStored ==
  /\ OnPage
  /\ calls' = calls \cup {[Call("validate", wf) EXCEPT !.drawing = canvas, !.at = "checking"]}
  /\ verdict' = "none"
  /\ UNCHANGED <<backend, frame, wf, canvas, panel, wires, upsets>>

\* Validate saves what is on screen, and then asks about what is stored.
Validate ==
  /\ OnPage
  /\ SendWrite("validate", wf)
  /\ verdict' = "none"
  /\ UNCHANGED <<backend, frame, wf, canvas, panel, wires, upsets>>

\* saveSchedule: another PATCH, whose answer becomes the workflow shown.
Schedule ==
  /\ OnPage
  /\ calls' = calls \cup {Call("schedule", wf)}
  /\ UNCHANGED <<backend, frame, page, wires, upsets>>

Delete(w) ==
  /\ mounted /\ Click
  /\ w \in born /\ (~Listed => w = wf)
  /\ calls' = calls \cup {[Call("delete", w) EXCEPT !.shown = wf = w]}
  /\ UNCHANGED <<backend, frame, page, wires, upsets>>

-----------------------------------------------------------------------------
(* Running.                                                                *)

\* start: the panel is cleared before createRun; the old socket stays open.
Start ==
  /\ OnPage
  /\ hud # "running"
  /\ Room("start", Cardinality({r \in RunIds : runs[r].wf = None}))
  /\ hud' = "running" /\ asker' = 0
  /\ calls' = calls \cup {Call("start", wf)}
  /\ UNCHANGED <<backend, frame, wf, canvas, run, verdict, wires, upsets>>

\* Mutant of StartAnswered: the old socket is not closed.
StartAnsweredBoth(c) ==
  /\ run' = IF c.gone THEN run ELSE c.run
  /\ sockets' = [sockets EXCEPT
                   ![c.run].state = IF c.gone THEN "leaked" ELSE "open"]
  /\ ws' = IF c.gone THEN ws ELSE c.run
  /\ UNCHANGED <<frame, wf, canvas, hud, asker, verdict, upsets>>

\* createRun is answered: its socket replaces the one of wsRef.
StartAnswered(c) ==
  /\ run' = IF c.gone THEN run ELSE c.run
  /\ sockets' = [CloseSocket(IF c.gone THEN 0 ELSE ws) EXCEPT
                   ![c.run].state = IF c.gone THEN "leaked" ELSE "open"]
  /\ ws' = IF c.gone THEN ws ELSE c.run
  /\ UNCHANGED <<frame, wf, canvas, hud, asker, verdict, upsets>>

\* sendReply, from the box that waiting_human shows.
Reply ==
  /\ OnPage
  /\ hud = "waiting_human" /\ run # 0
  /\ hud' = "running"
  /\ calls' = calls \cup {[Call("reply", wf) EXCEPT !.run = run, !.asked = asker]}
  /\ UNCHANGED <<backend, frame, wf, canvas, run, asker, verdict, wires, upsets>>

\* Mutant of Shows: error is not handled.
ShowsNoError == [usage |-> "running", interrupt |-> "waiting_human",
                 completed |-> "completed", error |-> "running"]

\* What the handler of an event makes of hud.status.
Shows == [usage |-> "running", interrupt |-> "waiting_human",
          completed |-> "completed", error |-> "failed"]

\* openRunSocket's handler.  (A leaked socket's events go to a page that is gone.)
Deliver(r) ==
  /\ sockets[r].state = "open" /\ sockets[r].phase # "accepted" /\ sockets[r].queue # <<>>
  /\ LET event == Head(sockets[r].queue)
     IN /\ hud' = Shows[event]
        /\ asker' = IF event = "interrupt" THEN r ELSE asker
        /\ upsets' = upsets \cup {u \in {"crossed"} : event = "interrupt" /\ InFlight("start")}
  /\ sockets' = [sockets EXCEPT ![r].queue = Tail(@)]
  /\ UNCHANGED <<backend, frame, wf, canvas, run, verdict, ws, calls, clicks>>

-----------------------------------------------------------------------------
(* The backend: executions and the socket's server.                        *)

Busy(r) == \E e \in ExecIds : execs[e].run = r

\* asyncio.create_task: the task begins when the loop comes to it.
Spawn(r) ==
  /\ \E e \in ExecIds :
       /\ execs[e] = Idle /\ \A d \in 1 .. e - 1 : execs[d] # Idle
       /\ execs' = [execs EXCEPT ![e] = [run |-> r, at |-> "spawned", event |-> "none"]]
  /\ doubled' = doubled \cup {q \in RunIds : q = r /\ Busy(q)}

\* _set_status and _finalize do nothing to a row that is gone.
Written(r, status) == [runs EXCEPT ![r].status = IF @ = "absent" THEN @ ELSE status]

Happens == events < MaxEvents /\ events' = events + 1

Goes(e, at, event) == execs' = [execs EXCEPT ![e].at = at, ![e].event = event]

\* The row of a run when an event that settles it is emitted.
Leaves == [interrupt |-> "waiting_human", completed |-> "completed", error |-> "failed"]

\* An event is on its way to the socket of its run, or is not and may never be.
Puts(r, event) == [sockets EXCEPT ![r].queue = Append(@, event), ![r].told = TRUE]
Misses(r) ==
  IF sockets[r].state \in {"none", "open"} THEN [sockets EXCEPT ![r].told = FALSE] ELSE sockets

Gone(e) == runs[execs[e].run].status = "absent"

Begin(e) ==
  /\ execs[e].at = "spawned"
  /\ runs' = Written(execs[e].run, "running")
  /\ Goes(e, "works", "none")
  /\ UNCHANGED <<doubled, events, sockets>>

\* token_usage.  (The other events change nothing of the panel.)
Use(e) ==
  /\ execs[e].at = "works"
  /\ Happens
  /\ Goes(e, "tells", "usage")
  /\ UNCHANGED <<runs, doubled, sockets>>

\* The run asks, completes or fails: first the row, in a transaction of its own.
Settle(e) ==
  /\ execs[e].at = "works"
  /\ \E event \in DOMAIN Leaves :
       /\ IF event = "completed" THEN UNCHANGED events ELSE Happens
       /\ runs' = Written(execs[e].run, Leaves[event])
       /\ Goes(e, "tells", event)
  /\ UNCHANGED <<doubled, sockets>>

\* EventBus.emit inserts the event into the log.
Log(e) ==
  LET r == execs[e].run IN
  /\ execs[e].at = "tells" /\ runs[r].status # "absent"
  /\ Goes(e, "logged", execs[e].event)
  /\ sockets' = CASE sockets[r].state \notin {"none", "open"} -> sockets
                  [] sockets[r].state \in {"none", "open"} /\ sockets[r].phase = "accepted" ->
                       Puts(r, execs[e].event)
                  [] OTHER -> Misses(r)
  /\ UNCHANGED <<runs, doubled, events>>

\* Where an execution is after an emission: it works, calls back or ends.
After(e) ==
  CASE execs[e].event = "usage" -> Goes(e, "works", "none")
    [] execs[e].event = "error" -> execs' = [execs EXCEPT ![e] = Idle]
    [] OTHER -> Goes(e, "replies", "none")

\* Only a socket that has subscribed is given the event.
Publish(e) ==
  LET r == execs[e].run IN
  /\ execs[e].at = "logged"
  /\ After(e)
  /\ sockets' = IF sockets[r].phase = "live" THEN Puts(r, execs[e].event) ELSE sockets
  /\ UNCHANGED <<runs, doubled, events>>

\* Executor._event swallows what emit raises, before the event is committed or after.
\* (A usage event that is not committed is as good as none.  The events of a run that
\* was deleted have no row to refer to.)
Swallow(e) ==
  /\ \/ /\ execs[e].at = "tells" /\ (execs[e].event # "usage" \/ Gone(e))
        /\ sockets' = Misses(execs[e].run)
     \/ execs[e].at = "logged" /\ UNCHANGED sockets
  /\ IF Gone(e) THEN UNCHANGED events ELSE Happens
  /\ After(e)
  /\ UNCHANGED <<runs, doubled>>

\* on_reply or on_interrupt: an exception fails the run after all.
CallBack(e) ==
  /\ execs[e].at = "replies"
  /\ \/ execs' = [execs EXCEPT ![e] = Idle] /\ UNCHANGED <<runs, events>>
     \/ /\ Happens
        /\ Goes(e, "tells", "error")
        /\ runs' = Written(execs[e].run, "failed")
  /\ UNCHANGED <<doubled, sockets>>

Execute(e) ==
  /\ \/ Begin(e) \/ Use(e) \/ Settle(e) \/ Log(e) \/ Publish(e) \/ Swallow(e) \/ CallBack(e)
  /\ UNCHANGED <<born, exists, stored, frame, page, ws, calls, clicks, upsets>>

\* Somebody answers in Telegram, which asks for a run whose row is waiting.
Approve(r) ==
  /\ Click
  /\ runs[r].status = "waiting_human"
  /\ Spawn(r)
  /\ UNCHANGED <<born, exists, stored, runs, events, frame, page, wires, calls, upsets>>

\* ws_run reads the history and sends it.
Replay(r) ==
  /\ sockets[r].state = "open" /\ sockets[r].phase = "accepted"
  /\ sockets' = [sockets EXCEPT ![r].phase = "replayed",
                                ![r].queue = IF runs[r].status = "absent" THEN <<>> ELSE @]
  /\ UNCHANGED <<backend, frame, page, ws, calls, clicks, upsets>>

\* ... and subscribes when it has sent it: what was published meanwhile it never sees.
Subscribe(r) ==
  /\ sockets[r].state = "open" /\ sockets[r].phase = "replayed"
  /\ sockets' = [sockets EXCEPT ![r].phase = "live"]
  /\ UNCHANGED <<backend, frame, page, ws, calls, clicks, upsets>>

-----------------------------------------------------------------------------
(* The backend: requests.                                                  *)

Runs(w) == {r \in RunIds : runs[r].wf = w /\ runs[r].status # "absent"}

\* c becomes d, the rest of the requests stay.
Becomes(c, d) == calls' = (calls \ {c}) \cup {d}

Served(c) == Becomes(c, [c EXCEPT !.at = "served"])

\* A request about a row that is gone is refused.
Refuse(c) ==
  /\ c.at \in {"sent", "checking"}
  /\ \/ c.kind \in {"load", "save", "validate", "schedule", "start"} /\ c.wf \notin exists
     \/ c.kind = "reply" /\ runs[c.run].status = "absent"
  /\ Becomes(c, [c EXCEPT !.at = "refused"])
  /\ upsets' = upsets \cup {"failed"}
  /\ UNCHANGED backend

ServeLoad(c) ==
  /\ c.kind = "load" /\ c.wf \in exists
  /\ Becomes(c, [c EXCEPT !.at = "served", !.drawing = stored[c.wf]])
  /\ UNCHANGED <<backend, upsets>>

ServeWrite(c) ==
  /\ c.kind \in {"save", "validate"} /\ c.wf \in exists
  /\ stored' = [stored EXCEPT ![c.wf] = c.drawing]
  /\ Served(c)
  /\ UNCHANGED <<born, exists, work, upsets>>

ServeSchedule(c) ==
  /\ c.kind = "schedule" /\ c.wf \in exists
  /\ Served(c)
  /\ UNCHANGED <<backend, upsets>>

\* Whatever the status, api.deleteWorkflow does not look at it.
ServeDelete(c) ==
  /\ c.kind = "delete"
  /\ exists' = exists \ {c.wf}
  /\ runs' = [r \in RunIds |-> IF r \in Runs(c.wf) THEN [runs[r] EXCEPT !.status = "absent"]
                               ELSE runs[r]]
  /\ upsets' = upsets \cup {u \in {"failed"} : Runs(c.wf) # {}}
  /\ Served(c)
  /\ UNCHANGED <<born, stored, execs, doubled, events>>

\* Mutant of ServeCreate: the id may be given again.
ServeCreateAgain(c) ==
  /\ c.kind = "create"
  /\ \E w \in Workflows \ born :
       /\ exists' = exists \cup {w}
       /\ Becomes(c, [c EXCEPT !.at = "served", !.wf = w])
  /\ UNCHANGED <<born, stored, work, upsets>>

ServeCreate(c) ==
  /\ c.kind = "create"
  /\ \E w \in Workflows \ born :
       /\ born' = born \cup {w} /\ exists' = exists \cup {w}
       /\ Becomes(c, [c EXCEPT !.at = "served", !.wf = w])
  /\ UNCHANGED <<stored, work, upsets>>

\* create_run commits the row and answers; the execution begins later.
ServeStart(c) ==
  /\ c.kind = "start" /\ c.wf \in exists
  /\ \E r \in RunIds :
       /\ runs[r].wf = None /\ \A q \in 1 .. r - 1 : runs[q].wf # None
       /\ runs' = [runs EXCEPT ![r].wf = c.wf, ![r].status = "pending"]
       /\ Spawn(r)
       /\ Becomes(c, [c EXCEPT !.at = "served", !.run = r])
  /\ UNCHANGED <<born, exists, stored, events, upsets>>

\* resume_run asks neither for the status nor whether the run is being executed, and
\* answers before the row is running again.
ServeReply(c) ==
  /\ c.kind = "reply" /\ runs[c.run].status # "absent"
  /\ Spawn(c.run)
  /\ Served(c)
  /\ UNCHANGED <<born, exists, stored, runs, events, upsets>>

Serve(c) ==
  /\ \/ Refuse(c)
     \/ /\ c.at = "sent"
        /\ \/ ServeLoad(c) \/ ServeWrite(c) \/ ServeSchedule(c) \/ ServeDelete(c)
           \/ ServeCreate(c) \/ ServeStart(c) \/ ServeReply(c)
  /\ UNCHANGED <<frame, page, wires, clicks>>

-----------------------------------------------------------------------------
(* Answers.                                                                *)

\* What save and validate say is about the drawing sent; is it about the one stored?
Told(c) == CASE ~c.alone -> "overlapped"
             [] c.alone /\ stored[c.wf] = c.drawing -> "right"
             [] OTHER -> "wrong"

\* The PATCH of validate is answered and the check is sent.
Check(c) ==
  /\ c.kind = "validate" /\ c.at = "served"
  /\ Becomes(c, [c EXCEPT !.at = "checking"])
  /\ UNCHANGED <<backend, frame, page, wires, clicks, upsets>>

\* The check reads the row and is answered.
Checked(c) ==
  /\ c.kind = "validate" /\ c.at = "checking" /\ c.wf \in exists
  /\ calls' = calls \ {c}
  /\ verdict' = IF c.gone THEN verdict ELSE Told(c)
  /\ UNCHANGED <<backend, frame, wf, canvas, panel, wires, clicks, upsets>>

\* setWf(null) if the workflow of the click was the one deleted.
DeleteAnswered(c) ==
  /\ wf' = IF c.shown /\ ~c.gone THEN None ELSE wf
  /\ UNCHANGED <<frame, canvas, panel, verdict, wires, upsets>>

\* setWf(updated), although another workflow may be on the canvas by now.
ScheduleAnswered(c) ==
  /\ wf' = IF c.gone THEN wf ELSE c.wf
  /\ upsets' = upsets \cup {u \in {"title"} : ~c.gone /\ canvas.of # c.wf}
  /\ UNCHANGED <<frame, canvas, panel, verdict, wires>>

SaveAnswered(c) ==
  /\ verdict' = IF c.gone THEN verdict ELSE Told(c)
  /\ UNCHANGED <<frame, wf, canvas, panel, wires, upsets>>

Answered(c) ==
  /\ c.at = "served" /\ c.kind \notin {"validate", "create"}
  /\ calls' = calls \ {c}
  /\ CASE c.kind = "load" /\ ~c.gone -> LoadAnswered(c)
       [] c.kind = "start" -> StartAnswered(c)
       [] c.kind = "delete" -> DeleteAnswered(c)
       [] c.kind = "schedule" -> ScheduleAnswered(c)
       [] c.kind = "save" -> SaveAnswered(c)
       [] OTHER -> UNCHANGED <<frame, page, wires, upsets>>
  /\ UNCHANGED <<backend, clicks>>

\* onOpen belongs to App.tsx and works from wherever the user is.
Created(c) ==
  /\ c.kind = "create" /\ c.at = "served"
  /\ clicks' = clicks
  /\ GoTo(c.wf, calls \ {c})
  /\ UNCHANGED <<backend, page, ws, upsets>>

\* A promise that is rejected: only save shows it.
Rejected(c) ==
  /\ c.at = "refused"
  /\ calls' = calls \ {c}
  /\ verdict' = IF c.kind = "save" /\ ~c.gone THEN "failed" ELSE verdict
  /\ UNCHANGED <<backend, frame, wf, canvas, panel, wires, clicks, upsets>>

\* A request is lost on its way, or its answer is, or the backend raises.
Lose(c) ==
  /\ "call" \in Faults /\ Happens
  /\ c.at \in {"sent", "served", "checking"}
  /\ Becomes(c, [c EXCEPT !.at = "refused"])
  /\ upsets' = upsets \cup {"failed"}
  /\ UNCHANGED <<born, exists, stored, runs, execs, doubled, frame, page, wires, clicks>>

\* The connection breaks; nobody connects again.
Break(r) ==
  /\ "socket" \in Faults /\ Happens
  /\ sockets[r].state = "open"
  /\ sockets' = CloseSocket(r)
  /\ upsets' = upsets \cup {"failed"}
  /\ UNCHANGED <<born, exists, stored, runs, execs, doubled, frame, page, ws, calls, clicks>>

-----------------------------------------------------------------------------

User ==
  \/ \E w \in Workflows : Open(w) \/ Delete(w)
  \/ Create \/ Leave \/ Return \/ Draw \/ Save \/ Validate \/ Schedule \/ Start \/ Reply

Proceed(c) == Serve(c) \/ Check(c) \/ Checked(c) \/ Answered(c) \/ Created(c) \/ Rejected(c)

Hear(r) == Replay(r) \/ Subscribe(r) \/ Deliver(r)

Next ==
  \/ User
  \/ \E c \in calls : Proceed(c) \/ Lose(c)
  \/ \E e \in ExecIds : Execute(e)
  \/ \E r \in RunIds : Hear(r) \/ Approve(r) \/ Break(r)

Spec == Init /\ [][Next]_vars

(* Every request is answered or refused, every execution goes on until it ends, and
   so does the socket while it has something to tell.  The user need do nothing. *)
FairSpec ==
  /\ Spec
  /\ \A i \in 1 .. MaxClicks : WF_vars(\E c \in calls : c.id = i /\ Proceed(c))
  /\ \A e \in ExecIds : WF_vars(Execute(e))
  /\ \A r \in RunIds : WF_vars(Hear(r))

-----------------------------------------------------------------------------
(* Properties.                                                             *)

CallType ==
  [id : Nat, kind : Kinds, wf : Workflows \cup {None}, run : RunIds \cup {0}, drawing : Drawings,
   alone : BOOLEAN, shown : BOOLEAN, asked : RunIds \cup {0},
   at : {"sent", "served", "checking", "refused"}, gone : BOOLEAN]

Events == {"usage"} \cup DOMAIN Leaves
ExecType ==
  [run : RunIds \cup {0}, at : {"idle", "spawned", "works", "tells", "logged", "replies"},
   event : Events \cup {"none"}]
SocketType ==
  [state : {"none", "open", "closed", "leaked"}, phase : {"accepted", "replayed", "live"},
   queue : Seq(Events), told : BOOLEAN]

(* The values the rows, the executions, the page, the sockets and the requests have. *)
TypeOK ==
  /\ exists \subseteq born /\ born \subseteq Workflows
  /\ mounted \in BOOLEAN /\ opened \in Workflows \cup {None}
  /\ wf \in Workflows \cup {None}
  /\ ws \in RunIds \cup {0} /\ run \in RunIds \cup {0} /\ asker \in RunIds \cup {0}
  /\ execs \in [ExecIds -> ExecType]
  /\ doubled \subseteq RunIds
  /\ sockets \in [RunIds -> SocketType]
  /\ calls \subseteq CallType
  /\ upsets \subseteq Upsets

(* Of all the runs started from one page, at most one feeds the panel: the socket that
   wsRef holds.  start, the effect and its cleanup race for wsRef across awaits. *)
OneSocket == \A r \in RunIds : sockets[r].state = "open" => r = ws

(* However loads, creations and saves overtake each other, a workflow is only ever
   overwritten with a drawing of its own: save takes the id and the drawing from one
   render, and a load sets both.  saveSchedule sets the id alone. *)
SavesStayHome == "title" \notin upsets => \A w \in Workflows : stored[w].of = w

(* What validate (and save) reports is about the drawing that was on screen at the
   click, unless another write of the workflow was in flight with it. *)
VerdictOnScreen == verdict # "wrong"

(* When nothing of the run of the panel is under way and its socket was told the last
   of its events, the panel shows the status of its row, whatever was opened, started,
   answered or asked in between.  Not so, in this code, when the last event could not
   be logged, fell between the history and the subscription, or two executions of the
   run settled it at a time (a reply here and another one in Telegram). *)
PanelSettles ==
  (/\ mounted /\ ~Listed /\ run # 0 /\ "failed" \notin upsets
   /\ ~InFlight("start") /\ ~InFlight("reply") /\ ~Busy(run)
   /\ sockets[run].state = "open" /\ sockets[run].queue = <<>> /\ sockets[run].told
   /\ run \notin doubled)
  => hud = runs[run].status

(* A reply typed under a question goes to the run that asked it ("resumes the same
   run"), except for a question that arrives while the next run is being created. *)
ReplyReachesAsker ==
  "crossed" \notin upsets => \A c \in calls : c.kind = "reply" => c.asked = c.run

\* The run whose socket feeds the panel has settled, and the socket is never told.
Missed == ws # 0 /\ ~InFlight("start") /\ ~Busy(ws) /\ ~sockets[ws].told

(* start sets running before it has a run, and only an event of its socket takes it
   back: the Run button, disabled meanwhile, comes back, or the page is left, or the
   event that would bring it back was lost. *)
RunButtonReturns ==
  (mounted /\ ~Listed /\ hud = "running")
  ~> (~mounted \/ Listed \/ hud # "running" \/ "failed" \in upsets \/ Missed)
=============================================================================
