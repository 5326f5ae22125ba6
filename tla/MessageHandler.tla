--------------------------- MODULE MessageHandler ---------------------------
(***************************************************************************)
(* One message handler and its ports: MessageHandler                       *)
(* (runtime/vm/message_handler.cc), MessageQueue (message.cc) and PortMap  *)
(* (port.cc), with what IsolateMessageHandler (isolate.cc) and             *)
(* NativeMessageHandler do in their virtual methods, and the ways a        *)
(* handler is shut down and deleted.                                       *)
(*                                                                         *)
(* Anybody may post to a port at any time.  The handler has one queue of   *)
(* events and one of out-of-band (control) messages; a task on the thread  *)
(* pool drains them and exists only while there is something to do.        *)
(*                                                                         *)
(* Granularity.  One step is the code between two points at which the      *)
(* thread takes or gives up monitor_.  The handler's thread has monitor_   *)
(* while pc is in Locked.  A poster keeps PortMap::mutex_ from the lookup  *)
(* of the port to the end of the notification.                             *)
(*                                                                         *)
(* Left out: PauseAndHandleAllMessages and start callbacks (only unit      *)
(* tests use them), AcquiredQueues (the service's listing of the queues),  *)
(* pause requests by the debugger, and messages posted during Dart_Cleanup *)
(* (the API ends posting before it), so the pool accepts every task.       *)
(***************************************************************************)
EXTENDS Naturals, Sequences, FiniteSets

CONSTANTS
  Messages,      \* the messages, each posted at most once
  Type,          \* what each message is
  Dest,          \* the port each message is posted to
  Cap,           \* the resume capability in a pause or resume message
  Ports,         \* the ports the handler may have
  MainPort,      \* the isolate's main port, which does not keep it alive
  Handlers,      \* the handlers to look at
  None           \* no message

EventTypes ==
  { "event",         \* handled by code that returns
    "loop" }         \* handled by Dart code that does not return by itself

ControlTypes ==
  { "pause", "resume",
    "service_resume",  \* the service protocol's resume request
    "kill",            \* Isolate.kill, immediate
    "kill_before",     \* Isolate.kill, before the next event
    "kill_as_event",   \* kKillMsg with kAsEventAction
    "vm_kill" }        \* kInternalKillMsg

IsEvent(m) == Type[m] \in EventTypes

\* How a handler starts and what is sent to it.
HandlerSet ==
  [ isolate : BOOLEAN,         \* IsolateMessageHandler or NativeMessageHandler
    pool : BOOLEAN,            \* Run is called, or the embedder handles messages
    pause_on_start : BOOLEAN,
    pause_on_exit : BOOLEAN,
    open : SUBSET Ports,       \* the ports it has at first
    unborn : SUBSET Ports,     \* those it may open
    messages : SUBSET Messages ]

ASSUME HandlerAssumption ==
  /\ IsFiniteSet(Messages) /\ None \notin Messages
  /\ Type \in [Messages -> EventTypes \cup ControlTypes]
  /\ Dest \in [Messages -> Ports]
  /\ Handlers \subseteq HandlerSet
  /\ \A h \in Handlers :
       ~h.isolate => h.pool /\ \A m \in h.messages : Type[m] = "event"

VARIABLES
  handler,         \* the handler looked at; it does not change
  ports,           \* whether each port is unborn, open or closed
  mutex,           \* the message whose poster has PortMap::mutex_, or None
  post,            \* how far the posting of each message is
  queue, oob_queue,
  resume_caps,     \* the isolate's resume capabilities
  paused,          \* paused_
  should_pause_on_start, should_pause_on_exit,
  is_paused_on_start, is_paused_on_exit,
  remembered,      \* remembered_paused_on_exit_status_
  task_running, delete_me,
  pool,            \* pool_ # nullptr
  tasks,           \* MessageHandlerTasks waiting in the pool
  callbacks,       \* message_notify_callbacks not yet answered
  interrupt,       \* kMessageInterrupt is set in the mutator's stack limit
  pc,              \* where the thread that runs the handler is
  status,          \* TaskCallback's status
  frames,          \* the calls of HandleMessages in progress, innermost first
  closer,          \* the thread in Dart_CloseNativePort
  deleted,         \* how often the handler has been deleted
  handled          \* history: the events and kills that took effect

map == <<handler, ports, mutex, post>>
queues == <<queue, oob_queue>>
pauses == <<resume_caps, paused>>
should == <<should_pause_on_start, should_pause_on_exit>>
is == <<is_paused_on_start, is_paused_on_exit, remembered>>
task == <<task_running, pool, tasks>>
notes == <<callbacks, interrupt>>
close == <<delete_me, closer, deleted>>
thread == <<pc, status, frames>>
vars == <<map, queues, pauses, should, is, task, notes, close, thread, handled>>

\* MessageStatus; kOK < kError < kShutdown.
kOK == 0
kError == 1
kShutdown == 2

-----------------------------------------------------------------------------
(* MessageQueue *)

\* Delayed control messages are in the queue of events under kIllegalPort.
IllegalPort(m) == ~IsEvent(m)

\* How many messages at the head of q are delayed control messages.
Leading(q) ==
  Cardinality({i \in 1..Len(q) : \A j \in 1..i : IllegalPort(q[j])})

EnqueueBefore(q, m) ==
  SubSeq(q, 1, Leading(q)) \o <<m>> \o SubSeq(q, Leading(q) + 1, Len(q))

-----------------------------------------------------------------------------
(* The handler's state *)

\* The sections of HandleMessages and TaskCallback that are under monitor_
\* and are not a single step with the one that follows.
Locked == {"return", "resume", "main", "exit"}

MonitorFree == pc \notin Locked

IsIsolate == handler.isolate

OnPool == handler.pool

ShouldPauseOnStart(s) == IsIsolate /\ s # kShutdown /\ should_pause_on_start

ShouldPauseOnExit(s) == IsIsolate /\ s # kShutdown /\ should_pause_on_exit

HasLivePorts == \E p \in Ports \ {MainPort} : ports[p] = "open"

\* Native callables keep an isolate alive like receive ports, and Dart code opens and
\* closes them like ports (HasOpenNativeCallables): a port to which no message is
\* posted stands for one.
KeepAlive == ~delete_me /\ (IsIsolate => HasLivePorts)

top == frames[1]

Init ==
  /\ handler \in Handlers
  /\ ports = [p \in Ports |-> IF p \in handler.open THEN "open"
                              ELSE IF p \in handler.unborn THEN "unborn"
                              ELSE "closed"]
  /\ mutex = None
  /\ post = [m \in Messages |-> "new"]
  /\ queue = <<>> /\ oob_queue = <<>>
  /\ resume_caps = {} /\ paused = 0
  /\ should_pause_on_start = handler.pause_on_start
  /\ should_pause_on_exit = handler.pause_on_exit
  /\ is_paused_on_start = FALSE /\ is_paused_on_exit = FALSE
  /\ remembered = kOK
  /\ task_running = FALSE /\ pool = FALSE /\ tasks = 0
  /\ callbacks = 0 /\ interrupt = FALSE
  /\ delete_me = FALSE /\ closer = "open" /\ deleted = 0
  /\ pc = "new" /\ status = kOK /\ frames = <<>>
  /\ handled = {}

\* Run: a task is started whether or not there are messages already.
Run ==
  /\ OnPool /\ pc = "new"
  /\ pool' = TRUE /\ task_running' = TRUE /\ tasks' = tasks + 1
  /\ pc' = "idle"
  /\ UNCHANGED <<map, queues, pauses, should, is, notes, close, status, frames,
                 handled>>

-----------------------------------------------------------------------------
(* Posting *)

\* PostMessage's section under monitor_, for a message already enqueued.
(* Fault: a task is started only for an event. *)
StartTask_Fault(m) ==
  /\ task_running' = (task_running \/ (pool /\ IsEvent(m)))
  /\ tasks' = IF pool /\ ~task_running /\ IsEvent(m) THEN tasks + 1 ELSE tasks
  /\ UNCHANGED pool
StartTask(m) ==
  /\ task_running' = (task_running \/ pool)
  /\ tasks' = IF pool /\ ~task_running THEN tasks + 1 ELSE tasks
  /\ UNCHANGED pool

\* ScheduleInterrupts: nothing is set without a mutator thread, and the thread
\* of an isolate that nobody runs may or may not have been kept.
(* Fault: control messages do not interrupt a busy mutator. *)
ScheduleInterrupts_Fault(oob) == UNCHANGED interrupt
ScheduleInterrupts(oob) ==
  IF ~oob THEN UNCHANGED interrupt
  ELSE IF frames # <<>> THEN interrupt' = TRUE
  ELSE interrupt' \in BOOLEAN

(* Fault: a callback is not made while another is unanswered. *)
MessageNotify_Fault(oob) ==
  /\ ScheduleInterrupts(oob)
  /\ callbacks' = IF IsIsolate /\ ~OnPool THEN 1 ELSE callbacks
MessageNotify(oob) ==
  /\ ScheduleInterrupts(oob)
  /\ callbacks' = IF IsIsolate /\ ~OnPool THEN callbacks + 1 ELSE callbacks

\* PortMap::PostMessage takes the mutex and looks the port up.
PostLookup(m) ==
  /\ m \in handler.messages /\ post[m] = "new" /\ mutex = None
  /\ \/ /\ ports[Dest[m]] = "open"
        /\ mutex' = m /\ post' = [post EXCEPT ![m] = "found"]
     \/ /\ ports[Dest[m]] = "closed"
        /\ post' = [post EXCEPT ![m] = "refused"] /\ UNCHANGED mutex
  /\ UNCHANGED <<handler, ports, queues, pauses, should, is, task, notes, close,
                 thread, handled>>

\* MessageHandler::PostMessage, under monitor_.
PostEnqueue(m) ==
  /\ post[m] = "found" /\ MonitorFree
  /\ post' = [post EXCEPT ![m] = "queued"]
  /\ IF IsEvent(m)
       THEN queue' = Append(queue, m) /\ UNCHANGED oob_queue
       ELSE oob_queue' = Append(oob_queue, m) /\ UNCHANGED queue
  /\ StartTask(m)
  /\ UNCHANGED <<handler, ports, mutex, pauses, should, is, notes, close, thread,
                 handled>>

\* MessageNotify, and PortMap::PostMessage gives up the mutex.
PostNotify(m) ==
  /\ post[m] = "queued"
  /\ post' = [post EXCEPT ![m] = "posted"]
  /\ mutex' = None
  /\ MessageNotify(~IsEvent(m))
  /\ UNCHANGED <<handler, ports, queues, pauses, should, is, task, close, thread,
                 handled>>

-----------------------------------------------------------------------------
(* HandleMessages *)

\* A call of HandleMessages; monitor_ is given up while the isolate is entered.
Call(c, normal, multiple) ==
  /\ frames' = <<[caller |-> c, normal |-> normal, multiple |-> multiple,
                  max |-> kOK, msg |-> None, oob |-> FALSE, status |-> kOK]>>
               \o frames
  /\ pc' = "enter"

\* The minimum priority lets events through.
(* Fault: the count of pause requests is not looked at. *)
AllowEvents_Fault(f) == f.max = kOK /\ f.normal
(* Fault: an error does not stop the handling of events. *)
AllowEvents_Error(f) == f.normal /\ paused = 0
AllowEvents(f) == f.max = kOK /\ f.normal /\ paused = 0

\* DequeueMessage for the call described by f, which returns when there is
\* no message for it.
Dequeue(f) ==
  LET Take(m, o) ==
        frames' = [frames EXCEPT ![1] = [f EXCEPT !.msg = m, !.oob = o]]
  IN  \/ /\ oob_queue # <<>>
         /\ Take(Head(oob_queue), TRUE) /\ oob_queue' = Tail(oob_queue)
         /\ pc' = "handle" /\ UNCHANGED queue
      \/ /\ oob_queue = <<>> /\ AllowEvents(f) /\ queue # <<>>
         /\ Take(Head(queue), FALSE) /\ queue' = Tail(queue)
         /\ pc' = "handle" /\ UNCHANGED oob_queue
      \/ /\ oob_queue = <<>> /\ (AllowEvents(f) => queue = <<>>)
         /\ Take(None, FALSE) /\ pc' = "return" /\ UNCHANGED queues

Enter ==
  /\ pc = "enter"
  /\ Dequeue(top)
  /\ UNCHANGED <<map, pauses, should, is, task, notes, close, status, handled>>

\* HandleMessage returns s.
HandleReturns(s) ==
  /\ frames' = [frames EXCEPT ![1].status = s]
  /\ pc' = "handled"

\* HandleMessage has returned, and monitor_ is taken again.
Handled ==
  LET f == [top EXCEPT !.max = IF top.status > top.max THEN top.status ELSE top.max,
                       !.normal = top.normal /\ (top.oob \/ top.multiple)]
  IN  /\ pc = "handled"
      /\ \/ /\ top.status = kShutdown
            /\ oob_queue' = <<>>
            /\ frames' = [frames EXCEPT ![1] = f]
            /\ pc' = "return" /\ UNCHANGED queue
         \/ top.status # kShutdown /\ Dequeue(f)
      /\ UNCHANGED <<map, pauses, should, is, task, notes, close, status, handled>>

-----------------------------------------------------------------------------
(* HandleMessage *)

\* An event is given to the Dart code that has the port, or to the native
\* port's function; Dart finds no closure for a port that is closed.
Dropped(m) == IsIsolate /\ ports[Dest[m]] = "closed"

HandleEvent ==
  /\ pc = "handle" /\ IsEvent(top.msg)
  /\ \/ Dropped(top.msg) /\ HandleReturns(kOK) /\ UNCHANGED handled
     \/ /\ ~Dropped(top.msg)
        /\ handled' = handled \cup {top.msg}
        /\ pc' = "running" /\ UNCHANGED frames
  /\ UNCHANGED <<map, queues, pauses, should, is, task, notes, close, status>>

\* The Dart or native code returns; an uncaught error of Dart code is fatal.
EventReturns ==
  /\ pc = "running" /\ Type[top.msg] = "event"
  /\ \E s \in {kOK} \cup (IF IsIsolate THEN {kError} ELSE {}) : HandleReturns(s)
  /\ UNCHANGED <<map, queues, pauses, should, is, task, notes, close, status,
                 handled>>

\* Dart code opens (CreateReceivePort) or closes (CloseReceivePort) a port.
OpenPort(p) ==
  /\ pc = "running" /\ IsIsolate /\ mutex = None
  /\ ports[p] = "unborn" /\ ports' = [ports EXCEPT ![p] = "open"]
  /\ UNCHANGED <<handler, mutex, post, queues, pauses, should, is, task, notes, close,
                 thread, handled>>

ClosePort(p) ==
  /\ pc = "running" /\ IsIsolate /\ mutex = None
  /\ p # MainPort
  /\ ports[p] = "open" /\ ports' = [ports EXCEPT ![p] = "closed"]
  /\ UNCHANGED <<handler, mutex, post, queues, pauses, should, is, task, notes, close,
                 thread, handled>>

\* Thread::HandleInterrupts in running Dart code calls HandleOOBMessages.
Interrupt ==
  /\ pc = "running" /\ IsIsolate /\ interrupt
  /\ interrupt' = FALSE
  /\ Call("interrupt", FALSE, FALSE)
  /\ UNCHANGED <<map, queues, pauses, should, is, task, callbacks, close, status,
                 handled>>

HandlePause ==
  /\ pc = "handle" /\ Type[top.msg] = "pause"
  /\ resume_caps' = resume_caps \cup {Cap[top.msg]}
  /\ paused' = IF Cap[top.msg] \in resume_caps THEN paused ELSE paused + 1
  /\ HandleReturns(kOK)
  /\ UNCHANGED <<map, queues, should, is, task, notes, close, status, handled>>

(* Fault: a resume with an unknown capability is counted. *)
RemoveResumeCapability_Fault(c) ==
  resume_caps' = resume_caps \ {c} /\ paused' = paused - 1
RemoveResumeCapability(c) ==
  /\ resume_caps' = resume_caps \ {c}
  /\ paused' = IF c \in resume_caps THEN paused - 1 ELSE paused

HandleResume ==
  /\ pc = "handle" /\ Type[top.msg] = "resume"
  /\ RemoveResumeCapability(Cap[top.msg])
  /\ HandleReturns(kOK)
  /\ UNCHANGED <<map, queues, should, is, task, notes, close, status, handled>>

\* The service's Resume.
HandleServiceResume ==
  /\ pc = "handle" /\ Type[top.msg] = "service_resume"
  /\ should_pause_on_start' = FALSE
  /\ should_pause_on_exit' = (should_pause_on_exit /\
       (is_paused_on_start \/ should_pause_on_start \/ ~is_paused_on_exit))
  /\ HandleReturns(kOK)
  /\ UNCHANGED <<map, queues, pauses, is, task, notes, close, status, handled>>

\* A kill that is to be done now: one posted as such, or a delayed one.
KillStatus(m) == IF Type[m] = "vm_kill" THEN kShutdown ELSE kError

HandleKill ==
  /\ pc = "handle"
  /\ \/ Type[top.msg] \in {"kill", "vm_kill"}
     \/ Type[top.msg] \in {"kill_before", "kill_as_event"} /\ ~top.oob
  /\ HandleReturns(KillStatus(top.msg))
  /\ handled' = handled \cup {top.msg}
  /\ UNCHANGED <<map, queues, pauses, should, is, task, notes, close, status>>

\* A delayed kill is posted again, to the queue of events.
DelayKill ==
  LET m == top.msg
  IN  /\ pc = "handle" /\ Type[m] \in {"kill_before", "kill_as_event"} /\ top.oob
      /\ queue' = IF Type[m] = "kill_before" THEN EnqueueBefore(queue, m)
                                             ELSE Append(queue, m)
      /\ StartTask(m)
      /\ MessageNotify(FALSE)
      /\ HandleReturns(kOK)
      /\ UNCHANGED <<map, oob_queue, pauses, should, is, close, status, handled>>

-----------------------------------------------------------------------------
(* TaskCallback *)

\* The task ends without ending the handler.
TaskEnds ==
  /\ task_running' = FALSE /\ pc' = "idle"
  /\ UNCHANGED <<pool, tasks>>

TaskStarts ==
  /\ pc = "idle" /\ tasks > 0
  /\ tasks' = tasks - 1
  /\ status' = kOK
  /\ \/ /\ ShouldPauseOnStart(kOK) /\ ~is_paused_on_start
        /\ pc' = "notify_start" /\ UNCHANGED frames
     \/ /\ ShouldPauseOnStart(kOK) /\ is_paused_on_start
        /\ Call("start", FALSE, FALSE)
     \/ /\ ~ShouldPauseOnStart(kOK)
        /\ pc' = "resume" /\ UNCHANGED frames
  /\ UNCHANGED <<map, queues, pauses, should, is, task_running, pool, notes, close,
                 handled>>

\* PausedOnStartLocked; the service event is posted without the monitor.
NotifyPauseOnStart ==
  /\ pc = "notify_start" /\ mutex = None
  /\ is_paused_on_start' = TRUE
  /\ Call("start", FALSE, FALSE)
  /\ UNCHANGED <<map, queues, pauses, should, is_paused_on_exit, remembered, task,
                 notes, close, status, handled>>

\* HandleMessages returns to the call in TaskCallback for a pause on start.
ReturnStart ==
  /\ pc = "return" /\ top.caller = "start"
  /\ frames' = Tail(frames)
  /\ \/ ShouldPauseOnStart(top.max) /\ TaskEnds /\ UNCHANGED <<is, status>>
     \/ /\ ~ShouldPauseOnStart(top.max)
        /\ is_paused_on_start' = FALSE /\ status' = top.max
        /\ pc' = "resume"
        /\ UNCHANGED <<task, is_paused_on_exit, remembered>>
  /\ UNCHANGED <<map, queues, pauses, should, notes, close, handled>>

Resume ==
  /\ pc = "resume"
  /\ \/ is_paused_on_exit /\ Call("paused_exit", FALSE, FALSE)
     \/ ~is_paused_on_exit /\ pc' = "main" /\ UNCHANGED frames
  /\ UNCHANGED <<map, queues, pauses, should, is, task, notes, close, status,
                 handled>>

\* ... to the call for a pause on exit that an earlier task began.
ReturnPausedExit ==
  /\ pc = "return" /\ top.caller = "paused_exit"
  /\ frames' = Tail(frames)
  /\ \/ ShouldPauseOnExit(top.max) /\ TaskEnds /\ UNCHANGED <<is, status>>
     \/ /\ ~ShouldPauseOnExit(top.max)
        /\ is_paused_on_exit' = FALSE
        /\ status' = IF top.max # kShutdown THEN remembered ELSE top.max
        /\ pc' = "main"
        /\ UNCHANGED <<task, is_paused_on_start, remembered>>
  /\ UNCHANGED <<map, queues, pauses, should, notes, close, handled>>

Main ==
  /\ pc = "main"
  /\ \/ status = kOK /\ Call("main", TRUE, TRUE)
     \/ status # kOK /\ pc' = "exit" /\ UNCHANGED frames
  /\ UNCHANGED <<map, queues, pauses, should, is, task, notes, close, status,
                 handled>>

ReturnMain ==
  /\ pc = "return" /\ top.caller = "main"
  /\ frames' = Tail(frames) /\ status' = top.max
  /\ pc' = "exit"
  /\ UNCHANGED <<map, queues, pauses, should, is, task, notes, close, handled>>

\* The handler ends: pool_ is cleared, and what follows is decided.
HandlerEnds ==
  /\ pool' = FALSE /\ task_running' = FALSE
  /\ pc' = IF IsIsolate THEN "shutdown" ELSE IF delete_me THEN "delete" ELSE "gone"
  /\ UNCHANGED tasks

Exit ==
  /\ pc = "exit"
  /\ \/ status = kOK /\ KeepAlive /\ TaskEnds /\ UNCHANGED remembered
     \/ /\ status # kOK \/ ~KeepAlive
        /\ ShouldPauseOnExit(status)
        /\ remembered' = status /\ pc' = "notify_exit" /\ UNCHANGED task
     \/ /\ status # kOK \/ ~KeepAlive
        /\ ~ShouldPauseOnExit(status)
        /\ HandlerEnds /\ UNCHANGED remembered
  /\ UNCHANGED <<map, queues, pauses, should, is_paused_on_start, is_paused_on_exit,
                 notes, close, status, frames, handled>>

NotifyPauseOnExit ==
  /\ pc = "notify_exit" /\ mutex = None
  /\ is_paused_on_exit' = TRUE
  /\ Call("exit", FALSE, FALSE)
  /\ UNCHANGED <<map, queues, pauses, should, is_paused_on_start, remembered, task,
                 notes, close, status, handled>>

ReturnExit ==
  /\ pc = "return" /\ top.caller = "exit"
  /\ frames' = Tail(frames) /\ status' = top.max
  /\ \/ ShouldPauseOnExit(top.max) /\ TaskEnds /\ UNCHANGED is_paused_on_exit
     \/ /\ ~ShouldPauseOnExit(top.max)
        /\ is_paused_on_exit' = FALSE
        /\ HandlerEnds
  /\ UNCHANGED <<map, queues, pauses, should, is_paused_on_start, remembered, notes,
                 close, handled>>

\* HandleOOBMessages returns to the Dart code that was interrupted, or ends it:
\* the error it leaves is what the event's HandleMessage returns.
ReturnInterrupt ==
  /\ pc = "return" /\ top.caller = "interrupt"
  /\ \/ top.max = kOK /\ frames' = Tail(frames) /\ pc' = "running"
     \/ /\ top.max # kOK
        /\ frames' = [Tail(frames) EXCEPT ![1].status = top.max]
        /\ pc' = "handled"
  /\ UNCHANGED <<map, queues, pauses, should, is, task, notes, close, status,
                 handled>>

-----------------------------------------------------------------------------
(* Without a pool the embedder calls Dart_HandleMessage once per callback. *)

HandleNextMessage ==
  /\ ~OnPool /\ pc \in {"new", "idle"} /\ callbacks > 0
  /\ callbacks' = callbacks - 1
  /\ Call("next", TRUE, FALSE)
  /\ UNCHANGED <<map, queues, pauses, should, is, task, interrupt, close, status,
                 handled>>

ReturnNext ==
  /\ pc = "return" /\ top.caller = "next"
  /\ frames' = Tail(frames)
  /\ pc' = IF top.max = kOK THEN "idle" ELSE "shutdown"
  /\ UNCHANGED <<map, queues, pauses, should, is, task, notes, close, status,
                 handled>>

-----------------------------------------------------------------------------
(* The end of a handler *)

\* The end callback of an isolate: LowLevelShutdown calls PortMap::ClosePorts,
ClosePorts ==
  /\ pc = "shutdown" /\ mutex = None
  /\ ports' = [p \in Ports |-> IF ports[p] = "open" THEN "closed" ELSE ports[p]]
  /\ pc' = "close_all"
  /\ UNCHANGED <<handler, mutex, post, queues, pauses, should, is, task, notes, close,
                 status, frames, handled>>

\* which calls CloseAllPorts,
CloseAllPorts ==
  /\ pc = "close_all"
  /\ queue' = <<>> /\ oob_queue' = <<>>
  /\ pc' = "delete"
  /\ UNCHANGED <<map, pauses, should, is, task, notes, close, status, frames,
                 handled>>

\* and deletes the handler; TaskCallback deletes a native one itself.
Delete ==
  /\ pc = "delete"
  /\ deleted' = deleted + 1
  /\ pc' = "gone"
  /\ UNCHANGED <<map, queues, pauses, should, is, task, notes, delete_me, closer,
                 status, frames, handled>>

\* Dart_CloseNativePort: PortMap::ClosePort, under the mutex.
CloseNativePort ==
  /\ ~IsIsolate /\ closer = "open" /\ pc # "new" /\ mutex = None
  /\ ports' = [p \in Ports |-> "closed"]
  /\ closer' = "closed"
  /\ UNCHANGED <<handler, mutex, post, queues, pauses, should, is, task, notes,
                 delete_me, deleted, thread, handled>>

(* Fault: the handler is deleted without looking for a task. *)
HasTask_Fault == FALSE
HasTask == task_running

RequestDeletion ==
  /\ closer = "closed" /\ MonitorFree
  /\ \/ HasTask /\ delete_me' = TRUE /\ closer' = "done"
     \/ ~HasTask /\ closer' = "delete" /\ UNCHANGED delete_me
  /\ UNCHANGED <<map, queues, pauses, should, is, task, notes, deleted, thread,
                 handled>>

CloserDeletes ==
  /\ closer = "delete"
  /\ deleted' = deleted + 1 /\ closer' = "done"
  /\ UNCHANGED <<map, queues, pauses, should, is, task, notes, delete_me, thread,
                 handled>>

-----------------------------------------------------------------------------
TaskCallback ==
  \/ TaskStarts \/ NotifyPauseOnStart \/ ReturnStart \/ Resume \/ ReturnPausedExit
  \/ Main \/ ReturnMain \/ Exit \/ NotifyPauseOnExit \/ ReturnExit

HandleMessage ==
  \/ HandleEvent \/ EventReturns \/ Interrupt \/ ReturnInterrupt
  \/ HandlePause \/ HandleResume \/ HandleServiceResume \/ HandleKill \/ DelayKill

Shutdown == ClosePorts \/ CloseAllPorts \/ Delete

HandlerStep ==
  \/ Run \/ TaskCallback \/ Enter \/ Handled \/ HandleMessage
  \/ HandleNextMessage \/ ReturnNext \/ Shutdown

PostStep(m) == PostEnqueue(m) \/ PostNotify(m)

CloserStep == RequestDeletion \/ CloserDeletes

Next ==
  \/ HandlerStep
  \/ \E p \in Ports : OpenPort(p) \/ ClosePort(p)
  \/ \E m \in Messages : PostLookup(m) \/ PostStep(m)
  \/ CloseNativePort \/ CloserStep

\* Threads that are inside a function of the handler go on; code that handles
\* an event returns, unless it is a loop.  Nobody has to post or close.
Fairness ==
  /\ WF_vars(HandlerStep)
  /\ \A m \in Messages : WF_vars(PostStep(m))
  /\ WF_vars(CloserStep)

Spec == Init /\ [][Next]_vars /\ Fairness

-----------------------------------------------------------------------------
(* Properties *)

Statuses == {kOK, kError, kShutdown}

Callers == {"start", "paused_exit", "main", "exit", "next", "interrupt"}

Frames == [caller : Callers, normal : BOOLEAN, multiple : BOOLEAN, max : Statuses,
           msg : Messages \cup {None}, oob : BOOLEAN, status : Statuses]

\* The variables have values of their types, and paused_ counts the resume
\* capabilities, so decrement_paused never takes it below zero.
TypeOK ==
  /\ handler \in Handlers
  /\ ports \in [Ports -> {"unborn", "open", "closed"}]
  /\ mutex \in Messages \cup {None}
  /\ post \in [Messages -> {"new", "refused", "found", "queued", "posted"}]
  /\ queue \in Seq(Messages) /\ oob_queue \in Seq(Messages)
  /\ paused = Cardinality(resume_caps)
  /\ {should_pause_on_start, should_pause_on_exit, is_paused_on_start,
      is_paused_on_exit, task_running, delete_me, pool, interrupt} \subseteq BOOLEAN
  /\ {remembered, status} \subseteq Statuses
  /\ tasks \in Nat /\ callbacks \in Nat /\ deleted \in Nat
  /\ pc \in Locked \cup {"new", "idle", "enter", "handle", "running", "handled",
       "notify_start", "notify_exit", "shutdown", "close_all", "delete", "gone"}
  /\ frames \in Seq(Frames) /\ Len(frames) <= 2
  /\ closer \in {"open", "closed", "delete", "done"}
  /\ handled \subseteq Messages

InTask ==
  OnPool /\ pc \in Locked \cup {"enter", "handle", "running", "handled",
                                "notify_start", "notify_exit"}

\* task_running_ is true exactly while one task waits in the pool or runs, so
\* "no other message handler tasks will be started until this one sets
\* task_running_ to false" (TaskCallback).  When no task will come, TaskCallback
\* has left no control message behind, and events only where the isolate is
\* paused: whoever posted later has started a task.  An isolate that is left so
\* still has a port that keeps it alive or is paused by the service.
OneTaskServes ==
  /\ tasks + (IF InTask THEN 1 ELSE 0) = (IF task_running THEN 1 ELSE 0)
  /\ pool /\ ~task_running =>
       /\ oob_queue = <<>>
       /\ queue = <<>> \/ paused > 0 \/ is_paused_on_start \/ is_paused_on_exit
       /\ KeepAlive \/ is_paused_on_start \/ is_paused_on_exit

\* A handler is deleted once, by TaskCallback, by RequestDeletion or by the
\* isolate's shutdown, and then no task, poster or closer still uses it.
NoUseAfterDelete ==
  /\ deleted <= 1
  /\ deleted = 1 => /\ tasks = 0 /\ ~InTask /\ pc # "delete"
                    /\ closer \notin {"closed", "delete"}
                    /\ \A m \in Messages : post[m] \notin {"found", "queued"}

Begins(m) == IsEvent(m) /\ m \in handled' \ handled

\* Control comes first: no event reaches Dart or native code while a pause request
\* is in force or the isolate is paused on start or on exit (AllowEvents,
\* TaskCallback), nor while a kill requested "before the next event" is in the
\* queue, which MessageQueue::Enqueue puts ahead of all events.
ControlComesFirst ==
  [][\A m \in Messages : Begins(m) =>
       /\ paused = 0 /\ ~is_paused_on_start /\ ~is_paused_on_exit
       /\ ~\E i \in 1..Len(queue) : Type[queue[i]] = "kill_before"]_vars

\* No event is handled after an Isolate.kill that took effect.
NoEventAfterKill ==
  [][\A m \in Messages : Begins(m) =>
       \A k \in handled : Type[k] \notin {"kill", "kill_before", "kill_as_event"}]_vars

\* Handlers go away: an isolate that has been sent kInternalKillMsg ends, whatever
\* it is doing (Dart::Cleanup waits for it), paused, idle or in a loop, and a
\* native port that is closed has its handler deleted.
HandlersAreDeleted ==
  /\ \A m \in {x \in Messages : Type[x] = "vm_kill"} :
       post[m] \in {"queued", "posted"} ~> deleted = 1
  /\ closer = "closed" ~> deleted = 1

Halted == paused > 0 \/ is_paused_on_start \/ is_paused_on_exit

Looping == \E i \in DOMAIN frames :
             frames[i].msg # None /\ Type[frames[i].msg] = "loop"

Events == {m \in Messages : IsEvent(m)}

Taken(m) == \A i \in 1..Len(queue) : queue[i] # m

PauseSent == \E m \in Messages : Type[m] = "pause" /\ post[m] # "new"

\* Every event that is accepted is taken from the queue in the end, by the
\* handler or by the isolate's end, unless the isolate stays paused or in a
\* loop; where the embedder handles the messages, as long as nobody pauses the
\* isolate (PostMessage, HandleMessages and TaskCallback).
EventsAreTaken ==
  \A m \in Events :
    post[m] = "posted"
      ~> (Taken(m) \/ (~OnPool /\ PauseSent) \/ [](Halted \/ Looping))

\* What the embedder is told: "to eventually call Dart_HandleMessage once per
\* callback received [...] to process the message" is enough, pauses or not
\* (Dart_MessageNotifyCallback in dart_api.h).
CallbacksSuffice ==
  \A m \in Events :
    post[m] = "posted" ~> (Taken(m) \/ OnPool \/ [](Halted \/ Looping))
=============================================================================
