----------------------------- MODULE ThreadPool -----------------------------
(***************************************************************************)
(* The VM's worker pool: runtime/vm/thread_pool.{h,cc}, with the idle hook  *)
(* of MutatorThreadPool (runtime/vm/isolate.cc).                            *)
(*                                                                         *)
(* A section of code that runs under pool_monitor_ is one action, or, where *)
(* it makes a decision whose outcome other state depends on, a few actions  *)
(* that keep pool_owner set: no other pool action is enabled meanwhile.     *)
(* `waiting' is the wait set of pool_monitor_'s condition variable: a       *)
(* notified, timed-out or spuriously woken worker has left it but must      *)
(* still get the monitor back.                                              *)
(***************************************************************************)
EXTENDS Naturals, Sequences, FiniteSets

CONSTANTS Workers,          \* the Worker objects that may ever be allocated
          Tasks,            \* the tasks that callers hand to Run, each once
          MaxPoolSize,      \* constructor argument, 0 = unlimited
          HasIdleHandler,   \* TRUE for MutatorThreadPool, FALSE for ThreadPool
          Nobody            \* "no owner" of a monitor, "no task" of a worker

ASSUME PoolAssumption ==
  /\ MaxPoolSize \in Nat
  /\ HasIdleHandler \in BOOLEAN
  /\ Nobody \notin Workers \cup Tasks

VARIABLES
  shutting_down, all_workers_dead, max_pool_size,
  idle_workers, running_workers, dead_workers,     \* WorkerLists, as sets
  count_idle, count_running, count_dead,
  tasks, pending_tasks,
  pool_owner,   \* holder of pool_monitor_ between actions, or Nobody
  waiting,      \* workers in the wait set of pool_monitor_
  timed_out,    \* workers whose last wait returns kTimedOut
  is_blocked,   \* workers with is_blocked_ set
  pc,           \* where each worker's thread is
  current,      \* the task a worker runs
  join_list,    \* a worker's dead_workers_to_join
  task_state,   \* life of a task object: who owns it
  sd_pc, sd_join  \* the thread in Shutdown, and its dead_workers_to_join

lists == <<idle_workers, running_workers, dead_workers,
              count_idle, count_running, count_dead>>
queue == <<tasks, pending_tasks, task_state>>
sync == <<pool_owner, waiting, timed_out>>
threads == <<pc, current, join_list>>
flags == <<shutting_down, all_workers_dead>>
capacity == <<max_pool_size, is_blocked>>
shutter == <<sd_pc, sd_join>>
vars == <<lists, queue, sync, threads, flags, capacity, shutter>>

\* Positions of a worker's thread, by source line of thread_pool.cc.
ThreadStates ==
  { "none",         \* no such Worker object
    "created",      \* allocated and idle, thread not started (93-95)
    "loop",         \* about to take the monitor (150)
    "run",          \* in task->Run(), monitor released (158)
    "drain",        \* about to re-enter the monitor after a task (161)
    "idle_check",   \* monitor held, no tasks (165)
    "notify_idle",  \* in NotifyIdle(), monitor released (isolate.cc 290)
    "idle_wait",    \* in the wait of OnEnterIdleLocked (isolate.cc 301)
    "wait",         \* in the wait of WorkerLoop (183)
    "notify_exit",  \* all_workers_dead_ set, before exit_monitor_ (238)
    "joining",      \* monitor released, joining dead workers (204)
    "exited" }      \* thread has ended, Worker object not yet joined

TaskStates == { "new", "queued", "running", "done", "refused" }

ShutdownStates ==
  { "idle",      \* Shutdown has not been called
    "check",     \* about to lock exit_monitor_ and test all_workers_dead_
    "locked",    \* holds exit_monitor_, saw all_workers_dead_ = FALSE
    "waiting",   \* in eml.Wait()
    "obtain",    \* about to collect dead_workers_ (75)
    "join",      \* joining them (78)
    "returned" } \* Shutdown has returned

Init ==
  /\ shutting_down = FALSE /\ all_workers_dead = FALSE
  /\ max_pool_size = MaxPoolSize
  /\ idle_workers = {} /\ running_workers = {} /\ dead_workers = {}
  /\ count_idle = 0 /\ count_running = 0 /\ count_dead = 0
  /\ tasks = <<>> /\ pending_tasks = 0
  /\ task_state = [t \in Tasks |-> "new"]
  /\ pool_owner = Nobody /\ waiting = {} /\ timed_out = {}
  /\ is_blocked = {}
  /\ pc = [w \in Workers |-> "none"]
  /\ current = [w \in Workers |-> Nobody]
  /\ join_list = [w \in Workers |-> {}]
  /\ sd_pc = "idle" /\ sd_join = {}

-----------------------------------------------------------------------------
(* The monitor. *)

At(w, s) == pc[w] = s
Go(w, s) == pc' = [pc EXCEPT ![w] = s]
MonitorFree == pool_owner = Nobody

\* Monitor::Notify wakes one waiter, if there is any.
Notify ==
  /\ \/ waiting = {} /\ UNCHANGED waiting
     \/ \E w \in waiting : waiting' = waiting \ {w}
  /\ UNCHANGED <<pool_owner, timed_out>>

NotifyAll == waiting' = {} /\ UNCHANGED <<pool_owner, timed_out>>

\* ml.Wait*: join the wait set and release the monitor, in one step.
WaitOnPool(w) ==
  /\ waiting' = waiting \cup {w}
  /\ timed_out' = timed_out \ {w}
  /\ pool_owner' = Nobody

\* The wait ends by its timeout ...
WaitTimesOut(w) ==
  /\ w \in waiting
  /\ waiting' = waiting \ {w}
  /\ timed_out' = timed_out \cup {w}
  /\ UNCHANGED <<pool_owner, lists, queue, threads, flags, capacity, shutter>>

\* ... or spuriously, with the result kNotified.
SpuriousWakeup(w) ==
  /\ w \in waiting
  /\ waiting' = waiting \ {w}
  /\ UNCHANGED <<pool_owner, timed_out>>
  /\ UNCHANGED <<lists, queue, threads, flags, capacity, shutter>>

-----------------------------------------------------------------------------
(* Scheduling. *)

NewWorker(w) ==
  /\ At(w, "none")
  /\ idle_workers' = idle_workers \cup {w}
  /\ count_idle' = count_idle + 1
  /\ Go(w, "created")
  /\ UNCHANGED <<running_workers, dead_workers, count_running, count_dead>>
  /\ UNCHANGED <<current, join_list>>

NoNewWorker == UNCHANGED <<lists, threads>>

\* Is there an idle worker for every task, the new one included?
EnoughIdle == count_idle >= pending_tasks + 1

\* Fault: an idle worker is taken to be awake.
NotifyIdleWorker_Lost == UNCHANGED sync
NotifyIdleWorker == Notify

\* The pool may not grow.
AtMaxPoolSize ==
  max_pool_size > 0 /\ count_idle + count_running >= max_pool_size

ScheduleTaskLocked(t) ==
  /\ tasks' = Append(tasks, t)
  /\ pending_tasks' = pending_tasks + 1
  /\ task_state' = [task_state EXCEPT ![t] = "queued"]
  /\ \/ EnoughIdle /\ NotifyIdleWorker /\ NoNewWorker
     \/ /\ ~EnoughIdle /\ AtMaxPoolSize
        /\ IF idle_workers # {} THEN Notify ELSE UNCHANGED sync
        /\ NoNewWorker
     \/ /\ ~EnoughIdle /\ ~AtMaxPoolSize
        /\ \E w \in Workers : NewWorker(w)
        /\ UNCHANGED sync

\* Fault: a pool that shuts down still takes tasks.
Accepting_Always == TRUE
Accepting == ~shutting_down

\* ThreadPool::Run, accepted: up to the release of the monitor.
RunImpl(t) ==
  /\ MonitorFree
  /\ task_state[t] = "new"
  /\ Accepting
  /\ ScheduleTaskLocked(t)
  /\ UNCHANGED <<flags, capacity, shutter>>

\* ThreadPool::Run, refused: the unique_ptr deletes the task.
RunRefused(t) ==
  /\ MonitorFree
  /\ task_state[t] = "new"
  /\ ~Accepting
  /\ task_state' = [task_state EXCEPT ![t] = "refused"]
  /\ UNCHANGED <<tasks, pending_tasks>>
  /\ UNCHANGED <<lists, sync, threads, flags, capacity, shutter>>

\* Worker::StartThread by the thread that allocated the worker, after it has
\* released the monitor; Worker::Main then enters WorkerLoop.
StartThread(w) ==
  /\ At(w, "created")
  /\ Go(w, "loop")
  /\ UNCHANGED <<current, join_list>>
  /\ UNCHANGED <<lists, queue, sync, flags, capacity, shutter>>

-----------------------------------------------------------------------------
(* The worker's loop. *)

\* Fault: only one of the two counters is moved.
IdleToRunningLocked_OneCounter(w) ==
  /\ idle_workers' = idle_workers \ {w}
  /\ running_workers' = running_workers \cup {w}
  /\ count_idle' = count_idle - 1
  /\ UNCHANGED <<count_running, dead_workers, count_dead>>

IdleToRunningLocked(w) ==
  /\ idle_workers' = idle_workers \ {w}
  /\ running_workers' = running_workers \cup {w}
  /\ count_idle' = count_idle - 1
  /\ count_running' = count_running + 1
  /\ UNCHANGED <<dead_workers, count_dead>>

RunningToIdleLocked(w) ==
  /\ running_workers' = running_workers \ {w}
  /\ idle_workers' = idle_workers \cup {w}
  /\ count_running' = count_running - 1
  /\ count_idle' = count_idle + 1
  /\ UNCHANGED <<dead_workers, count_dead>>

\* Take the first task and leave the monitor to run it.
RunFirstTask(w) ==
  /\ tasks # <<>>
  /\ tasks' = Tail(tasks)
  /\ pending_tasks' = pending_tasks - 1
  /\ task_state' = [task_state EXCEPT ![Head(tasks)] = "running"]
  /\ current' = [current EXCEPT ![w] = Head(tasks)]
  /\ Go(w, "run")
  /\ UNCHANGED <<join_list, sync>>

\* The monitor is held, there is no task: go on at line 165.
KeepMonitor(w) ==
  /\ tasks = <<>>
  /\ pool_owner' = w /\ UNCHANGED <<waiting, timed_out>>
  /\ Go(w, "idle_check") /\ UNCHANGED <<current, join_list>>
  /\ UNCHANGED queue

\* WorkerLoop from the top: take a task, or keep the monitor and go idle.
WorkerLoop(w) ==
  /\ At(w, "loop")
  /\ MonitorFree
  /\ \/ RunFirstTask(w) /\ IdleToRunningLocked(w)
     \/ KeepMonitor(w) /\ UNCHANGED lists
  /\ UNCHANGED <<flags, capacity, shutter>>

\* task->Run() returns and the task is deleted; a task that marked its worker
\* as blocked has unmarked it before.
TaskReturns(w) ==
  /\ At(w, "run")
  /\ w \notin is_blocked
  /\ task_state' = [task_state EXCEPT ![current[w]] = "done"]
  /\ current' = [current EXCEPT ![w] = Nobody]
  /\ Go(w, "drain")
  /\ UNCHANGED <<tasks, pending_tasks, join_list>>
  /\ UNCHANGED <<lists, sync, flags, capacity, shutter>>

\* The monitor is re-entered: the next task, or idle.
DrainTasks(w) ==
  /\ At(w, "drain")
  /\ MonitorFree
  /\ \/ RunFirstTask(w) /\ UNCHANGED lists
     \/ KeepMonitor(w) /\ RunningToIdleLocked(w)
  /\ UNCHANGED <<flags, capacity, shutter>>

\* What ObtainDeadWorkersLocked leaves in dead_workers_. Fault: it copies.
DeadAfterObtain_Copy == dead_workers
DeadAfterObtain == {}

\* The last worker of a pool that shuts down.
LastWorker(w) ==
  shutting_down /\ running_workers = {} /\ idle_workers = {w}

\* ObtainDeadWorkersLocked and IdleToDeadLocked: the worker takes over the
\* dead workers it will join and becomes the only dead one. The last worker of
\* a pool that shuts down sets all_workers_dead_ and, still inside the
\* monitor, goes on to notify exit_monitor_.
IdleToDeadLocked(w) ==
  /\ join_list' = [join_list EXCEPT ![w] = @ \cup dead_workers]
  /\ dead_workers' = DeadAfterObtain \cup {w} /\ count_dead' = 1
  /\ idle_workers' = idle_workers \ {w} /\ count_idle' = count_idle - 1
  /\ UNCHANGED <<running_workers, count_running>>
  /\ IF LastWorker(w)
     THEN all_workers_dead' = TRUE /\ pool_owner' = w /\ Go(w, "notify_exit")
     ELSE /\ UNCHANGED all_workers_dead
          /\ pool_owner' = Nobody /\ Go(w, "joining")
  /\ UNCHANGED <<current, waiting, timed_out, shutting_down>>

\* Back to the top of the loop, the monitor is released on the way.
Continue(w) ==
  /\ tasks # <<>>
  /\ Go(w, "loop") /\ pool_owner' = Nobody
  /\ UNCHANGED <<waiting, timed_out, current, join_list, lists, flags>>

\* WorkerLoop from line 173: die if shutting down, else wait.
DieOrWait(w) ==
  /\ tasks = <<>>
  /\ IF shutting_down
     THEN IdleToDeadLocked(w)
     ELSE /\ WaitOnPool(w) /\ Go(w, "wait")
          /\ UNCHANGED <<current, join_list, lists, flags>>

\* Release the monitor and run the idle-time work.
LeaveToNotifyIdle(w) ==
  /\ Go(w, "notify_idle") /\ pool_owner' = Nobody
  /\ UNCHANGED <<waiting, timed_out, current, join_list, lists, flags>>

\* No worker runs a task: OnEnterIdleLocked. In the base class it does
\* nothing; in MutatorThreadPool it may release the monitor to notify the heap
\* at once, wait for the idle time to expire, or (idle timer off, isolate not
\* started yet) also do nothing.
OnEnterIdleLocked(w) ==
  /\ HasIdleHandler
  /\ \/ LeaveToNotifyIdle(w)
     \/ /\ ~shutting_down
        /\ WaitOnPool(w) /\ Go(w, "idle_wait")
        /\ UNCHANGED <<current, join_list, lists, flags>>

\* WorkerLoop from line 165, monitor held.
IdleCheck(w) ==
  /\ At(w, "idle_check")
  /\ pool_owner = w
  /\ \/ running_workers = {} /\ OnEnterIdleLocked(w)
     \/ DieOrWait(w)
  /\ UNCHANGED <<queue, capacity, shutter>>

\* The wait of OnEnterIdleLocked is over and the monitor is held again.
IdleWaitDone(w) ==
  /\ At(w, "idle_wait")
  /\ w \notin waiting
  /\ MonitorFree
  /\ \/ Continue(w)
     \/ /\ tasks = <<>> /\ ~shutting_down /\ w \in timed_out
        /\ LeaveToNotifyIdle(w)
     \/ DieOrWait(w)
  /\ UNCHANGED <<queue, capacity, shutter>>

\* NotifyIdle has returned and the monitor is held again.
NotifyIdleDone(w) ==
  /\ At(w, "notify_idle")
  /\ MonitorFree
  /\ Continue(w) \/ DieOrWait(w)
  /\ UNCHANGED <<queue, capacity, shutter>>

\* The worker gives up waiting.
Done(w) == tasks = <<>> /\ (shutting_down \/ w \in timed_out)

\* The wait of WorkerLoop is over and the monitor is held again.
WaitDone(w) ==
  /\ At(w, "wait")
  /\ w \notin waiting
  /\ MonitorFree
  /\ \/ Continue(w)
     \/ Done(w) /\ IdleToDeadLocked(w)
     \/ /\ tasks = <<>> /\ ~Done(w)
        /\ WaitOnPool(w)
        /\ UNCHANGED <<pc, current, join_list, lists, flags>>
  /\ UNCHANGED <<queue, capacity, shutter>>

\* Fault: exit_monitor_ is notified without being locked.
ExitMonitorFree_Ignored == TRUE
ExitMonitorFree == sd_pc # "locked"

\* The last worker locks exit_monitor_ (not while the thread in Shutdown holds
\* it between its test and its wait), notifies, and releases both monitors.
NotifyExit(w) ==
  /\ At(w, "notify_exit")
  /\ ExitMonitorFree
  /\ sd_pc' = IF sd_pc = "waiting" THEN "check" ELSE sd_pc
  /\ pool_owner' = Nobody
  /\ Go(w, "joining")
  /\ UNCHANGED <<sd_join, waiting, timed_out, current, join_list>>
  /\ UNCHANGED <<lists, queue, flags, capacity>>

\* OSThread::Join of one worker, which waits for its thread to end, and its
\* deletion.
JoinDeadWorker(w, d) ==
  /\ At(w, "joining")
  /\ d \in join_list[w]
  /\ At(d, "exited")
  /\ join_list' = [join_list EXCEPT ![w] = @ \ {d}]
  /\ Go(d, "none")
  /\ UNCHANGED <<current, lists, queue, sync, flags, capacity, shutter>>

\* WorkerLoop and then Worker::Main return: the thread ends.
ThreadExit(w) ==
  /\ At(w, "joining")
  /\ join_list[w] = {}
  /\ Go(w, "exited")
  /\ UNCHANGED <<current, join_list>>
  /\ UNCHANGED <<lists, queue, sync, flags, capacity, shutter>>

-----------------------------------------------------------------------------
(* Blocking tasks. *)

\* The blocked worker needs a replacement. Fault: one pending task can wait.
NeedsReplacement_Many ==
  max_pool_size > 0 /\ idle_workers = {} /\ pending_tasks > 1
NeedsReplacement ==
  max_pool_size > 0 /\ idle_workers = {} /\ pending_tasks > 0

\* A task that is about to block outside the VM gives its slot away.
MarkCurrentWorkerAsBlocked(w) ==
  /\ At(w, "run") /\ w \notin is_blocked
  /\ MonitorFree
  /\ is_blocked' = is_blocked \cup {w}
  /\ max_pool_size' = IF max_pool_size > 0 THEN max_pool_size + 1 ELSE 0
  /\ IF NeedsReplacement
     THEN \E n \in Workers : NewWorker(n)
     ELSE NoNewWorker
  /\ UNCHANGED <<queue, sync, flags, shutter>>

\* The slot that was given away is taken back.
SlotTakenBack == IF max_pool_size > 0 THEN max_pool_size - 1 ELSE 0

MarkCurrentWorkerAsUnBlocked(w) ==
  /\ At(w, "run") /\ w \in is_blocked
  /\ MonitorFree
  /\ is_blocked' = is_blocked \ {w}
  /\ max_pool_size' = SlotTakenBack
  /\ UNCHANGED <<lists, queue, sync, threads, flags, shutter>>

-----------------------------------------------------------------------------
(* Shutdown. It may be called again after it has returned: the destructor    *)
(* always does.                                                              *)

ShutdownBegin ==
  /\ sd_pc \in {"idle", "returned"}
  /\ MonitorFree
  /\ shutting_down' = TRUE
  /\ IF running_workers = {} /\ idle_workers = {}
     THEN all_workers_dead' = TRUE /\ UNCHANGED sync
     ELSE UNCHANGED all_workers_dead /\ NotifyAll
  /\ sd_pc' = "check" /\ UNCHANGED sd_join
  /\ UNCHANGED <<lists, queue, threads, capacity>>

ShutdownCheck ==
  /\ sd_pc = "check"
  /\ sd_pc' = IF all_workers_dead THEN "obtain" ELSE "locked"
  /\ UNCHANGED <<sd_join, lists, queue, sync, threads, flags, capacity>>

ShutdownWait ==
  /\ sd_pc = "locked"
  /\ sd_pc' = "waiting"
  /\ UNCHANGED <<sd_join, lists, queue, sync, threads, flags, capacity>>

\* The workers Shutdown joins.
ShutdownJoins == dead_workers

ShutdownObtain ==
  /\ sd_pc = "obtain"
  /\ MonitorFree
  /\ sd_pc' = "join"
  /\ sd_join' = ShutdownJoins
  /\ dead_workers' = DeadAfterObtain /\ count_dead' = 0
  /\ UNCHANGED <<idle_workers, running_workers, count_idle, count_running>>
  /\ UNCHANGED <<queue, sync, threads, flags, capacity>>

ShutdownJoin(d) ==
  /\ sd_pc = "join"
  /\ d \in sd_join
  /\ At(d, "exited")
  /\ sd_join' = sd_join \ {d}
  /\ Go(d, "none")
  /\ UNCHANGED <<sd_pc, current, join_list>>
  /\ UNCHANGED <<lists, queue, sync, flags, capacity>>

ShutdownReturn ==
  /\ sd_pc = "join"
  /\ sd_join = {}
  /\ sd_pc' = "returned"
  /\ UNCHANGED <<sd_join, lists, queue, sync, threads, flags, capacity>>

-----------------------------------------------------------------------------
WorkerStep(w) ==
  \/ WorkerLoop(w) \/ DrainTasks(w) \/ IdleCheck(w) \/ IdleWaitDone(w)
  \/ NotifyIdleDone(w) \/ WaitDone(w) \/ NotifyExit(w) \/ ThreadExit(w) \/ StartThread(w)
  \/ \E d \in Workers : JoinDeadWorker(w, d)

WakeStep(w) == WaitTimesOut(w) \/ SpuriousWakeup(w)

TaskStep(w) ==
  TaskReturns(w) \/ MarkCurrentWorkerAsBlocked(w) \/ MarkCurrentWorkerAsUnBlocked(w)

ShutdownStep ==
  \/ ShutdownCheck \/ ShutdownWait \/ ShutdownObtain \/ ShutdownReturn
  \/ \E d \in Workers : ShutdownJoin(d)

Next ==
  \/ \E t \in Tasks : RunImpl(t) \/ RunRefused(t)
  \/ \E w \in Workers : WorkerStep(w) \/ WakeStep(w) \/ TaskStep(w)
  \/ ShutdownBegin
  \/ ShutdownStep

Spec == Init /\ [][Next]_vars

\* A runnable thread is eventually scheduled and gets the monitor. A timed
\* wait need not time out (worker_timeout_millis may be 0).
SchedulerFairness ==
  /\ \A w \in Workers : WF_vars(WorkerStep(w))
  /\ WF_vars(ShutdownStep)

\* In a limited pool a task returns or marks its worker as blocked; it may
\* stay blocked forever.
FairLimitedSpec ==
  /\ Spec /\ SchedulerFairness
  /\ \A w \in Workers :
        WF_vars(TaskReturns(w) \/ MarkCurrentWorkerAsBlocked(w))

-----------------------------------------------------------------------------
(* Properties. *)

FlagsOK ==
  /\ shutting_down \in BOOLEAN /\ all_workers_dead \in BOOLEAN
  /\ sd_pc \in ShutdownStates /\ pool_owner \in Workers \cup {Nobody}

NumbersOK ==
  /\ max_pool_size \in Nat /\ pending_tasks \in Nat
  /\ count_idle \in Nat /\ count_running \in Nat /\ count_dead \in Nat

ListsOK ==
  /\ idle_workers \subseteq Workers /\ running_workers \subseteq Workers
  /\ dead_workers \subseteq Workers /\ waiting \subseteq Workers
  /\ timed_out \subseteq Workers /\ is_blocked \subseteq Workers
  /\ sd_join \subseteq Workers /\ tasks \in Seq(Tasks)

ThreadsOK ==
  /\ task_state \in [Tasks -> TaskStates]
  /\ pc \in [Workers -> ThreadStates]
  /\ current \in [Workers -> Tasks \cup {Nobody}]
  /\ join_list \in [Workers -> SUBSET Workers]

\* Every variable has its type: in particular the unsigned counters, each
\* decremented without a test, never wrap.
TypeOK == FlagsOK /\ NumbersOK /\ ListsOK /\ ThreadsOK

IdlePositions ==
  {"created", "loop", "idle_check", "notify_idle", "idle_wait", "wait"}

\* The lists say where the threads are, although a worker moves itself from
\* list to list in several critical sections: the ASSERTs on list membership
\* in IdleToRunningLocked, RunningToIdleLocked and IdleToDeadLocked hold, and
\* a worker that keeps the monitor to go idle has seen an empty queue.
WorkersPlaced ==
  /\ \A w \in Workers : w \in idle_workers <=> pc[w] \in IdlePositions
  /\ \A w \in Workers : w \in running_workers <=> pc[w] \in {"run", "drain"}
  /\ \A w \in waiting : pc[w] \in {"wait", "idle_wait"}
  /\ \A w \in is_blocked : pc[w] = "run"
  /\ \A w \in Workers : pc[w] \in {"idle_check", "notify_exit"} =>
       pool_owner = w /\ tasks = <<>>

\* Idle workers that will look at tasks_ without having to be notified.
AwakeIdle == idle_workers \ waiting

\* The counters agree with the lists they count. ScheduleTaskLocked decides
\* from the counters alone whether anybody will run the task.
CountsMatchLists ==
  /\ count_idle = Cardinality(idle_workers)
  /\ count_running = Cardinality(running_workers)
  /\ count_dead = Cardinality(dead_workers)
  /\ pending_tasks = Len(tasks)

\* No wakeup is lost: while some worker sleeps in the pool's monitor, there is
\* an awake idle worker for every pending task. A Notify that is spent on a
\* worker that has just timed out, or on one that waits inside
\* OnEnterIdleLocked, never strands a task.
NoLostWakeup ==
  waiting # {} => Len(tasks) <= Cardinality(AwakeIdle)

\* In an unlimited pool no task queues behind another one: there are as many
\* awake idle workers as pending tasks, so tasks that wait for each other
\* cannot deadlock on the pool.
UnlimitedNeverQueues ==
  MaxPoolSize = 0 => Len(tasks) <= Cardinality(AwakeIdle)

\* In a limited pool a pending task has somebody to run it even when the
\* other tasks block in native code: an awake idle worker, or a worker that
\* runs a task and is not blocked.
LimitedHasServer ==
  (MaxPoolSize > 0 /\ tasks # <<>>) =>
     AwakeIdle \cup (running_workers \ is_blocked) # {}

\* max_pool_size_ is the configured size plus the blocked workers, so the
\* unsigned decrement of MarkCurrentWorkerAsUnBlocked cannot reach 0, which
\* would make the pool unlimited.
CapacityCountsBlocked ==
  max_pool_size = IF MaxPoolSize = 0 THEN 0
                  ELSE MaxPoolSize + Cardinality(is_blocked)

\* The pool's bookkeeping is right at every release of the monitor: lists,
\* counters and capacity say what the threads do.
BooksAgree == WorkersPlaced /\ CountsMatchLists /\ CapacityCountsBlocked

\* Workers that have died and have not been joined.
Gone == {w \in Workers : pc[w] \in {"notify_exit", "joining", "exited"}}

\* A dead worker is in exactly one place from which it is joined: dead_workers_
\* or the join list of one worker or of Shutdown. So no thread is joined twice
\* and no Worker leaks.
JoinedByExactlyOne ==
  /\ Gone = dead_workers \cup sd_join \cup UNION {join_list[w] : w \in Workers}
  /\ dead_workers \cap sd_join = {}
  /\ \A w \in Workers : join_list[w] \cap (dead_workers \cup sd_join) = {}
  /\ \A v, w \in Workers : v # w => join_list[v] \cap join_list[w] = {}

\* Once all_workers_dead_ is visible (Shutdown reads it without pool_monitor_)
\* the pool has no idle and no running worker and no task, for good.
AllDeadIsFinal ==
  all_workers_dead =>
    /\ shutting_down
    /\ idle_workers = {} /\ running_workers = {} /\ tasks = <<>>

\* When Shutdown returns, every accepted task has run and every worker thread
\* has ended and been joined: the pool can be deleted.
ShutdownJoinsEverything ==
  sd_pc = "returned" =>
    /\ \A w \in Workers : pc[w] = "none"
    /\ \A t \in Tasks : task_state[t] \in {"new", "done", "refused"}
    /\ dead_workers = {}

\* Each thread is joined once, by a worker or by Shutdown, and all are when
\* Shutdown returns.
ThreadsAreJoined == JoinedByExactlyOne /\ ShutdownJoinsEverything

\* Workers that use a slot of the pool.
Unblocked == (idle_workers \cup running_workers) \ is_blocked

\* A step that starts a worker in a limited pool leaves at most MaxPoolSize
\* unblocked workers, or no more than there were: the replacement of a blocked
\* worker never adds to the load.
GrowthIsBounded ==
  [][(MaxPoolSize > 0 /\ \E w \in Workers : pc[w] = "none" /\ pc'[w] = "created")
       => \/ Cardinality(Unblocked') <= MaxPoolSize
          \/ Cardinality(Unblocked') <= Cardinality(Unblocked)]_vars

\* Shutdown returns if the tasks do: the notification of the last worker's exit
\* is not lost, and the joins of dead threads do not wait for each other.
ShutdownReturns ==
  (\A t \in Tasks : task_state[t] = "running" ~> task_state[t] = "done")
    => (sd_pc = "check" ~> sd_pc = "returned")
-----------------------------------------------------------------------------
\* The pool as its callers see it.
Callers == INSTANCE TaskPool WITH
  fifo <- tasks, status <- task_state,
  open <- ~shutting_down, returned <- (sd_pc = "returned")

\* ThreadPool implements TaskPool: FIFO start, at most once, no task accepted
\* after Shutdown was called, none unfinished when it returns, and every
\* accepted task is eventually started.
ImplementsTaskPool == Callers!Spec
=============================================================================
