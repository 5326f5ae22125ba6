# TLA+ models of the Dart VM's concurrency core

The repository is the Dart SDK: the virtual machine (`runtime/`), the core
libraries (`sdk/lib/`), compilers, analyzers and tools (`pkg/`), and tests. Most
of it is sequential code over large data (parsers, type systems, code
generators). What is hard to test, and what this project models, is the
concurrent core of the virtual machine under `runtime/vm`: the threads that run
isolates, how they are given work, how they stop for each other, and how the
garbage collector works beside and instead of them.

Every definition is translated from the source; `PROJECT.json` maps each one to
its lines, lists the runs, the mutants that show each property can fail, the
theorems, and the hazards the properties are aimed at.

## The system's parts and how they interact

| Part | Source (under `runtime/vm`) | Modules |
|---|---|---|
| Thread pool | `thread_pool.{h,cc}`, idle hook in `isolate.cc` | `ThreadPool`, `TaskPool`; proofs `ThreadPoolProofs` |
| Safepoints | `heap/safepoint.{h,cc}`, `thread.{h,cc}`, `thread_registry.cc` | `Safepoint`; proofs `SafepointProofs` |
| Message handlers, queues | `message_handler.{h,cc}`, `message.{h,cc}`, `native_message_handler.cc`, `isolate.cc` | `MessageHandler`; proofs `MessageHandlerProofs` |
| Port map | `port.{h,cc}`, `port_set.h`, `native_api_impl.cc` | `PortSet`, `PortMap`; proofs `PortsAndSlotsProofs` |
| Mutator slots | `isolate.cc`, `thread.cc` | `MutatorSlots`; proofs `PortsAndSlotsProofs` |
| Safepoint-aware locks | `lockers.{h,cc}` | `SafepointRwLock`; proofs `SafepointRwLockProofs` |
| Background compiler driver | `compiler/jit/compiler.cc` | `BackgroundCompiler`; proofs `BackgroundCompilerProofs` |
| Old-space phases | `heap/pages.cc`, `heap.cc`, `marker.cc`, `sweeper.cc` | `OldSpace`; proofs `OldSpaceProofs` |
| Parallel marking | `heap/marker.cc`, `pointer_block.{h,cc}`, `thread_barrier.h` | `ThreadBarrier`, `ParallelMark`; proofs `ParallelMarkProofs` |

`MC*` modules hold the instances for TLC that a `.cfg` alone cannot express.

An isolate is a heap and a queue of messages that has no thread of its own. When
a message is posted, the **port map** finds the **message handler** of the port,
which hands a task to the **thread pool**; the task takes one of the group's
**mutator slots**, enters the isolate, drains the queues and leaves. The garbage
collector, the deoptimizer and hot reload need all mutators of the group to stand
still: they start a **safepoint operation**, which asks every thread to check in.
A mutator that blocks in native code, or on a **lock that knows safepoints**,
counts as checked in. Beside the mutators run tasks that ignore safepoints or
have protocols of their own: the concurrent marker and sweeper of **old space**,
the helpers of a **parallel marking**, and the **background compiler**.

Modules above others use what those below were shown to do. `OldSpace`,
`SafepointRwLock` and `MutatorSlots` take a safepoint operation to be one owner
with every other thread stopped where it may be, which is `StoppedWorld` of
`Safepoint`. `MessageHandler` and `BackgroundCompiler` take the pool to start
every task once, which is `TaskPool`. `ParallelMark` extends `ThreadBarrier`, and
`PortMap` is built on two levels of `PortSet`.

## ThreadPool

`ThreadPool.tla` models the class of the same name together with
`MutatorThreadPool::OnEnterIdleLocked`. The state is the class's fields (the
three worker lists and their counters, the task list and `pending_tasks_`,
`max_pool_size_`, `shutting_down_`, `all_workers_dead_`), the position of every
worker's thread, and the monitor: who holds it across steps (`pool_owner`) and
who is in the wait set (`waiting`, `timed_out`).

Granularity: everything a worker does under `pool_monitor_` without releasing it
is atomic to the others. Where the code takes several decisions under the
monitor, several actions share it and `pool_owner` keeps the others out. A wait
may end by `Notify`, by its timeout at any time, or spuriously, and the worker
then has to get the monitor back like everybody else.

| Action | Code |
|---|---|
| `RunImpl`, `RunRefused` | `ThreadPool::RunImpl`, `ScheduleTaskLocked` |
| `StartThread` | `Worker::StartThread`, after the monitor is released |
| `WorkerLoop`, `DrainTasks`, `TaskReturns` | the loop over `tasks_` in `WorkerLoop` |
| `IdleCheck`, `IdleWaitDone`, `NotifyIdleDone` | `OnEnterIdleLocked` and what follows it |
| `WaitDone`, `WaitTimesOut`, `SpuriousWakeup` | the timed wait of `WorkerLoop` |
| `NotifyExit`, `JoinDeadWorker`, `ThreadExit` | `IdleToDeadLocked`, joining the previously dead |
| `MarkCurrentWorkerAs(Un)Blocked` | the methods of that name |
| `Shutdown*` | `Shutdown`: set the flag, wait for the last worker, join the rest |

`TaskPool.tla` is what the pool promises its callers: accepted tasks start in
order, each once; nothing is accepted after `Shutdown` was called; `Shutdown`
returns when all accepted tasks have returned; every accepted task starts.

Run `threadpool` (limit 1, three workers, three tasks, idle handler): lists,
counters, capacity and thread positions agree (`BooksAgree`; the limit is the
configured one plus the blocked workers, so it never wraps to "unlimited"); no
wake-up is lost; a pending task has somebody to run it even when the other tasks
block; every dead worker is joined by exactly one thread, and when `Shutdown`
returns nothing is left; the pool implements `TaskPool` (`fifo` is the task list,
`status` the life of a task); `Shutdown` returns if every task does. Two tasks and
two workers more than the limit are enough for a blocked worker, its replacement
and a queued task to exist at the same time.

Fairness: every thread that can take a step of the pool's own code eventually
does (`SchedulerFairness`: the operating system's scheduler, and monitors that
let a persistent contender in). In a limited pool a task either returns or marks
its worker as blocked, the contract under which isolates run on it; it may stay
blocked for ever. That tasks return is a premise of `ShutdownReturns` only, and
part of its statement. A pool without a limit is covered by the theorems
(`UnlimitedServes`), not by a run.

## Safepoint

`Safepoint.tla` models how the threads of one isolate group stop for each other
at the three levels GC < GC and deopt < GC, deopt and reload. The state is
`safepoint_state_` of each thread (`at`, `requested`), the `LevelHandler` of
each level (`owner`, `operations`, `not_parked`), the position of each thread,
the stack of operation scopes it is inside of (`scopes`), the scopes that limit
its level (`limits`: `RuntimeCallDeoptScope`, `NoReloadScope`), and the
out-of-band message by which a reload reaches mutators (`oob`).

Granularity: a section under `thread_lock()` is one step, and so is each
compare-and-swap of the fast paths, which take no lock. The sections under
`threads_lock()` that walk the list of threads are one step per visited thread
with the lock held in between, because the fast paths of the others interleave
with the walk.

| Action | Code |
|---|---|
| `TransitionToSafepoint`, `ExitIsolate`, `ExitSafepoint`, `ExitWakes`, `CheckForSafepoint` | `Thread::EnterSafepoint` and its siblings, and the transitions of `safepoint.h` |
| `SafepointThreads`, `SafepointWaitWakes`, `NotifyThread`, `NotifyDone`, `SendCheckForReload`, `SendDone`, `WaitUntilThreadsReachedSafepointLevel`, `AcquireLowerLevelSafepoints`, `OwnerExitsSafepoint` | `SafepointHandler::SafepointThreads` |
| `ResumeThreads`, `ContinueThread`, `ContinueDone` | `SafepointHandler::ResumeThreads` |
| `AddActiveThread`, `FreeActiveThread`, `ReturnThreadLocked` | threads join and leave the group |
| `RuntimeCallDeoptScope`, `NoReloadScope`, `CloseScope`, `HandleCheckForReload` | the scopes and the reload message |

Runs (module `MCSafepoint`):

* `safepoint`: two mutators, a helper and a thread that bypasses safepoints,
  operations of all three levels nested two deep; the mutators open scopes (constant
  `Scoped`, which only bounds the run). An operation runs
  only while everybody else is stopped at its level and held there
  (`StoppedWorld`); the counters of unparked threads and of open scopes are exact,
  no lower level is in progress when it is taken over, and no thread is held by an
  operation that is over (`LevelsAreKept`); no wake-up is lost; the reload's
  message is never lost for good.
* `safepoint_live`: a mutator and a helper, the same operations, scopes in both; an
  operation that has taken its level starts eventually.

Three threads that take part give an owner, a second operation of another level
and a thread that both ask. `MaxNesting` bounds the scope stack: an inner
operation above, at and below the level of the outer one. The two mutators are
interchangeable, which is the symmetry of the first run.

Fairness: threads inside the protocol go on (`ProtocolStep`, weakly fair), operations
and scopes end, and running threads poll (`PollingFairness`: `ScheduleInterrupts` makes
generated code call the runtime). The latter is strong fairness, because between two
chances to poll, to end an operation or to close a scope a thread may go to native code,
open scopes or run a nested operation, time and again. That is enough for GC and deoptimization
(`OperationStarts`). A reload additionally needs mutators that come back from
native code and get through their messages outside of a `NoReloadScope` time and
again, and helpers that leave the group, as the comment in `SafepointThreads`
says; this is the premise `ReloadIsHeard` of `ReloadStarts`.

## MessageHandler

`MessageHandler.tla` models one handler and its ports: `MessageHandler`,
`MessageQueue` and what a handler sees of `PortMap`, with what
`IsolateMessageHandler` and `NativeMessageHandler` do in their virtual methods.
The state is the fields of the class (the two queues, `paused_`, the four pause
flags and the remembered status, `task_running_`, `delete_me_`, whether there is a
pool), the ports, the tasks that wait in the pool, the interrupt bit of the
mutator, the position of the one thread that runs the handler with the stack of
its calls of `HandleMessages` (`frames`; an interrupt of running Dart code nests a
second one), the poster of each message, and the thread in `Dart_CloseNativePort`.

Granularity: a step is the code between two points at which a thread takes or
gives up `monitor_`. While `pc` is in `Locked` the handler's thread has the
monitor, and posters wait. A poster keeps `PortMap::mutex_` from the lookup of
the port to the end of the notification, so it may wait for the monitor with the
mutex in its hands.

| Action | Code |
|---|---|
| `PostLookup`, `PostEnqueue`, `PostNotify` | `PortMap::PostMessage`, `MessageHandler::PostMessage`, `MessageNotify` |
| `Call`, `Enter`, `Handled` | `HandleMessages`: its entry, the first and the later calls of `DequeueMessage` |
| `HandleEvent`, `EventReturns`, `OpenPort`, `ClosePort` | `HandleMessage` for an event and the Dart or native code it calls |
| `Interrupt`, `ReturnInterrupt` | `Thread::HandleInterrupts`, `HandleOOBMessages` |
| `HandlePause`, `HandleResume`, `HandleKill`, `DelayKill`, `HandleServiceResume` | `HandleLibMessage`, the service's `Resume` |
| `TaskStarts`, `NotifyPauseOnStart`, `ReturnStart`, `Resume`, `ReturnPausedExit`, `Main`, `ReturnMain`, `Exit`, `NotifyPauseOnExit`, `ReturnExit` | `TaskCallback` |
| `HandleNextMessage`, `ReturnNext` | `Dart_HandleMessage`; the embedder shuts the isolate down after an error |
| `ClosePorts`, `CloseAllPorts`, `Delete` | `Isolate::LowLevelShutdown` |
| `CloseNativePort`, `RequestDeletion`, `CloserDeletes` | `Dart_CloseNativePort` |

A message is a name with a type (`event`, `loop` for an event whose code never
returns by itself, or one of the control messages that change the handler) and a
port; each is posted at most once, by a poster of its own. What a handler is
(isolate or native, with or without a pool), how it starts and what is sent to it
is a record in the constant set `Handlers`, chosen in `Init`.

Run `message_handler` (module `MCMessageHandler`) looks at seven handlers: an isolate
that pauses on start and gets two pause requests with different capabilities, a
resume and a resume of the service; one that gets the three kinds of
`Isolate.kill` beside events whose code opens and closes ports; one that is
paused, resumed and pauses on exit; one that gets the VM's request to shut down
beside an event, an endless loop and two resumes of the service; two whose messages
the embedder handles, one with a delayed kill and one that is paused and resumed; and
a native port that is closed at any time. A task waits or runs exactly
when `task_running_` says so, and when there is none no control message is left
and events only in a pause (`OneTaskServes`); no event is handled in a pause,
ahead of a delayed kill, or after a kill; every event is taken unless a pause or a loop
lasts (`EventsAreTaken`); an isolate that is asked to shut down and a native
port that is closed are deleted, once, and nobody still uses them. `TypeOK`
includes that `paused_` is the number of resume capabilities.

`EventsAreTaken` excepts one case: an embedder that handles the messages of an isolate
somebody pauses. There the promise of the API fails, which is what the run
`embedder_pause` shows (see Findings).

`KeepAlive` is whether a receive port keeps the isolate alive. The other thing that
does, an open native callable (`HasOpenNativeCallables`), is counted by Dart code and
left out: it only delays the end of an isolate.

The messages of a handler are what the properties tell apart; two events are
enough for one to be running or stranded behind the other, and one request of each
kind, posted at any moment, meets every position of the task. `CHECK_DEADLOCK` is
off: a handler with nothing to do stands still.

Fairness: threads inside a function of the handler go on, and code that handles
an event returns unless it is a `loop`, which only stops when it is interrupted
(generated code polls the stack limit). Nobody has to post or to close. The
embedder answers every callback with a call in the end, as the API asks.

`handler_kill_paused` and `embedder_pause` are expected violations: see Findings.

## PortSet and PortMap

`PortSet.tla` has the open-addressing table of `port_set.h` as operators on a
record of `capacity_`, `map_`, `used_` and `deleted_`: probing is the first slot
of a set on the way around the table, `Rehash` moves the live entries in the order
of their slots. `PortMap.tla` has `CreatePort`, `ClosePort` and `ClosePorts` on
the table of all ports and on the table of each handler, each under
`PortMap::mutex_` and therefore one action. Only `ClosePort` rebalances a
handler's own table; `ClosePorts` leaves it full of deleted slots.

Run `ports_and_slots` (module `MCPortsAndSlots`, initial capacity 8 as in the code) lets
one handler draw eight ports, so that the table fills with live and deleted entries,
is flushed and grows to 16, and lets two handlers compete for a port while one of them
fills its table. Both tables
find exactly the open ports (`LookupIsExact`), and each keeps a free slot, without
which a probe would not end (`ProbesEnd`), also across `ClosePorts`. `draws` bounds
what the random generator yields; the two markers are not drawn (see Divergences).

## MutatorSlots

`MutatorSlots.tla` has `IncreaseMutatorCount` and `DecreaseMutatorCount` as
`Thread::EnterIsolate` and `ExitIsolate` call them. The state is the two counters,
the wait set, where each isolate's thread is, which isolates were left with frames
on their stack, and the owner of the safepoint operation. An isolate that enters
during somebody else's operation takes its slot and stops with it.

The run `ports_and_slots` also has the slots (four isolates, two slots; the two parts
share no state, and a behaviour is of one of them): the counters are exact and within
the limit; while somebody sleeps, as many threads have been woken as there are free
slots, whoever else enters first; a safepoint owner that left its isolate with
frames on its stack comes back. Two isolates more than slots are enough for two
waiters and a newcomer. Fairness: threads inside the functions go on, and the owner
of an operation re-enters the isolate it left; isolates need not come or go.

`reload_owner_slot` is an expected violation: see Findings.

## SafepointRwLock

`SafepointRwLock.tla` has the readers-writer lock and the scopes that take it. The
state is `state_`, `writer_id_`, the wait set of `monitor_`, the stack of scopes of
each thread, and the safepoint owner. A thread that cannot have the lock gives up
the monitor, becomes blocked, which a safepoint operation counts as stopped, and
tries again; when it has the lock it still has to leave the safepoint.

A safepoint operation is a scope on the same stack, since a thread takes locks inside of
operations and starts operations with locks in its hands. Two levels are told apart: a
GC or a deoptimization (`gc`), which stops a thread wherever it polls, also inside a
locker; and a reload (`reload`), which stops it only where it takes part in reloads. Those
places (`ReloadParticipationScope`: a thread that leaves, has left or enters its isolate,
and the check-for-reload message at `isolate.cc:1265`) are outside of all lockers. That is
an assumption about the callers, and the reason for which the owner of a reload may take
locks; the model has it as the guard of `AtSafepoint`. `MayEnter` is what
`EnterRead` and `EnterWrite` assert: `CanAcquireSafepointLocks`, that is, no operation of
a lower level than reload is the innermost one, or the thread already has the lock. That
a reader does not ask for the write lock is the callers' obligation.

Run `rw_lock` (three attached threads and one without a `Thread`, scopes nested three
deep, six lockers and safepoint operations in all): `state_` is exactly what the
lockers in scope make it; nobody sleeps who could have the lock; an owner that waits for
the lock waits for a thread without a `Thread`, never for one that it has stopped
(`OwnerWaitsForDetached`); everybody who asks for the lock or a safepoint operation gets
it. Three scopes are a lock inside an operation inside a lock, or a GC with a lock in
hand inside a reload; six operations allow that beside two waiting readers and
a second operation. Fairness: threads go on, and every scope ends. `CHECK_DEADLOCK` is off
because the bounded operations run out.

## BackgroundCompiler

`BackgroundCompiler.tla` has the queue, the task that takes one function and
reschedules itself, `EnqueueCompilation`, `Stop`, `Enable` and `Disable` with nested
scopes, mutators that leave the group, the final stop, and a pool that is shut
down. A compilation succeeds or asks for a retry. Run `background_compiler` (three
mutators, two functions, scopes nested two deep): there is one task exactly when
`done_` is not set, it serves the queue, and `EnqueueCompilation` never meets the
state it asserts away; no task is alive inside a `NoBackgroundCompilerScope`;
whoever stops the compiler gets on, and an accepted function is taken. Three
mutators give one that opens a scope, one whose scope is still waiting and one that
enqueues. `CHECK_DEADLOCK` is off because after the shutdown nothing happens.
Fairness: tasks of the compiler and woken waiters go on.

## OldSpace

`OldSpace.tla` has the phases of an old-space collection and everything that meets
at `PageSpace::tasks_lock_`: concurrent marking is started, paused for scavenges,
and finalized; old space is swept by a task and by threads that assist it; mutators
allocate and wait for the sweeper, iterate over the heap and reload; the group is
shut down. The state is the fields of `PageSpace` (`phase_`, `tasks_`,
`concurrent_marker_tasks_`, the number of active ones, `pause_concurrent_marking_`,
`enable_concurrent_mark_`, the two sweep lists by their length), whether there is a
`GCMarker`, the positions of the marker tasks, the sweeper and the mutators with the
operation each is in (`call`), the page each actor holds, and pending interrupts.
Each critical section of the monitor is one action; a thread that waits is in
`waiters` until some `NotifyAll`.

| Action | Code |
|---|---|
| `StartOperation`, `AtSafepoint`, `Return` | `Heap::CollectGarbage` and its siblings, `GcSafepointOperationScope` |
| `CheckConcurrentMarking`, `CheckFinalizeMarking`, `HandleInterrupts` | when marking is started and finalized |
| `CollectGarbage`, `AssistMarking`, `AssistSweeping`, `WaitForTasks`, `CollectGarbageHelper`, `CollectGarbageEnds` | `PageSpace::CollectGarbage` |
| `StartConcurrentMark`, `SpawnMarker`, `WaitForRoots` | `GCMarker::StartConcurrentMark` |
| `MarkerStarts`, `RootsMarked`, `YieldConcurrentMarking`, `MarkerResumes`, `MarkerLeaves`, `MarkerEnds` | `ConcurrentMarkTask::Run` |
| `SweeperStarts`, `SweeperSweeps`, `LargePagesSwept`, `SweeperLeaves`, `SweeperEnds` | `ConcurrentSweeperTask::Run` |
| `PauseConcurrentMarking`, `WaitForPause`, `VisitRememberedCards`, `ResumeConcurrentMarking`, `AfterScavenge` | a scavenge |
| `IterationAssists`, `IterationFinalizes`, `IterationWaits`, `IterationBegins`, `IterationEnds` | `HeapIterationScope` |
| `AllocateOld`, `RetryAllocation`, `AllocateAfterCollection`, `WaitForSweeperTasks` | the slow path of allocation |
| `WaitForMarkerTasks`, `ReloadAllocates`, `ReloadEnds`, `ShutdownBegins`, `ShutdownWaits` | reload and the end of the group |

Run `old_space` (two mutators, two marker tasks, one large and one other page, four
operations): whoever collects or iterates is alone, in a phase the code asserts;
while a scavenge moves objects no marker looks at one, and while it reads the large
pages nobody changes their list; old space at rest is swept, also the pages that
assisting threads took; no marking runs or waits during a reload; every operation and
the shutdown end; a finished marking is finalized although no mutator allocates. Two
marker tasks are needed for one to be the last and the other to be paused; one page of
each kind can be in a list, in the task's or in an assistant's hands. Four operations
allow a marking to be started and finalized while a scavenge and a heap iteration of
the other mutator fall in between.

Fairness: mutators in an operation, marker and sweeper tasks and the shutdown go on,
and a mutator handles its interrupt. Nobody has to start an operation.

## ParallelMark

`ThreadBarrier.tla` has the class of that name: `TryEnter`, `Sync` with its
generation, and `Release`. `ParallelMark.tla` puts `GCMarker::MarkObjects` and its
`ParallelMarkTask`s on top of it, for any graph of objects: a shared marking stack of
blocks with the count of busy markers, local blocks, the deferred stack with a list of its
own in each visitor, Instructions, weak properties
whose value is live only if their key is, rounds in which the markers agree over the
barrier whether there is more to mark, helpers that come late and do not take part, and
the mourning of weak properties at the end. Each access to the shared stack and each
section under the barrier's monitor is an action; so is the scan of one object and the
look at one weak property, because the others' mark bits change in between.

Instructions are not marked when `MarkObject` meets them. They are put in the visitor's
`deferred_work_list_`, which gives a full block to the shared deferred stack, and are
marked by `ProcessDeferredMarking`, before the loop or after it. That they have no pointers
and are not the key of a weak property is an assumption on the heap
(`InstructionsAssumption`): only `Code` points to them.

| Action | Code |
|---|---|
| `Spawn`, `MainEnters`, `HelperEnters`, `HelperIsLate`, `Leave` | `GCMarker::MarkObjects`, `ParallelMarkTask::Run` |
| `BecomesBusy`, `IterateRoots` | `RunEnteredIsolateGroup` up to the loop |
| `TakeDeferred`, `ProcessDeferredMarking`, `DeferredMarkingEnds` | `ProcessDeferredMarking`, before and after the loop |
| `ProcessObject`, `PopBlock`, `DrainEnds` | `DrainMarkingStack`, `ProcessMarkingStack` |
| `PendingBegins`, `PendingStep` | `ProcessPendingWeakProperties` |
| `WaitForWork`, `WorkWaiterWakes` | `BlockStack::WaitForWork` |
| `RoundWeakEnds`, `Decide`, `Sync`, `Mourn` | the rounds and the end |

Run `parallel_mark` (module `MCParallelMark`): three markers, of which two may come
late, follow a chain of weak properties that were last seen by different visitors, with
a deferred object, a weak property whose key is garbage, and Instructions that are met
both early and at the end of the chain. Once a marker leaves the
loop everything reachable is marked but for Instructions that were put off, no other work
is left, and only weak properties with dead keys are left to mourn; when the mourning
begins the Instructions are marked too (`MarkingIsComplete`); the markers leave the loop in the same
round and are out of their tasks when the visitors are deleted (`MarkersInStep`);
marking ends. The chain needs a second round whichever marker is late; the theorems
below need no such choice.

Fairness: the collecting thread goes on, and so does a helper; the pool gives each one a
thread at some time, which may be when marking is over.

## Proofs

TLC checks small instances. The following hold for every set of workers, tasks,
threads, isolates, objects, functions, pages, handlers, messages and ports, every pool
size, number of slots, table capacity, nesting depth and heap. In each module an inductive invariant (`IInv`, `Inv`) holds initially and
is kept by every action (one lemma per action); the properties follow from it. TLC
checked each of them on the instance of the run before it was proved.

`ThreadPoolProofs.tla`: `TypeCorrect`, `BookkeepingCorrect`, `CapacityCorrect`,
`WakeupsNotLost`, `UnlimitedServes`, `LimitedServes`, `DeathIsFinal`. The invariant has
three layers. The books: types, lists, counters and positions agree. On top of them
`Served`: while somebody sleeps, awake idle workers outnumber pending tasks, strengthened
by what `ScheduleTaskLocked` relies on. On top of that, that `all_workers_dead_` is only
set by the last worker. The second half of the module has `EveryThreadIsJoined`,
`PoolImplementsTaskPool` (initial states
map to initial states and each step to a step of `TaskPool` or a stutter: the
refinement without its fairness) and `GrowthBounded`. That each dead worker has one
joiner needs to know in whose hands its thread is: in the pool's list, in the set some
dying worker has taken, or in that of `Shutdown`; the sets are disjoint.

`SafepointProofs.tla`: `TypeCorrect`,
`OperationsAreAlone`, `LevelsCorrect` with its parts `CounterIsExact`,
`LowerLevelsAreFree`, `RequestsHaveOwners`, `CountsAreNesting`, and `WakeupsNotLost`,
`ReloadsAreRemembered`. The inductive invariant is a conjunction of

* `Shape`: which bits and lists a thread in each position may have; in
  particular who holds `threads_lock` and what is left to visit;
* `Ownership`: `owner` of a level is exactly the thread whose operation, or
  whose start of one, covers it, and the counts are the number of scopes that do;
* `Asking`: the exact counter, requests have owners, everybody was asked while
  the owner waits, the others are stopped, and the threads that a finished
  operation has still to release are still held.

`StoppedWorld` alone is not inductive: that the owner may start when the counter
is 0 needs that everybody was asked (`EverybodyAsked`) and that the counter is
exact; that nobody slips out needs that the request of an owned level is never
cleared by the end of another operation, which needs `Ownership`. Wake-ups and reload
messages have invariants of their own on top of it.

`BackgroundCompilerProofs.tla`: `TaskIsUnique`, `ScopesHaveNoTask`. The invariant says
who is responsible for a stopped compiler: `disabled_depth_` is the number of open
scopes, a compiler that is neither running nor done has somebody who waits for it, and
a queue with functions has a running compiler.

`ParallelMarkProofs.tla`: `EverythingIsMarked`,
`MarkersStayTogether`. A thread that the barrier has released but that is still inside
`Sync` is taken to be where `Sync` leads (`at`); then all markers pass a `Sync` in one
step and are in the same phase at any time (`InStep`), and the barrier counts those who
have yet to arrive (`Counted`). On top of it: the busy count is exact (`BusyCounted`);
work in the shared stack or in a local block is the duty of a marker that will look at it
(`Served`); a marked object is in some list or was scanned (`Covered`); markers that have
looked at the busy count of a round go the same way (`Agreed`); after the first
`ProcessDeferredMarking` of any marker only Instructions are ever put off, and after its
second a marker has none left (`DeferredDone`); and in a round in which
nobody finds more to mark every weak property that was looked at keeps a white key
(`RoundIsQuiet`). The last is what makes the end of marking right: no single marker knows
it, and it is not inductive without `Agreed` and `InStep`.

`OldSpaceProofs.tla`: `CollectorIsAlwaysAlone`, `ScavengeIsAlwaysQuiet`,
`RestIsAlwaysSwept`, `ReloadIsAlwaysUnmarked`, `CountersAreExact`. The invariant says

* `OwnerInside`: a thread is inside an operation exactly while the safepoint is its;
* `CountsExact`: `tasks_` is the number of marker tasks, plus the sweeper, plus the thread
  that collects or iterates, and the two counts of markers are exact;
* `PhaseExact`: `phase_` is `kMarking` exactly while there is a marker task and one of the
  sweeping phases exactly while there is a sweeper, which of the two by where it is; there
  is a `GCMarker` exactly in `kMarking` and `kAwaitingFinalization`;
* `ListsPlaced`: which lists and hands can have pages while the sweeper is where it is;
* `Fits`: what a thread at each point of an operation has found out (that it is alone,
  that markers are paused, that the large pages are swept, that marking is disabled), also
  while a collection it has called is running and will return there.

`CollectorIsAlone` is not inductive: that a thread which finds `tasks_` zero is alone needs
`CountsExact`; that its phase is one the code asserts needs `PhaseExact`, since the phase
was last looked at before the wait. `ReloadIsUnmarked` needs `Fits` for the return address
of a nested collection: a reload disables concurrent marking and may then collect.

`SafepointRwLockProofs.tla`: `HoldersAlwaysMatch`, `SleepersAlwaysMustWait`,
`WritersAlwaysExclude`, `OwnersWaitForDetached`. `HoldersMatch` and `SleepersMustWait` are inductive together with
the types and the depth of the stacks (`DepthOK`: a thread that asks has room for one more
locker); most of the proof is about counting: a scope that is opened or left changes the
number of lockers of one kind by one and no other. `OwnerWaitsForDetached` has an invariant
of its own (`OwnerOK`): the owner of the operation is the thread with an operation on its
stack; a thread that asks for the lock or waits for its reload to begin holds no lock; an
owner that asks for the lock has a reload; and while a thread has a reload on its stack, the
others it has stopped hold no lock and do not ask for one, also when it has started a GC
inside the reload.

`MessageHandlerProofs.tla`: `TypeCorrect`, `OneTask`, `DeletedOnce`, `ControlFirst`,
`KillIsFinal`. The inductive invariant has

* `FramesOK`: which calls of `HandleMessages` are on the stack at each position, and that
  only a call that handles an event is interrupted;
* `PostsOK`, `MessagesOK`: a poster between its lookup and its notification has the mutex,
  and its port stays open meanwhile; what is in the queues and being handled was posted;
* `TasksOK`, `PausesOK`: there is a task, waiting or running, exactly while
  `task_running_` is set, and the pause flags fit the position of the task;
* `LeftOK`: what a call of `HandleMessages` that returns may have left in the queues. The
  monitor is not given up between the last look at the queues and the end of the task, so
  what was found is still so when `task_running_` is cleared;
* `EventOK`: in the queue no event is in front of a delayed kill, and where an event has been
  taken the isolate is not paused and no delayed kill waits;
* `DeletionOK`: how far the deletion is, for an isolate and for a native port.

None of the three safety invariants is inductive alone: `OneTaskServes` needs `LeftOK`,
and that nobody has a deleted handler needs that the ports are closed, under the mutex
that posters hold, before anybody deletes. `ControlFirst` is an
action property that follows from the invariant. `KillIsFinal` has a second invariant on
top of it (`KillOK`): after a kill that took effect its status is in the call of
`HandleMessages` on top of the stack, on its way there from an interrupted one, or in
`TaskCallback`, or the handler is on its way out. It is proved for handlers that pause
neither on start nor on exit; `handler_kill_paused` shows that it is false for others.

`PortsAndSlotsProofs.tla` has two parts that share nothing but the module. The mutator
slots: `CountsAreRight`, `FreeSlotsAreFound`. The two are inductive together with
`KeptSlots`: an isolate that asks for a slot or gives one back is not one whose slot was
kept across a nested exit. A waiter that was woken stays in the queue until it has looked,
so a newcomer that takes its slot lowers both sides of `NoSlotForgotten`.

The port map: `EveryPortIsFound`, `EveryProbeEnds`. A table is in order (`TableOK`) when its
counters are exact, no port is in it twice (`Distinct`), and on the way from a port's first
slot to its entry there is no free slot (`Reached`). Deleting an entry keeps that because the
slot does not become free; inserting in front of other entries keeps it because it only
takes slots. `Rehash` is a recursive function over the slots of the old table. That it has
a value at each slot, and that the new table has exactly the entries passed so far
(`Moved`), is shown by induction on the slot, in the form that a set of numbers without a
least element is empty (`LeastNat`, `UpTo`). There is room for them because
`MaintainInvariants` only flushes a table that is at most three quarters live and doubles
any other (`MaintainKeeps`). The invariant of the port map (`TablesInv`) then says that
all tables are in order and have a free slot, that `ports_` has an entry for each open
port, and that a handler's own table has one for each port of that handler.

Assumptions: the named `ASSUME`s of the modules (types of the constants; finite sets of
threads, tasks and objects; `None`, `Sweeper` and the like are none of the threads; the
collecting thread is the barrier's only initial member).

Model-checked only: everything under fairness, including the liveness part of the
refinement of `TaskPool`, because the prover has no rules for fairness. These are
`ShutdownReturns`, `OperationStarts`, `ReloadStarts`, `EventsAreTaken`, `HandlersAreDeleted`,
`OperationsEnd`, `MarkingIsFinalized`, `MarkingEnds`, `RequestsReturn`, `StopAndServe`,
`NestedOwnerComesBack` and the fairness in `ImplementsTaskPool`. Every invariant and every
action property that a run checks is also a theorem (`NoEventAfterKill` for handlers that do
not pause on start or on exit).

## Findings

* `handler_kill_paused`: `Isolate.kill` with priority `immediate` shuts the
  isolate down "as soon as possible" according to its documentation. If the
  isolate is paused on start, the kill is used up, the pause goes on, and after
  the resume the isolate handles events. The status `kError` is not remembered
  there; only `kShutdown`, the VM's own request, ends such a pause.
* `embedder_pause`: embedders are told to call `Dart_HandleMessage` once per callback
  (`include/dart_api.h:1539`). A call made while `Isolate.pause` is in force handles no
  event, and the resume makes no callback for those that wait, so an embedder that does
  what it is told leaves events in the queue until further messages arrive
  (`message_handler.cc:299`).
* `reload_owner_slot`: the owner of a safepoint operation keeps its mutator slot only
  when it leaves its isolate with frames on its stack. A reload asked for by a service
  message to an idle isolate has none; compiling, it opens a native port, which leaves
  and re-enters the isolate. With more isolates than slots others can take the slot in
  between and stop at the safepoint with it, and the owner waits for a slot for ever.

## Divergences that have no run

Met while modelling; each is a sentence of the repository that the code does not keep.

* `InnermostSafepointOperation` is declared to return the innermost level of the current
  thread (`heap/safepoint.h:93`); it stops at the first level whose count is smaller than
  that of the level below (`safepoint.cc:314`), so for a deoptimization inside a GC inside
  a deoptimization it returns the GC level.
* `port.h:29` says of `ClosePort` that "All pending messages will be dropped". For a native
  port the handler's task delivers them after the port is closed. (For an isolate Dart
  finds no closure for the closed port.)
* The background compiler's queue "rejects duplicate entries" (`runtime_entry.cc:3194`);
  a function that asks for a retry is put back without that test (`compiler.cc:1163`).
* `AllocatePort` answers a draw equal to a marker with `continue` (`port.cc:44`), which in a
  do-while loop goes to the condition, not to another draw.
* `port_set.h:73` asks users of the iterator to call `Rebalance` after deleting;
  `ClosePorts` does so for one of its two tables (`port.cc:146`). `ports_and_slots` shows that
  lookups stay exact and probes end all the same.

## Not modelled

Memory: the models are sequentially consistent; the memory orders of the atomic
fields are not. `parked_lock_`, whose only waiter polls with a timeout, is left
out. Windows' and other platforms' monitors are assumed to behave like the POSIX
one; spurious wake-ups are modelled in `ThreadPool`, `Safepoint` and `MutatorSlots` and
left out where every wait is a loop over the same test (`SafepointRwLock`,
`BackgroundCompiler`, `OldSpace`, `ParallelMark`). The data that isolates exchange and the
code they run do not appear.

* Message handler: `PauseAndHandleAllMessages` and start callbacks (only unit tests use
  them), `AcquiredQueues`, keep-alive changes of receive ports and messages posted during
  `Dart_Cleanup`.
* Old space: mark bits, free lists and page contents; the incremental marking a mutator
  does in `kMarking`, `Heap::NotifyIdle`, and the last wait of an allocation that has
  failed for good (`heap.cc:165`).
* Parallel marking: weak references, weak arrays and finalizers, which wait for the same
  end of marking as weak properties; weak tables; the single-threaded variant.
* Locks: `SafepointMutexLocker` and `SafepointMonitorLocker`, try-then-block wrappers of an
  OS mutex.
* Scavenger, compactor and become: how objects are moved depends on the heap's contents
  and, between parallel workers, on compare-and-swap of headers. How a scavenge meets the
  concurrent marker and sweeper is in `OldSpace`.
* The lock-free buffers of the profiler and the timeline depend on the memory model, which
  interleavings do not capture. The event handler of `runtime/bin` depends on the operating
  system's I/O primitives.
* Everything else in the repository, more than nine tenths of its lines: compilers, object
  model, snapshots, front end, analyzer, core libraries and tools. They are sequential
  programs over large data, for which small instances say little; the map therefore covers
  the concurrent core and only a small share of all lines.
