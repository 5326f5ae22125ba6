------------------------------ MODULE OldSpace ------------------------------
(***************************************************************************)
(* The phases of an old-space collection (runtime/vm/heap: pages.cc,       *)
(* marker.cc, sweeper.cc, heap.cc, and the part of scavenger.cc that meets *)
(* them).  Mutators start concurrent marking, finish collections, scavenge,*)
(* iterate over the heap, reload and wait for the sweeper, while the tasks *)
(* of the concurrent marker and the concurrent sweeper run on the pool and *)
(* ignore safepoints.  They meet at PageSpace::tasks_lock_: every critical *)
(* section of that monitor is one step, and a thread that waits is in      *)
(* "waiters" until some NotifyAll.                                         *)
(*                                                                         *)
(* A GC safepoint operation is what Safepoint shows it to be: one owner,   *)
(* and every other mutator stopped at a place where it may be stopped.     *)
(* What is marked or freed is left out; pages are only counted.            *)
(***************************************************************************)
EXTENDS Naturals, FiniteSets

CONSTANTS
  Mutators,      \* threads that run Dart code
  Markers,       \* the FLAG_marker_tasks concurrent marker tasks
  LargePages,    \* large pages to sweep after a collection
  RegularPages,  \* other pages to sweep after a collection
  MaxOps,        \* bound on the operations the mutators start
  Sweeper,       \* the concurrent sweeper task
  Shutdown,      \* the thread that shuts the isolate group down
  None

ASSUME OldSpaceAssumption ==
  /\ IsFiniteSet(Markers) /\ Markers # {}
  /\ LargePages \in Nat /\ RegularPages \in Nat /\ MaxOps \in Nat
  /\ Mutators \cap Markers = {}
  /\ None \notin Mutators
  /\ {Sweeper, Shutdown} \cap (Mutators \cup Markers) = {}
  /\ Sweeper # Shutdown

VARIABLES
  phase,         \* phase_
  tasks,         \* tasks_
  marker_tasks,  \* concurrent_marker_tasks_
  active,        \* concurrent_marker_tasks_active_
  pause,         \* pause_concurrent_marking_
  enabled,       \* enable_concurrent_mark_
  marker,        \* whether marker_ is not null
  waiters,       \* who waits at tasks_lock_
  task,          \* what each concurrent marker task does
  roots,         \* the only root slice, kIsolate
  sweeper,       \* what the concurrent sweeper task does
  sweep_large,   \* length of sweep_large_
  sweep_regular, \* length of sweep_regular_
  page,          \* the page an actor is sweeping, taken from its list
  safepoint,     \* owner of the GC safepoint operation
  pc, call,      \* where each mutator is, and for which operation
  interrupt,     \* mutators with kVMInterrupt pending
  ops,           \* operations started
  group          \* the isolate group: alive, closing or deleted

space == <<phase, tasks, marker_tasks, active, pause, enabled, marker>>
helpers == <<task, roots, sweeper>>
pages == <<sweep_large, sweep_regular, page>>
mutators == <<safepoint, pc, call, interrupt, ops>>
vars == <<space, waiters, helpers, pages, mutators, group>>

kDone == "kDone"
kMarking == "kMarking"
kAwaitingFinalization == "kAwaitingFinalization"
kSweepingLarge == "kSweepingLarge"
kSweepingRegular == "kSweepingRegular"
Sweeping == {kSweepingLarge, kSweepingRegular}

NoCall == [kind |-> "none", compact |-> FALSE, ret |-> "idle"]

Init ==
  /\ phase = kDone /\ tasks = 0 /\ marker_tasks = 0 /\ active = 0
  /\ pause = 0 /\ enabled = TRUE /\ marker = FALSE
  /\ waiters = {}
  /\ task = [m \in Markers |-> "none"] /\ roots = "finished" /\ sweeper = "none"
  /\ sweep_large = 0 /\ sweep_regular = 0
  /\ page = [a \in Mutators \cup {Sweeper} |-> "none"]
  /\ safepoint = None
  /\ pc = [t \in Mutators |-> "idle"] /\ call = [t \in Mutators |-> NoCall]
  /\ interrupt = {} /\ ops = 0
  /\ group = "alive"

-----------------------------------------------------------------------------
(* Mutators and the GC safepoint *)

\* Where a mutator may be stopped: in Dart code, asking for a safepoint
\* operation itself, or in WaitWithSafepointCheck.
Stoppable == {"idle", "want", "wait_sweeper"}

Runs(t) == safepoint \in {None, t} /\ t \notin waiters

\* GcSafepointOperationScope, when all other mutators have stopped.
EnterSafepoint(t) ==
  /\ safepoint = None
  /\ \A u \in Mutators \ {t} : pc[u] \in Stoppable

Goto(t, l) == pc' = [pc EXCEPT ![t] = l]

\* The code inside the safepoint of an operation of this kind.
Entry(kind) ==
  CASE kind \in {"old", "finalize", "start"} -> "gc"
    [] kind \in {"scavenge", "evacuate"} -> "scavenge"
    [] kind = "iterate" -> "iterate"
    [] kind = "reload" -> "reload_wait"
    [] OTHER -> "alloc_try"

\* Begin an operation, in the safepoint operation of this thread if it has one.
Begin(t, kind, compact, ret) ==
  /\ call' = [call EXCEPT ![t] = [kind |-> kind, compact |-> compact, ret |-> ret]]
  /\ Goto(t, IF safepoint = t THEN Entry(kind) ELSE "want")

AtSafepoint(t) ==
  /\ pc[t] = "want" /\ Runs(t) /\ EnterSafepoint(t)
  /\ safepoint' = t /\ Goto(t, Entry(call[t].kind))
  /\ UNCHANGED <<space, waiters, helpers, pages, call, interrupt, ops, group>>

\* Back to the caller; the outermost scope ends the safepoint operation.
Return(t) ==
  /\ Goto(t, call[t].ret)
  /\ call' = [call EXCEPT ![t] =
       [kind |-> IF call[t].ret = "iterate_wait" THEN "iterate" ELSE "none",
        compact |-> FALSE, ret |-> "idle"]]
  /\ safepoint' = IF call[t].ret \in {"idle", "check"} THEN None ELSE t

\* MonitorLocker::Wait at tasks_lock_.
Wait(t) ==
  /\ waiters' = waiters \cup {t}
  /\ UNCHANGED <<space, helpers, pages, mutators, group>>

NotifyAll == waiters' = {}

-----------------------------------------------------------------------------
(* What mutators start.  An operation begins with a look at the phase where *)
(* the code has one; the look may be out of date once the safepoint is      *)
(* reached.                                                                 *)

Start(t) == pc[t] = "idle" /\ Runs(t) /\ group = "alive" /\ ops < MaxOps

StartOperation(t) ==
  /\ Start(t)
  /\ \/ \E compact \in BOOLEAN : Begin(t, "old", compact, "idle")
     \/ \E kind \in {"scavenge", "iterate", "reload"} : Begin(t, kind, FALSE, "idle")
  /\ ops' = ops + 1
  /\ UNCHANGED <<space, waiters, helpers, pages, safepoint, interrupt, group>>

\* CheckConcurrentMarking, where it goes on to an operation: it finishes a
\* marking that is done, or starts one if the soft threshold is reached.
Check(t, ret) ==
  \/ phase = kAwaitingFinalization /\ Begin(t, "finalize", FALSE, ret)
  \/ phase = kDone /\ Begin(t, "start", FALSE, ret)

CheckConcurrentMarking(t) ==
  /\ Start(t) /\ Check(t, "idle") /\ ops' = ops + 1
  /\ UNCHANGED <<space, waiters, helpers, pages, safepoint, interrupt, group>>

\* Thread::HandleInterrupts.  The store buffer may have overflowed.
HandleInterrupts(t) ==
  /\ pc[t] = "idle" /\ Runs(t) /\ group = "alive" /\ t \in interrupt
  /\ interrupt' = interrupt \ {t}
  /\ \/ Goto(t, "check") /\ UNCHANGED <<call, ops>>
     \/ ops < MaxOps /\ ops' = ops + 1 /\ Begin(t, "evacuate", FALSE, "check")
  /\ UNCHANGED <<space, waiters, helpers, pages, safepoint, group>>

CheckFinalizeMarking(t) ==
  /\ pc[t] = "check" /\ Runs(t)
  /\ IF phase = kAwaitingFinalization
       THEN Begin(t, "finalize", FALSE, "idle")
       ELSE Goto(t, "idle") /\ UNCHANGED call
  /\ UNCHANGED <<space, waiters, helpers, pages, safepoint, interrupt, ops, group>>

\* AllocateOld when the free lists and the page limit do not help.
AllocateOld(t) ==
  /\ Start(t) /\ Goto(t, "wait_sweeper") /\ ops' = ops + 1
  /\ UNCHANGED <<space, waiters, helpers, pages, safepoint, call, interrupt, group>>

WaitForSweeperTasks(t) ==
  /\ pc[t] = "wait_sweeper" /\ Runs(t)
  /\ \/ phase \in Sweeping /\ Wait(t)
     \/ /\ phase \notin Sweeping
        /\ \/ Goto(t, "idle") /\ UNCHANGED call
           \/ Begin(t, "alloc", FALSE, "idle")
        /\ UNCHANGED <<space, waiters, helpers, pages, safepoint, interrupt, ops, group>>

\* Another thread may have collected before this one reached the safepoint.
RetryAllocation(t) ==
  /\ pc[t] = "alloc_try" /\ Runs(t)
  /\ \/ Return(t)
     \/ Begin(t, "old", FALSE, "alloc_retry") /\ UNCHANGED safepoint
  /\ UNCHANGED <<space, waiters, helpers, pages, interrupt, ops, group>>

\* The collection may have freed enough, else the thread waits for the sweeper.
AllocateAfterCollection(t) ==
  /\ pc[t] = "alloc_retry" /\ Runs(t)
  /\ \/ Return(t)
     \/ Goto(t, "alloc") /\ UNCHANGED <<safepoint, call>>
  /\ UNCHANGED <<space, waiters, helpers, pages, interrupt, ops, group>>

WaitForSweeperTasksAtSafepoint(t) ==
  /\ pc[t] \in {"alloc", "alloc_last"} /\ Runs(t)
  /\ \/ phase \in Sweeping /\ Wait(t)
     \/ /\ phase \notin Sweeping
        /\ \/ Return(t)
           \/ /\ pc[t] = "alloc"
              /\ Begin(t, "old", TRUE, "alloc_last") /\ UNCHANGED safepoint
        /\ UNCHANGED <<space, waiters, helpers, pages, interrupt, ops, group>>

-----------------------------------------------------------------------------
(* PageSpace::CollectGarbage, by the owner of the safepoint *)

\* The marking was finished by another thread ("Lost race"), or concurrent
\* marking is disabled or already running.
NothingToCollect(t) ==
  /\ pc[t] = "gc" /\ Runs(t)
  /\ \/ call[t].kind = "finalize" /\ phase # kAwaitingFinalization
     \/ /\ call[t].kind = "start"
        /\ ~enabled \/ phase \in {kMarking, kAwaitingFinalization}
  /\ Return(t)
  /\ UNCHANGED <<space, waiters, helpers, pages, interrupt, ops, group>>

\* AssistTasks: the marking stack is drained, or the sweep lists are, without
\* the lock.
AssistTasks(t, next) ==
  /\ Goto(t, CASE phase = kMarking -> "assist_mark"
               [] phase \in Sweeping -> "assist_regular"
               [] OTHER -> next)

AfterAssist(t) == IF call[t].kind = "iterate" THEN "iterate_final" ELSE "gc_wait"

CollectGarbage(t) ==
  /\ pc[t] = "gc" /\ Runs(t)
  /\ call[t].kind = "finalize" => phase = kAwaitingFinalization
  /\ call[t].kind = "start" =>
       enabled /\ phase \notin {kMarking, kAwaitingFinalization}
  /\ AssistTasks(t, "gc_wait")
  /\ UNCHANGED <<space, waiters, helpers, pages, safepoint, call, interrupt, ops, group>>

\* IncrementalMarkWithUnlimitedBudget, then the second test of the phase.
AssistMarking(t) ==
  /\ pc[t] = "assist_mark" /\ Runs(t)
  /\ Goto(t, IF phase \in Sweeping THEN "assist_regular" ELSE AfterAssist(t))
  /\ UNCHANGED <<space, waiters, helpers, pages, safepoint, call, interrupt, ops, group>>

\* Sweep and SweepLarge by any actor: a page at a time, outside pages_lock_.
TakeRegular(a) ==
  /\ sweep_regular > 0 /\ page[a] = "none"
  /\ sweep_regular' = sweep_regular - 1 /\ page' = [page EXCEPT ![a] = "regular"]
  /\ UNCHANGED sweep_large

TakeLarge(a) ==
  /\ sweep_large > 0 /\ page[a] = "none"
  /\ sweep_large' = sweep_large - 1 /\ page' = [page EXCEPT ![a] = "large"]
  /\ UNCHANGED sweep_regular

PutPage(a) ==
  /\ page[a] # "none"
  /\ page' = [page EXCEPT ![a] = "none"] /\ UNCHANGED <<sweep_large, sweep_regular>>

AssistSweeping(t) ==
  /\ Runs(t)
  /\ \/ /\ \/ pc[t] = "assist_regular" /\ TakeRegular(t)
           \/ pc[t] = "assist_large" /\ TakeLarge(t)
           \/ pc[t] \in {"assist_regular", "assist_large"} /\ PutPage(t)
        /\ UNCHANGED pc
     \/ /\ page[t] = "none" /\ UNCHANGED pages
        /\ \/ pc[t] = "assist_regular" /\ sweep_regular = 0 /\ Goto(t, "assist_large")
           \/ pc[t] = "assist_large" /\ sweep_large = 0 /\ Goto(t, AfterAssist(t))
  /\ UNCHANGED <<space, waiters, helpers, safepoint, call, interrupt, ops, group>>

\* Fault: the wait is only for the marker's tasks.
WaitForTasks_Fault(t) ==
  /\ pc[t] = "gc_wait" /\ Runs(t)
  /\ \/ marker_tasks > 0 /\ Wait(t)
     \/ /\ marker_tasks = 0 /\ tasks' = tasks + 1 /\ Goto(t, "collect")
        /\ UNCHANGED <<phase, marker_tasks, active, pause, enabled, marker, waiters,
                       helpers, pages, safepoint, call, interrupt, ops, group>>

\* Wait for the tasks to end, and count the collection itself as one.
WaitForTasks(t) ==
  /\ pc[t] = "gc_wait" /\ Runs(t)
  /\ \/ tasks > 0 /\ Wait(t)
     \/ /\ tasks = 0 /\ tasks' = 1 /\ Goto(t, "collect")
        /\ UNCHANGED <<phase, marker_tasks, active, pause, enabled, marker, waiters,
                       helpers, pages, safepoint, call, interrupt, ops, group>>

\* CollectGarbageHelper with finalize: MarkObjects, then the sweep lists, then
\* compaction, the concurrent sweeper, or sweeping here if memory is short.
CollectGarbageHelper(t) ==
  /\ pc[t] = "collect" /\ Runs(t) /\ call[t].kind # "start"
  /\ marker' = FALSE
  /\ \/ phase' = kDone /\ UNCHANGED <<tasks, sweeper, sweep_large, sweep_regular>>
     \/ /\ ~call[t].compact
        /\ phase' = kSweepingLarge /\ tasks' = tasks + 1 /\ sweeper' = "queued"
        /\ sweep_large' = LargePages /\ sweep_regular' = RegularPages
  /\ Goto(t, "gc_end")
  /\ UNCHANGED <<marker_tasks, active, pause, enabled, waiters, task, roots, page,
                 safepoint, call, interrupt, ops, group>>

\* StartConcurrentMark: all tasks are counted before the first is started.
StartConcurrentMark(t) ==
  /\ pc[t] = "collect" /\ Runs(t) /\ call[t].kind = "start"
  /\ marker' = TRUE /\ phase' = kMarking
  /\ tasks' = tasks + Cardinality(Markers)
  /\ marker_tasks' = marker_tasks + Cardinality(Markers)
  /\ active' = active + Cardinality(Markers)
  /\ roots' = "free" /\ task' = [m \in Markers |-> "new"] /\ Goto(t, "spawn")
  /\ UNCHANGED <<pause, enabled, waiters, sweeper, pages, safepoint, call,
                 interrupt, ops, group>>

\* The last task starts after this thread has marked the roots, if no task has
\* taken that slice.
SpawnMarker(t, m) ==
  /\ pc[t] = "spawn" /\ Runs(t) /\ task[m] = "new"
  /\ task' = [task EXCEPT ![m] = "queued"]
  /\ IF \E n \in Markers \ {m} : task[n] = "new"
       THEN UNCHANGED <<roots, pc>>
       ELSE /\ roots' = IF roots = "free" THEN "finished" ELSE roots
            /\ Goto(t, "wait_roots")
  /\ UNCHANGED <<space, waiters, sweeper, pages, safepoint, call, interrupt, ops, group>>

WaitForRoots(t) ==
  /\ pc[t] = "wait_roots" /\ Runs(t) /\ roots = "finished"
  /\ Goto(t, "gc_end")
  /\ UNCHANGED <<space, waiters, helpers, pages, safepoint, call, interrupt, ops, group>>

CollectGarbageEnds(t) ==
  /\ pc[t] = "gc_end" /\ Runs(t)
  /\ tasks' = tasks - 1 /\ NotifyAll /\ Return(t)
  /\ UNCHANGED <<phase, marker_tasks, active, pause, enabled, marker, helpers, pages,
                 interrupt, ops, group>>

-----------------------------------------------------------------------------
(* Scavenge, heap iteration and reload, by the owner of the safepoint *)

PauseConcurrentMarking(t) ==
  /\ pc[t] = "scavenge" /\ Runs(t)
  /\ pause' = 1 /\ Goto(t, "pausing")
  /\ UNCHANGED <<phase, tasks, marker_tasks, active, enabled, marker, waiters, helpers,
                 pages, safepoint, call, interrupt, ops, group>>

\* Fault: the scavenger does not wait for the tasks it has asked to pause.
WaitForPause_Fault(t) ==
  /\ pc[t] = "pausing" /\ Runs(t) /\ Goto(t, "scavenging")
  /\ UNCHANGED <<space, waiters, helpers, pages, safepoint, call, interrupt, ops, group>>

WaitForPause(t) ==
  /\ pc[t] = "pausing" /\ Runs(t)
  /\ \/ active # 0 /\ Wait(t)
     \/ /\ active = 0 /\ Goto(t, "scavenging")
        /\ UNCHANGED <<space, waiters, helpers, pages, safepoint, call, interrupt,
                       ops, group>>

\* The scavenger reads the list of large pages (VisitRememberedCards).
VisitRememberedCards(t) ==
  /\ pc[t] = "scavenging" /\ Runs(t)
  /\ \/ phase = kSweepingLarge /\ Wait(t)
     \/ /\ phase # kSweepingLarge /\ Goto(t, "cards")
        /\ UNCHANGED <<space, waiters, helpers, pages, safepoint, call, interrupt,
                       ops, group>>

ResumeConcurrentMarking(t) ==
  /\ pc[t] = "cards" /\ Runs(t)
  /\ pause' = 0 /\ NotifyAll /\ Goto(t, "scavenged")
  /\ UNCHANGED <<phase, tasks, marker_tasks, active, enabled, marker, helpers, pages,
                 safepoint, call, interrupt, ops, group>>

\* The end of CollectNewSpaceGarbage: promotion may have filled old space.
AfterScavenge(t) ==
  /\ pc[t] = "scavenged" /\ Runs(t)
  /\ \/ Return(t)
     \/ /\ call[t].kind = "scavenge" /\ UNCHANGED safepoint
        /\ \/ Begin(t, "old", FALSE, call[t].ret)
           \/ Check(t, call[t].ret)
  /\ UNCHANGED <<space, waiters, helpers, pages, interrupt, ops, group>>

\* HeapIterationScope: wait until old space is at rest.
IterationAssists(t) ==
  /\ pc[t] = "iterate" /\ Runs(t) /\ (tasks > 0 \/ phase # kDone)
  /\ AssistTasks(t, "iterate_final")
  /\ UNCHANGED <<space, waiters, helpers, pages, safepoint, call, interrupt, ops, group>>

IterationFinalizes(t) ==
  /\ pc[t] = "iterate_final" /\ Runs(t)
  /\ \/ /\ phase = kAwaitingFinalization
        /\ Begin(t, "finalize", FALSE, "iterate_wait")
        /\ UNCHANGED <<space, waiters, helpers, pages, safepoint, interrupt, ops, group>>
     \/ /\ phase # kAwaitingFinalization
        /\ Goto(t, "iterate_wait")
        /\ UNCHANGED <<space, waiters, helpers, pages, safepoint, call, interrupt,
                       ops, group>>

IterationWaits(t) ==
  /\ pc[t] = "iterate_wait" /\ Runs(t)
  /\ \/ tasks > 0 /\ Wait(t)
     \/ /\ tasks = 0 /\ Goto(t, "iterate")
        /\ UNCHANGED <<space, waiters, helpers, pages, safepoint, call, interrupt,
                       ops, group>>

IterationBegins(t) ==
  /\ pc[t] = "iterate" /\ Runs(t) /\ tasks = 0 /\ phase = kDone
  /\ tasks' = 1 /\ Goto(t, "iterating")
  /\ UNCHANGED <<phase, marker_tasks, active, pause, enabled, marker, waiters, helpers,
                 pages, safepoint, call, interrupt, ops, group>>

IterationEnds(t) ==
  /\ pc[t] = "iterating" /\ Runs(t)
  /\ tasks' = 0 /\ NotifyAll /\ Return(t)
  /\ UNCHANGED <<phase, marker_tasks, active, pause, enabled, marker, helpers, pages,
                 interrupt, ops, group>>

\* Fault: concurrent marking stays enabled.
WaitForMarkerTasks_Fault(t) ==
  /\ pc[t] = "reload_wait" /\ Runs(t)
  /\ \/ phase = kMarking /\ Wait(t)
     \/ /\ phase = kAwaitingFinalization
        /\ Begin(t, "finalize", FALSE, "reload_wait")
        /\ UNCHANGED <<space, waiters, helpers, pages, safepoint, interrupt, ops, group>>
     \/ /\ phase \notin {kMarking, kAwaitingFinalization} /\ Goto(t, "reloading")
        /\ UNCHANGED <<space, waiters, helpers, pages, safepoint, call, interrupt, ops,
                       group>>

\* Reload waits for the marker (WaitForMarkerTasks), then turns concurrent
\* marking off; what it loads may allocate, and so start collections.
WaitForMarkerTasks(t) ==
  /\ pc[t] = "reload_wait" /\ Runs(t)
  /\ \/ phase = kMarking /\ Wait(t)
     \/ /\ phase = kAwaitingFinalization
        /\ Begin(t, "finalize", FALSE, "reload_wait")
        /\ UNCHANGED <<space, waiters, helpers, pages, safepoint, interrupt, ops, group>>
     \/ /\ phase \notin {kMarking, kAwaitingFinalization}
        /\ enabled' = FALSE /\ Goto(t, "reloading")
        /\ UNCHANGED <<phase, tasks, marker_tasks, active, pause, marker, waiters,
                       helpers, pages, safepoint, call, interrupt, ops, group>>

ReloadAllocates(t) ==
  /\ pc[t] = "reloading" /\ Runs(t) /\ ops < MaxOps /\ ops' = ops + 1
  /\ Check(t, "reloading") \/ Begin(t, "old", FALSE, "reloading")
  /\ UNCHANGED <<space, waiters, helpers, pages, safepoint, interrupt, group>>

ReloadEnds(t) ==
  /\ pc[t] = "reloading" /\ Runs(t)
  /\ enabled' = TRUE /\ Goto(t, "idle") /\ safepoint' = None
  /\ UNCHANGED <<phase, tasks, marker_tasks, active, pause, marker, waiters, helpers,
                 pages, call, interrupt, ops, group>>

-----------------------------------------------------------------------------
(* The concurrent marker tasks, which bypass safepoints *)

\* ConcurrentMarkTask::Run: IterateRoots by the first that claims the slice.
MarkerStarts(m) ==
  /\ task[m] = "queued"
  /\ \/ roots = "free" /\ roots' = "claimed" /\ task' = [task EXCEPT ![m] = "roots"]
     \/ roots # "free" /\ task' = [task EXCEPT ![m] = "marking"] /\ UNCHANGED roots
  /\ UNCHANGED <<space, waiters, sweeper, pages, mutators, group>>

RootsMarked(m) ==
  /\ task[m] = "roots" /\ roots' = "finished"
  /\ task' = [task EXCEPT ![m] = "marking"]
  /\ UNCHANGED <<space, waiters, sweeper, pages, mutators, group>>

\* Fault: the last task to pause does not say so.
YieldConcurrentMarking_Fault(m) ==
  /\ task[m] = "marking" /\ pause # 0
  /\ active' = active - 1 /\ task' = [task EXCEPT ![m] = "paused"]
  /\ waiters' = waiters \cup {m}
  /\ UNCHANGED <<phase, tasks, marker_tasks, pause, enabled, marker, roots, sweeper,
                 pages, mutators, group>>

\* YieldConcurrentMarking between two objects.
YieldConcurrentMarking(m) ==
  /\ task[m] = "marking" /\ pause # 0
  /\ active' = active - 1 /\ task' = [task EXCEPT ![m] = "paused"]
  /\ waiters' = (IF active = 1 THEN {} ELSE waiters) \cup {m}
  /\ UNCHANGED <<phase, tasks, marker_tasks, pause, enabled, marker, roots, sweeper,
                 pages, mutators, group>>

MarkerResumes(m) ==
  /\ task[m] = "paused" /\ m \notin waiters
  /\ \/ pause # 0 /\ Wait(m)
     \/ /\ pause = 0 /\ active' = active + 1 /\ task' = [task EXCEPT ![m] = "marking"]
        /\ UNCHANGED <<phase, tasks, marker_tasks, pause, enabled, marker, waiters,
                       roots, sweeper, pages, mutators, group>>

\* The marking stack is empty; the task leaves the isolate group...
MarkerLeaves(m) ==
  /\ task[m] = "marking" /\ task' = [task EXCEPT ![m] = "left"]
  /\ UNCHANGED <<space, waiters, roots, sweeper, pages, mutators, group>>

\* Fault: no interrupt is scheduled when marking is done.
MarkerEnds_Fault(m) ==
  /\ task[m] = "left" /\ task' = [task EXCEPT ![m] = "none"]
  /\ tasks' = tasks - 1 /\ marker_tasks' = marker_tasks - 1 /\ active' = active - 1
  /\ phase' = IF marker_tasks = 1 THEN kAwaitingFinalization ELSE phase
  /\ NotifyAll
  /\ UNCHANGED <<pause, enabled, marker, roots, sweeper, pages, mutators, group>>

\* ...before it says so.
MarkerEnds(m) ==
  /\ task[m] = "left" /\ task' = [task EXCEPT ![m] = "none"]
  /\ tasks' = tasks - 1 /\ marker_tasks' = marker_tasks - 1 /\ active' = active - 1
  /\ IF marker_tasks = 1
       THEN phase' = kAwaitingFinalization /\ interrupt' = Mutators
       ELSE UNCHANGED <<phase, interrupt>>
  /\ NotifyAll
  /\ UNCHANGED <<pause, enabled, marker, roots, sweeper, pages, safepoint, pc, call,
                 ops, group>>

-----------------------------------------------------------------------------
(* The concurrent sweeper task *)

SweeperStarts ==
  /\ sweeper = "queued" /\ sweeper' = "large"
  /\ UNCHANGED <<space, waiters, task, roots, pages, mutators, group>>

SweeperSweeps ==
  /\ \/ sweeper = "large" /\ TakeLarge(Sweeper)
     \/ sweeper = "regular" /\ TakeRegular(Sweeper)
     \/ PutPage(Sweeper)
  /\ UNCHANGED <<space, waiters, helpers, mutators, group>>

LargePagesSwept ==
  /\ sweeper = "large" /\ page[Sweeper] = "none" /\ sweep_large = 0
  /\ phase' = kSweepingRegular /\ sweeper' = "regular" /\ NotifyAll
  /\ UNCHANGED <<tasks, marker_tasks, active, pause, enabled, marker, task, roots,
                 pages, mutators, group>>

\* Fault: the sweeper leaves before the list is empty.
SweeperLeaves_Fault ==
  /\ sweeper = "regular" /\ page[Sweeper] = "none" /\ sweeper' = "left"
  /\ UNCHANGED <<space, waiters, task, roots, pages, mutators, group>>
SweeperLeaves ==
  /\ sweeper = "regular" /\ page[Sweeper] = "none" /\ sweep_regular = 0
  /\ sweeper' = "left"
  /\ UNCHANGED <<space, waiters, task, roots, pages, mutators, group>>

SweeperEnds ==
  /\ sweeper = "left" /\ sweeper' = "none"
  /\ tasks' = tasks - 1 /\ phase' = kDone /\ NotifyAll
  /\ UNCHANGED <<marker_tasks, active, pause, enabled, marker, task, roots, pages,
                 mutators, group>>

-----------------------------------------------------------------------------
(* IsolateGroup::Shutdown, when the pool of the mutators has been joined *)

ShutdownBegins ==
  /\ group = "alive" /\ \A t \in Mutators : pc[t] = "idle"
  /\ group' = "closing"
  /\ UNCHANGED <<space, waiters, helpers, pages, mutators>>

ShutdownWaits ==
  /\ group = "closing" /\ Shutdown \notin waiters
  /\ \/ tasks > 0 /\ Wait(Shutdown)
     \/ /\ tasks = 0 /\ marker' = FALSE /\ group' = "deleted"
        /\ UNCHANGED <<phase, tasks, marker_tasks, active, pause, enabled, waiters,
                       helpers, pages, mutators>>

-----------------------------------------------------------------------------
MutatorStep(t) ==
  \/ AtSafepoint(t) \/ HandleInterrupts(t) \/ CheckFinalizeMarking(t)
  \/ WaitForSweeperTasks(t) \/ RetryAllocation(t) \/ AllocateAfterCollection(t)
  \/ WaitForSweeperTasksAtSafepoint(t)
  \/ NothingToCollect(t) \/ CollectGarbage(t) \/ AssistMarking(t) \/ AssistSweeping(t)
  \/ WaitForTasks(t) \/ CollectGarbageHelper(t) \/ StartConcurrentMark(t)
  \/ (\E m \in Markers : SpawnMarker(t, m)) \/ WaitForRoots(t) \/ CollectGarbageEnds(t)
  \/ PauseConcurrentMarking(t) \/ WaitForPause(t) \/ VisitRememberedCards(t)
  \/ ResumeConcurrentMarking(t) \/ AfterScavenge(t)
  \/ IterationAssists(t) \/ IterationFinalizes(t) \/ IterationWaits(t)
  \/ IterationBegins(t) \/ IterationEnds(t)
  \/ WaitForMarkerTasks(t) \/ ReloadAllocates(t) \/ ReloadEnds(t)

MarkerStep(m) ==
  \/ MarkerStarts(m) \/ RootsMarked(m) \/ YieldConcurrentMarking(m)
  \/ MarkerResumes(m) \/ MarkerLeaves(m) \/ MarkerEnds(m)

SweeperStep ==
  \/ SweeperStarts \/ SweeperSweeps \/ LargePagesSwept \/ SweeperLeaves \/ SweeperEnds

Next ==
  \/ \E t \in Mutators : StartOperation(t) \/ CheckConcurrentMarking(t)
                         \/ AllocateOld(t) \/ MutatorStep(t)
  \/ \E m \in Markers : MarkerStep(m)
  \/ SweeperStep
  \/ ShutdownBegins \/ ShutdownWaits

\* A thread inside an operation goes on, Dart code looks at its interrupts, and
\* the pool runs the tasks.  Nobody has to start an operation.
Fairness ==
  /\ \A t \in Mutators : WF_vars(MutatorStep(t))
  /\ \A m \in Markers : WF_vars(MarkerStep(m))
  /\ WF_vars(SweeperStep) /\ WF_vars(ShutdownWaits)

Spec == Init /\ [][Next]_vars /\ Fairness

-----------------------------------------------------------------------------
(* Properties *)

\* While a thread collects or iterates, it is alone: no marker or sweeper task
\* is left, nobody holds a page, and the phase is one CollectGarbageHelper and
\* HeapIterationScope assert: marked and not finalized, or at rest, with a
\* GCMarker exactly in the first case.  A group is deleted when no task can still
\* use it.
CollectorIsAlone ==
  \A t \in Mutators :
    /\ pc[t] \in {"collect", "iterating"} =>
         /\ safepoint = t /\ tasks = 1 /\ sweeper = "none"
         /\ \A m \in Markers : task[m] = "none"
         /\ \A a \in DOMAIN page : page[a] = "none"
         /\ sweep_large = 0 /\ sweep_regular = 0
    /\ pc[t] = "collect" => phase = (IF marker THEN kAwaitingFinalization ELSE kDone)
    /\ pc[t] = "collect" /\ call[t].kind = "start" => ~marker
    /\ pc[t] = "iterating" => phase = kDone
    /\ group = "deleted" => sweeper = "none" /\ \A m \in Markers : task[m] = "none"

\* While the scavenger moves objects no concurrent marker looks at one, and
\* while it reads the large pages no sweeper changes their list.
ScavengeIsQuiet ==
  \A t \in Mutators :
    /\ pc[t] \in {"scavenging", "cards"} =>
         \A m \in Markers : task[m] \notin {"roots", "marking"}
    /\ pc[t] = "cards" => sweep_large = 0 /\ \A a \in DOMAIN page : page[a] # "large"

\* When mutators see old space at rest, every page has been swept, also those
\* that an assisting thread took from the lists.
RestIsSwept ==
  phase = kDone /\ safepoint = None =>
    sweep_large = 0 /\ sweep_regular = 0 /\ \A a \in DOMAIN page : page[a] = "none"

\* No marking runs or waits to be finalized while a reload changes the classes.
ReloadIsUnmarked ==
  \A t \in Mutators : pc[t] = "reloading" => phase \notin {kMarking, kAwaitingFinalization}

\* Every operation ends, and so does the shutdown of a group: nobody waits for a
\* task that waits for it.
OperationsEnd ==
  /\ \A t \in Mutators : pc[t] # "idle" ~> pc[t] = "idle"
  /\ group = "closing" ~> group = "deleted"

\* A finished marking is finalized, by the interrupt the last task sends if by
\* nothing else, unless the group ends.
MarkingIsFinalized ==
  phase = kAwaitingFinalization ~> phase # kAwaitingFinalization \/ group # "alive"

=============================================================================
