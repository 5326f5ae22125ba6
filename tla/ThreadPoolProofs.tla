-------------------------- MODULE ThreadPoolProofs --------------------------
(***************************************************************************)
(* Safety of ThreadPool for any set of workers, any set of tasks and any   *)
(* pool size: the books of the pool, wakeups, and the joining of every     *)
(* worker thread exactly once before Shutdown returns.                     *)
(*                                                                         *)
(* Zenon proves most steps; those that need arithmetic or more of the      *)
(* theory of functions cite SMT.                                           *)
(***************************************************************************)
EXTENDS ThreadPool, FiniteSetTheorems, TLAPS

USE ZenonT(30)

\* The lists are finite although Workers need not be.
ListsFinite ==
  /\ IsFiniteSet(idle_workers) /\ IsFiniteSet(running_workers)
  /\ IsFiniteSet(is_blocked)

\* The bookkeeping part of the inductive invariant ...
Books ==
  /\ TypeOK /\ WorkersPlaced /\ ListsFinite
  /\ CountsMatchLists /\ CapacityCountsBlocked

\* ... and the part about who will run the pending tasks.
Served == NoLostWakeup /\ UnlimitedNeverQueues /\ LimitedHasServer

USE DEF lists, queue, sync, threads, flags, capacity, shutter, At, Go, MonitorFree

-----------------------------------------------------------------------------
\* What the steps need to know of sequences.
LEMMA EmptySeq ==
  ASSUME NEW S
  PROVE  /\ <<>> \in Seq(S) /\ Len(<<>>) = 0
         /\ \A seq \in Seq(S) : (seq # <<>>) => (Len(seq) \in Nat \ {0})
  BY SMT

LEMMA LenProperties ==
  ASSUME NEW S, NEW s \in Seq(S)
  PROVE  Len(s) \in Nat
  BY SMT

LEMMA AppendProperties ==
  ASSUME NEW S, NEW s \in Seq(S), NEW e \in S
  PROVE  /\ Append(s, e) \in Seq(S) /\ Append(s, e) # <<>>
         /\ Len(Append(s, e)) = Len(s) + 1
  <1>1. Append(s, e) \in Seq(S) /\ Len(Append(s, e)) = Len(s) + 1
    BY SMT
  <1>2. Len(s) \in Nat /\ Len(<<>>) = 0
    BY SMT
  <1>3. Len(Append(s, e)) # Len(<<>>)
    BY SMT, <1>1, <1>2
  <1> QED BY <1>1, <1>3

LEMMA HeadTailProperties ==
  ASSUME NEW S, NEW s \in Seq(S), s # <<>>
  PROVE  /\ Head(s) \in S /\ Tail(s) \in Seq(S)
         /\ Len(Tail(s)) = Len(s) - 1
  BY SMT

\* Cardinalities, in the form the steps below need.
LEMMA CardAdd ==
  ASSUME NEW S, NEW x, IsFiniteSet(S), x \notin S
  PROVE  /\ IsFiniteSet(S \cup {x})
         /\ Cardinality(S \cup {x}) = Cardinality(S) + 1
  BY FS_AddElement

LEMMA CardRemove ==
  ASSUME NEW S, NEW x, IsFiniteSet(S), x \in S
  PROVE  /\ IsFiniteSet(S \ {x})
         /\ Cardinality(S \ {x}) = Cardinality(S) - 1
         /\ Cardinality(S) \in Nat \ {0}
  BY FS_RemoveElement, FS_CardinalityType, FS_EmptySet

-----------------------------------------------------------------------------
\* The initial state keeps the books.
LEMMA InitBooks == Init => Books
  <1> SUFFICES ASSUME Init PROVE Books OBVIOUS
  <1>1. TypeOK
    <2>1. FlagsOK /\ NumbersOK
      BY PoolAssumption DEF Init, FlagsOK, NumbersOK, ShutdownStates
    <2>2. ListsOK
      BY EmptySeq DEF Init, ListsOK
    <2>3. ThreadsOK
      BY DEF Init, ThreadsOK, ThreadStates, TaskStates
    <2> QED BY <2>1, <2>2, <2>3 DEF TypeOK
  <1>2. WorkersPlaced
    BY DEF Init, WorkersPlaced, IdlePositions
  <1>3. ListsFinite /\ CountsMatchLists
    BY FS_EmptySet DEF Init, ListsFinite, CountsMatchLists
  <1>4. CapacityCountsBlocked
    BY SMT, FS_EmptySet, PoolAssumption DEF Init, CapacityCountsBlocked
  <1> QED BY <1>1, <1>2, <1>3, <1>4 DEF Books
-----------------------------------------------------------------------------
\* What the books say of the worker that takes the next step, and of the queue.
LEMMA IdleLeaves ==
  ASSUME Books, NEW w \in idle_workers
  PROVE  /\ IsFiniteSet(idle_workers \ {w})
         /\ Cardinality(idle_workers \ {w}) = Cardinality(idle_workers) - 1
         /\ Cardinality(idle_workers) \in Nat \ {0}
  BY CardRemove DEF Books, ListsFinite

LEMMA IdleJoins ==
  ASSUME Books, NEW w, w \notin idle_workers
  PROVE  /\ IsFiniteSet(idle_workers \cup {w})
         /\ Cardinality(idle_workers \cup {w}) = Cardinality(idle_workers) + 1
  BY CardAdd DEF Books, ListsFinite

LEMMA RunningLeaves ==
  ASSUME Books, NEW w \in running_workers
  PROVE  /\ IsFiniteSet(running_workers \ {w})
         /\ Cardinality(running_workers \ {w}) = Cardinality(running_workers) - 1
         /\ Cardinality(running_workers) \in Nat \ {0}
  BY CardRemove DEF Books, ListsFinite

LEMMA RunningJoins ==
  ASSUME Books, NEW w, w \notin running_workers
  PROVE  /\ IsFiniteSet(running_workers \cup {w})
         /\ Cardinality(running_workers \cup {w}) = Cardinality(running_workers) + 1
  BY CardAdd DEF Books, ListsFinite

LEMMA QueueShrinks ==
  ASSUME Books, tasks # <<>>
  PROVE  /\ Head(tasks) \in Tasks /\ Tail(tasks) \in Seq(Tasks)
         /\ Len(tasks) \in Nat \ {0} /\ Len(Tail(tasks)) = Len(tasks) - 1
  BY HeadTailProperties, EmptySeq DEF Books, TypeOK, ListsOK

LEMMA DeathCounted ==
  ASSUME Books, NEW w \in idle_workers, IdleToDeadLocked(w),
         UNCHANGED <<queue, capacity>>
  PROVE  ListsFinite' /\ CountsMatchLists' /\ NumbersOK'
  <1>1. dead_workers' = {w}
    BY DEF IdleToDeadLocked, DeadAfterObtain
  <1>2. Cardinality(dead_workers') = 1
    BY <1>1, FS_Singleton
  <1>3. /\ IsFiniteSet(idle_workers') /\ count_idle' = Cardinality(idle_workers')
        /\ count_idle' \in Nat
    <2>1. /\ IsFiniteSet(idle_workers \ {w}) /\ Cardinality(idle_workers) \in Nat \ {0}
          /\ Cardinality(idle_workers \ {w}) = Cardinality(idle_workers) - 1
      BY IdleLeaves
    <2>2. idle_workers' = idle_workers \ {w} /\ count_idle' = count_idle - 1
      BY DEF IdleToDeadLocked
    <2> QED BY SMT, <2>1, <2>2 DEF Books, CountsMatchLists
  <1>4. /\ count_dead' = 1
        /\ UNCHANGED <<running_workers, count_running>>
    BY DEF IdleToDeadLocked
  <1> QED
    BY <1>2, <1>3, <1>4 DEF Books, TypeOK, NumbersOK, ListsFinite, CountsMatchLists

-----------------------------------------------------------------------------
\* Every step keeps the books: one lemma per action.

LEMMA StartThreadBooks ==
  ASSUME Books, NEW w \in Workers, StartThread(w)
  PROVE  Books'
  <1> USE DEF StartThread
  <1>1. FlagsOK' /\ ListsOK'
    BY DEF Books, TypeOK, FlagsOK, ListsOK, ShutdownStates
  <1>2. ThreadsOK'
    BY DEF Books, TypeOK, ListsOK, ThreadsOK, ThreadStates, TaskStates
  <1>3. WorkersPlaced'
    BY DEF Books, TypeOK, FlagsOK, ListsOK, ThreadsOK, WorkersPlaced, IdlePositions
  <1>4. ListsFinite' /\ CountsMatchLists' /\ NumbersOK'
    BY DEF Books, TypeOK, NumbersOK, ListsFinite, CountsMatchLists
  <1>5. CapacityCountsBlocked'
    BY DEF Books, CapacityCountsBlocked
  <1> QED BY <1>1, <1>2, <1>3, <1>4, <1>5 DEF Books, TypeOK

LEMMA WakeStepBooks ==
  ASSUME Books, NEW w \in Workers, WakeStep(w)
  PROVE  Books'
  <1> USE DEF WakeStep, WaitTimesOut, SpuriousWakeup
  <1>1. FlagsOK' /\ ListsOK'
    BY DEF Books, TypeOK, FlagsOK, ListsOK, ShutdownStates
  <1>2. ThreadsOK'
    BY DEF Books, TypeOK, ListsOK, ThreadsOK, ThreadStates, TaskStates
  <1>3. WorkersPlaced'
    BY DEF Books, TypeOK, FlagsOK, ListsOK, ThreadsOK, WorkersPlaced, IdlePositions
  <1>4. ListsFinite' /\ CountsMatchLists' /\ NumbersOK'
    BY DEF Books, TypeOK, NumbersOK, ListsFinite, CountsMatchLists
  <1>5. CapacityCountsBlocked'
    BY DEF Books, CapacityCountsBlocked
  <1> QED BY <1>1, <1>2, <1>3, <1>4, <1>5 DEF Books, TypeOK

LEMMA RunRefusedBooks ==
  ASSUME Books, NEW t \in Tasks, RunRefused(t)
  PROVE  Books'
  <1> USE DEF RunRefused
  <1>1. FlagsOK' /\ ListsOK'
    BY DEF Books, TypeOK, FlagsOK, ListsOK, ShutdownStates
  <1>2. ThreadsOK'
    BY DEF Books, TypeOK, ListsOK, ThreadsOK, ThreadStates, TaskStates
  <1>3. WorkersPlaced'
    BY DEF Books, TypeOK, FlagsOK, ListsOK, ThreadsOK, WorkersPlaced, IdlePositions
  <1>4. ListsFinite' /\ CountsMatchLists' /\ NumbersOK'
    BY DEF Books, TypeOK, NumbersOK, ListsFinite, CountsMatchLists
  <1>5. CapacityCountsBlocked'
    BY DEF Books, CapacityCountsBlocked
  <1> QED BY <1>1, <1>2, <1>3, <1>4, <1>5 DEF Books, TypeOK

LEMMA ThreadExitBooks ==
  ASSUME Books, NEW w \in Workers, ThreadExit(w)
  PROVE  Books'
  <1> USE DEF ThreadExit
  <1>1. FlagsOK' /\ ListsOK'
    BY DEF Books, TypeOK, FlagsOK, ListsOK, ShutdownStates
  <1>2. ThreadsOK'
    BY DEF Books, TypeOK, ListsOK, ThreadsOK, ThreadStates, TaskStates
  <1>3. WorkersPlaced'
    BY DEF Books, TypeOK, FlagsOK, ListsOK, ThreadsOK, WorkersPlaced, IdlePositions
  <1>4. ListsFinite' /\ CountsMatchLists' /\ NumbersOK'
    BY DEF Books, TypeOK, NumbersOK, ListsFinite, CountsMatchLists
  <1>5. CapacityCountsBlocked'
    BY DEF Books, CapacityCountsBlocked
  <1> QED BY <1>1, <1>2, <1>3, <1>4, <1>5 DEF Books, TypeOK

LEMMA JoinBooks ==
  ASSUME Books, NEW w \in Workers, NEW d \in Workers, JoinDeadWorker(w, d)
  PROVE  Books'
  <1> USE DEF JoinDeadWorker
  <1>1. FlagsOK' /\ ListsOK'
    BY DEF Books, TypeOK, FlagsOK, ListsOK, ShutdownStates
  <1>2. ThreadsOK'
    BY DEF Books, TypeOK, ListsOK, ThreadsOK, ThreadStates, TaskStates
  <1>3. WorkersPlaced'
    BY DEF Books, TypeOK, FlagsOK, ListsOK, ThreadsOK, WorkersPlaced, IdlePositions
  <1>4. ListsFinite' /\ CountsMatchLists' /\ NumbersOK'
    BY DEF Books, TypeOK, NumbersOK, ListsFinite, CountsMatchLists
  <1>5. CapacityCountsBlocked'
    BY DEF Books, CapacityCountsBlocked
  <1> QED BY <1>1, <1>2, <1>3, <1>4, <1>5 DEF Books, TypeOK

LEMMA TaskReturnsBooks ==
  ASSUME Books, NEW w \in Workers, TaskReturns(w)
  PROVE  Books'
  <1> USE DEF TaskReturns
  <1>1. FlagsOK' /\ ListsOK'
    BY DEF Books, TypeOK, FlagsOK, ListsOK, ShutdownStates
  <1>2. ThreadsOK'
    BY DEF Books, TypeOK, ListsOK, ThreadsOK, ThreadStates, TaskStates
  <1>3. WorkersPlaced'
    BY DEF Books, TypeOK, FlagsOK, ListsOK, ThreadsOK, WorkersPlaced, IdlePositions
  <1>4. ListsFinite' /\ CountsMatchLists' /\ NumbersOK'
    BY DEF Books, TypeOK, NumbersOK, ListsFinite, CountsMatchLists
  <1>5. CapacityCountsBlocked'
    BY DEF Books, CapacityCountsBlocked
  <1> QED BY <1>1, <1>2, <1>3, <1>4, <1>5 DEF Books, TypeOK

LEMMA NotifyExitBooks ==
  ASSUME Books, NEW w \in Workers, NotifyExit(w)
  PROVE  Books'
  <1> USE DEF NotifyExit
  <1>1. FlagsOK' /\ ListsOK'
    BY DEF Books, TypeOK, FlagsOK, ListsOK, ShutdownStates
  <1>2. ThreadsOK'
    BY DEF Books, TypeOK, ListsOK, ThreadsOK, ThreadStates, TaskStates
  <1>3. WorkersPlaced'
    BY DEF Books, TypeOK, FlagsOK, ListsOK, ThreadsOK, WorkersPlaced, IdlePositions
  <1>4. ListsFinite' /\ CountsMatchLists' /\ NumbersOK'
    BY DEF Books, TypeOK, NumbersOK, ListsFinite, CountsMatchLists
  <1>5. CapacityCountsBlocked'
    BY DEF Books, CapacityCountsBlocked
  <1> QED BY <1>1, <1>2, <1>3, <1>4, <1>5 DEF Books, TypeOK

LEMMA TaskTaken ==
  ASSUME Books, NEW w \in Workers, RunFirstTask(w)
  PROVE  /\ ThreadsOK'
         /\ tasks' \in Seq(Tasks) /\ pending_tasks' = Len(tasks')
         /\ pending_tasks' \in Nat
  <1>1. /\ Head(tasks) \in Tasks /\ Tail(tasks) \in Seq(Tasks)
        /\ Len(tasks) \in Nat \ {0} /\ Len(Tail(tasks)) = Len(tasks) - 1
    BY QueueShrinks DEF RunFirstTask
  <1>2. task_state' \in [Tasks -> TaskStates]
    BY <1>1 DEF Books, TypeOK, ThreadsOK, TaskStates, RunFirstTask
  <1>3. pc' \in [Workers -> ThreadStates]
    BY DEF Books, TypeOK, ThreadsOK, ThreadStates, RunFirstTask
  <1>4. current' \in [Workers -> Tasks \cup {Nobody}]
    BY <1>1 DEF Books, TypeOK, ThreadsOK, RunFirstTask
  <1>5. join_list' \in [Workers -> SUBSET Workers]
    BY DEF Books, TypeOK, ThreadsOK, RunFirstTask
  <1>6. tasks' = Tail(tasks) /\ pending_tasks' = Len(tasks) - 1
    BY DEF Books, CountsMatchLists, RunFirstTask
  <1> QED BY SMT, <1>1, <1>2, <1>3, <1>4, <1>5, <1>6 DEF ThreadsOK

LEMMA IdleToRunningCounted ==
  ASSUME Books, NEW w \in idle_workers, w \notin running_workers,
         IdleToRunningLocked(w)
  PROVE  /\ IsFiniteSet(idle_workers') /\ IsFiniteSet(running_workers')
         /\ count_idle' = Cardinality(idle_workers') /\ count_idle' \in Nat
         /\ count_running' = Cardinality(running_workers') /\ count_running' \in Nat
  <1>1. /\ IsFiniteSet(idle_workers \ {w}) /\ Cardinality(idle_workers) \in Nat \ {0}
        /\ Cardinality(idle_workers \ {w}) = Cardinality(idle_workers) - 1
    BY IdleLeaves
  <1>2. /\ IsFiniteSet(running_workers \cup {w})
        /\ Cardinality(running_workers \cup {w}) = Cardinality(running_workers) + 1
    BY RunningJoins
  <1> QED
    BY SMT, <1>1, <1>2
    DEF IdleToRunningLocked, Books, CountsMatchLists, TypeOK, NumbersOK

LEMMA RunningToIdleCounted ==
  ASSUME Books, NEW w \in running_workers, w \notin idle_workers,
         RunningToIdleLocked(w)
  PROVE  /\ IsFiniteSet(idle_workers') /\ IsFiniteSet(running_workers')
         /\ count_idle' = Cardinality(idle_workers') /\ count_idle' \in Nat
         /\ count_running' = Cardinality(running_workers') /\ count_running' \in Nat
  <1>1. /\ IsFiniteSet(running_workers \ {w})
        /\ Cardinality(running_workers) \in Nat \ {0}
        /\ Cardinality(running_workers \ {w}) = Cardinality(running_workers) - 1
    BY RunningLeaves
  <1>2. /\ IsFiniteSet(idle_workers \cup {w})
        /\ Cardinality(idle_workers \cup {w}) = Cardinality(idle_workers) + 1
    BY IdleJoins
  <1> QED
    BY SMT, <1>1, <1>2
    DEF RunningToIdleLocked, Books, CountsMatchLists, TypeOK, NumbersOK

LEMMA WorkerLoopBooks ==
  ASSUME Books, NEW w \in Workers, WorkerLoop(w)
  PROVE  Books'
  <1> USE DEF Books, TypeOK
  <1>0. w \in idle_workers /\ w \notin running_workers
    BY DEF WorkerLoop, WorkersPlaced, IdlePositions
  <1>1. CASE RunFirstTask(w)
    <2>0. ThreadsOK' /\ tasks' \in Seq(Tasks) /\ pending_tasks' = Len(tasks')
          /\ pending_tasks' \in Nat
      BY <1>1, TaskTaken
    <2>1. IdleToRunningLocked(w)
      BY <1>1 DEF WorkerLoop, RunFirstTask, KeepMonitor
    <2>2. FlagsOK' /\ ListsOK'
      BY <1>1, <2>0, <2>1 DEF FlagsOK, ListsOK, WorkerLoop, RunFirstTask, IdleToRunningLocked
    <2>3. WorkersPlaced'
      <3>1. /\ pc[w] = "loop" /\ pool_owner = Nobody /\ pool_owner' = pool_owner
            /\ idle_workers' = idle_workers \ {w} /\ running_workers' = running_workers \cup {w}
            /\ waiting' = waiting /\ is_blocked' = is_blocked
        BY <1>1, <2>1 DEF WorkerLoop, RunFirstTask, IdleToRunningLocked
      <3>2. pc'[w] = "run" /\ \A u \in Workers \ {w} : pc'[u] = pc[u]
        BY <1>1 DEF RunFirstTask, ThreadsOK
      <3> HIDE DEF Books, TypeOK
      <3>3. WorkersPlaced /\ waiting \subseteq Workers /\ is_blocked \subseteq Workers
        BY DEF Books, TypeOK, ListsOK
      <3>4. ASSUME NEW u \in Workers
            PROVE  /\ u \in idle_workers' <=> pc'[u] \in IdlePositions
                   /\ u \in running_workers' <=> pc'[u] \in {"run", "drain"}
        <4>1. CASE u = w
          BY <3>1, <3>2, <4>1 DEF IdlePositions
        <4>2. CASE u # w
          BY <3>1, <3>2, <3>3, <4>2 DEF WorkersPlaced
        <4> QED BY <4>1, <4>2
      <3>5. /\ \A u \in waiting' : pc'[u] \in {"wait", "idle_wait"}
            /\ \A u \in is_blocked' : pc'[u] = "run"
        BY <3>1, <3>2, <3>3 DEF WorkersPlaced
      <3>6. \A u \in Workers : pc'[u] \notin {"idle_check", "notify_exit"}
        BY <3>1, <3>2, <3>3, PoolAssumption DEF WorkersPlaced
      <3> QED BY <3>4, <3>5, <3>6 DEF WorkersPlaced, IdlePositions
    <2>4. ListsFinite' /\ CountsMatchLists' /\ NumbersOK'
      BY <1>0, <1>1, <2>0, <2>1, IdleToRunningCounted
      DEF WorkerLoop, IdleToRunningLocked, ListsFinite, CountsMatchLists, NumbersOK
    <2>5. CapacityCountsBlocked'
      BY DEF CapacityCountsBlocked, WorkerLoop
    <2> QED BY <2>0, <2>2, <2>3, <2>4, <2>5
  <1>2. CASE KeepMonitor(w)
    <2>1. UNCHANGED lists
      BY <1>2 DEF WorkerLoop, RunFirstTask, KeepMonitor
    <2>2. FlagsOK' /\ ListsOK' /\ ThreadsOK'
      BY <1>2, <2>1 DEF FlagsOK, ListsOK, ThreadsOK, ThreadStates, WorkerLoop, KeepMonitor,
         RunningToIdleLocked
    <2>3. WorkersPlaced'
      BY <1>2, <2>1, PoolAssumption DEF FlagsOK, ListsOK, ThreadsOK, WorkersPlaced,
         IdlePositions, WorkerLoop, KeepMonitor, RunningToIdleLocked
    <2>4. ListsFinite' /\ CountsMatchLists' /\ NumbersOK'
      BY <1>0, <1>2, <2>1, RunningToIdleCounted
      DEF WorkerLoop, KeepMonitor, RunningToIdleLocked, ListsFinite, CountsMatchLists,
          NumbersOK
    <2>5. CapacityCountsBlocked'
      BY DEF CapacityCountsBlocked, WorkerLoop
    <2> QED BY <2>2, <2>3, <2>4, <2>5
  <1> QED BY <1>1, <1>2 DEF WorkerLoop

LEMMA DrainTasksBooks ==
  ASSUME Books, NEW w \in Workers, DrainTasks(w)
  PROVE  Books'
  <1> USE DEF Books, TypeOK
  <1>0. w \in running_workers /\ w \notin idle_workers
    BY DEF DrainTasks, WorkersPlaced, IdlePositions
  <1>1. CASE RunFirstTask(w)
    <2>0. ThreadsOK' /\ tasks' \in Seq(Tasks) /\ pending_tasks' = Len(tasks')
          /\ pending_tasks' \in Nat
      BY <1>1, TaskTaken
    <2>1. UNCHANGED lists
      BY <1>1 DEF DrainTasks, RunFirstTask, KeepMonitor
    <2>2. FlagsOK' /\ ListsOK'
      BY <1>1, <2>0, <2>1 DEF FlagsOK, ListsOK, DrainTasks, RunFirstTask, IdleToRunningLocked
    <2>3. WorkersPlaced'
      BY <1>1, <2>1, PoolAssumption DEF FlagsOK, ListsOK, ThreadsOK, WorkersPlaced,
         IdlePositions, DrainTasks, RunFirstTask, IdleToRunningLocked
    <2>4. ListsFinite' /\ CountsMatchLists' /\ NumbersOK'
      BY <1>0, <1>1, <2>0, <2>1, IdleToRunningCounted
      DEF DrainTasks, IdleToRunningLocked, ListsFinite, CountsMatchLists, NumbersOK
    <2>5. CapacityCountsBlocked'
      BY DEF CapacityCountsBlocked, DrainTasks
    <2> QED BY <2>0, <2>2, <2>3, <2>4, <2>5
  <1>2. CASE KeepMonitor(w)
    <2>1. RunningToIdleLocked(w)
      BY <1>2 DEF DrainTasks, RunFirstTask, KeepMonitor
    <2>2. FlagsOK' /\ ListsOK' /\ ThreadsOK'
      BY <1>2, <2>1 DEF FlagsOK, ListsOK, ThreadsOK, ThreadStates, DrainTasks, KeepMonitor,
         RunningToIdleLocked
    <2>3. WorkersPlaced'
      BY SMT, <1>2, <2>1, PoolAssumption DEF FlagsOK, ListsOK, ThreadsOK, WorkersPlaced,
         IdlePositions, DrainTasks, KeepMonitor, RunningToIdleLocked
    <2>4. ListsFinite' /\ CountsMatchLists' /\ NumbersOK'
      BY <1>0, <1>2, <2>1, RunningToIdleCounted
      DEF DrainTasks, KeepMonitor, RunningToIdleLocked, ListsFinite, CountsMatchLists,
          NumbersOK
    <2>5. CapacityCountsBlocked'
      BY DEF CapacityCountsBlocked, DrainTasks
    <2> QED BY <2>2, <2>3, <2>4, <2>5
  <1> QED BY <1>1, <1>2 DEF DrainTasks

LEMMA IdleCheckBooks ==
  ASSUME Books, NEW w \in Workers, IdleCheck(w)
  PROVE  Books'
  <1> USE DEF IdleCheck, Continue, DieOrWait, IdleToDeadLocked, LastWorker, DeadAfterObtain,
             WaitOnPool, LeaveToNotifyIdle, OnEnterIdleLocked
  <1>0. w \in idle_workers
    BY DEF Books, WorkersPlaced, IdlePositions
  <1>1. FlagsOK' /\ ListsOK'
    BY DEF Books, TypeOK, FlagsOK, ListsOK, ShutdownStates
  <1>2. ThreadsOK'
    BY SMT DEF Books, TypeOK, ListsOK, ThreadsOK, ThreadStates, TaskStates
  <1>3. WorkersPlaced'
    <2> USE PoolAssumption DEF Books, TypeOK, FlagsOK, ListsOK, ThreadsOK,
               WorkersPlaced, IdlePositions
    <2>1. CASE IdleToDeadLocked(w)
      BY SMT, <2>1
    <2>2. CASE WaitOnPool(w) /\ UNCHANGED lists
      BY SMT, <2>2
    <2>3. CASE LeaveToNotifyIdle(w)
      BY <2>3
    <2> QED BY <2>1, <2>2, <2>3
  <1>4. ListsFinite' /\ CountsMatchLists' /\ NumbersOK'
    <2>1. CASE IdleToDeadLocked(w)
      BY <1>0, <2>1, DeathCounted
    <2>2. CASE UNCHANGED lists
      BY <2>2 DEF Books, TypeOK, NumbersOK, ListsFinite, CountsMatchLists
    <2> QED BY <2>1, <2>2
  <1>5. CapacityCountsBlocked'
    BY DEF Books, CapacityCountsBlocked
  <1> QED BY <1>1, <1>2, <1>3, <1>4, <1>5 DEF Books, TypeOK

LEMMA IdleWaitDoneBooks ==
  ASSUME Books, NEW w \in Workers, IdleWaitDone(w)
  PROVE  Books'
  <1> USE DEF IdleWaitDone, Continue, DieOrWait, IdleToDeadLocked, LastWorker, DeadAfterObtain,
             WaitOnPool, LeaveToNotifyIdle, OnEnterIdleLocked
  <1>0. w \in idle_workers
    BY DEF Books, WorkersPlaced, IdlePositions
  <1>1. FlagsOK' /\ ListsOK'
    BY DEF Books, TypeOK, FlagsOK, ListsOK, ShutdownStates
  <1>2. ThreadsOK'
    BY SMT DEF Books, TypeOK, ListsOK, ThreadsOK, ThreadStates, TaskStates
  <1>3. WorkersPlaced'
    <2> USE PoolAssumption DEF Books, TypeOK, FlagsOK, ListsOK, ThreadsOK,
               WorkersPlaced, IdlePositions
    <2>1. CASE IdleToDeadLocked(w)
      BY SMT, <2>1
    <2>2. CASE WaitOnPool(w) /\ UNCHANGED lists
      BY SMT, <2>2
    <2>3. CASE LeaveToNotifyIdle(w)
      BY <2>3
    <2>4. CASE Continue(w)
      BY <2>4
    <2> QED BY <2>1, <2>2, <2>3, <2>4
  <1>4. ListsFinite' /\ CountsMatchLists' /\ NumbersOK'
    <2>1. CASE IdleToDeadLocked(w)
      BY <1>0, <2>1, DeathCounted
    <2>2. CASE UNCHANGED lists
      BY <2>2 DEF Books, TypeOK, NumbersOK, ListsFinite, CountsMatchLists
    <2> QED BY <2>1, <2>2
  <1>5. CapacityCountsBlocked'
    BY DEF Books, CapacityCountsBlocked
  <1> QED BY <1>1, <1>2, <1>3, <1>4, <1>5 DEF Books, TypeOK

LEMMA NotifyIdleDoneBooks ==
  ASSUME Books, NEW w \in Workers, NotifyIdleDone(w)
  PROVE  Books'
  <1> USE DEF NotifyIdleDone, Continue, DieOrWait, IdleToDeadLocked, LastWorker, DeadAfterObtain,
             WaitOnPool, LeaveToNotifyIdle, OnEnterIdleLocked
  <1>0. w \in idle_workers
    BY DEF Books, WorkersPlaced, IdlePositions
  <1>1. FlagsOK' /\ ListsOK'
    BY DEF Books, TypeOK, FlagsOK, ListsOK, ShutdownStates
  <1>2. ThreadsOK'
    BY SMT DEF Books, TypeOK, ListsOK, ThreadsOK, ThreadStates, TaskStates
  <1>3. WorkersPlaced'
    <2> USE PoolAssumption DEF Books, TypeOK, FlagsOK, ListsOK, ThreadsOK,
               WorkersPlaced, IdlePositions
    <2>1. CASE IdleToDeadLocked(w)
      BY SMT, <2>1
    <2>2. CASE WaitOnPool(w) /\ UNCHANGED lists
      BY SMT, <2>2
    <2>3. CASE Continue(w)
      BY <2>3
    <2> QED BY <2>1, <2>2, <2>3
  <1>4. ListsFinite' /\ CountsMatchLists' /\ NumbersOK'
    <2>1. CASE IdleToDeadLocked(w)
      BY <1>0, <2>1, DeathCounted
    <2>2. CASE UNCHANGED lists
      BY <2>2 DEF Books, TypeOK, NumbersOK, ListsFinite, CountsMatchLists
    <2> QED BY <2>1, <2>2
  <1>5. CapacityCountsBlocked'
    BY DEF Books, CapacityCountsBlocked
  <1> QED BY <1>1, <1>2, <1>3, <1>4, <1>5 DEF Books, TypeOK

LEMMA WaitDoneBooks ==
  ASSUME Books, NEW w \in Workers, WaitDone(w)
  PROVE  Books'
  <1> USE DEF WaitDone, Done, Continue, DieOrWait, IdleToDeadLocked, LastWorker, DeadAfterObtain,
             WaitOnPool, LeaveToNotifyIdle, OnEnterIdleLocked
  <1>0. w \in idle_workers
    BY DEF Books, WorkersPlaced, IdlePositions
  <1>1. FlagsOK' /\ ListsOK'
    BY DEF Books, TypeOK, FlagsOK, ListsOK, ShutdownStates
  <1>2. ThreadsOK'
    BY SMT DEF Books, TypeOK, ListsOK, ThreadsOK, ThreadStates, TaskStates
  <1>3. WorkersPlaced'
    <2> USE PoolAssumption DEF Books, TypeOK, FlagsOK, ListsOK, ThreadsOK,
               WorkersPlaced, IdlePositions
    <2>1. CASE IdleToDeadLocked(w)
      BY SMT, <2>1
    <2>2. CASE WaitOnPool(w) /\ UNCHANGED lists
      BY <2>2
    <2>3. CASE Continue(w)
      BY <2>3
    <2> QED BY <2>1, <2>2, <2>3
  <1>4. ListsFinite' /\ CountsMatchLists' /\ NumbersOK'
    <2>1. CASE IdleToDeadLocked(w)
      BY <1>0, <2>1, DeathCounted
    <2>2. CASE UNCHANGED lists
      BY <2>2 DEF Books, TypeOK, NumbersOK, ListsFinite, CountsMatchLists
    <2> QED BY <2>1, <2>2
  <1>5. CapacityCountsBlocked'
    BY DEF Books, CapacityCountsBlocked
  <1> QED BY <1>1, <1>2, <1>3, <1>4, <1>5 DEF Books, TypeOK

LEMMA NewWorkerCounted ==
  ASSUME Books, NEW w \in Workers, NewWorker(w)
  PROVE  /\ w \notin idle_workers /\ w \notin waiting
         /\ IsFiniteSet(idle_workers')
         /\ count_idle' = Cardinality(idle_workers') /\ count_idle' \in Nat
  <1>1. w \notin idle_workers /\ w \notin waiting
    BY DEF NewWorker, Books, TypeOK, ListsOK, WorkersPlaced, IdlePositions
  <1>2. /\ IsFiniteSet(idle_workers \cup {w})
        /\ Cardinality(idle_workers \cup {w}) = Cardinality(idle_workers) + 1
    BY <1>1, IdleJoins
  <1> QED
    BY SMT, <1>1, <1>2 DEF NewWorker, Books, CountsMatchLists, TypeOK, NumbersOK

LEMMA NewWorkerBooks ==
  ASSUME Books, NEW w \in Workers, NewWorker(w)
  PROVE  /\ ThreadsOK' <=> task_state' \in [Tasks -> TaskStates]
         /\ idle_workers' \subseteq Workers
         /\ \A v \in Workers : v \in idle_workers' <=> pc'[v] \in IdlePositions
         /\ \A v \in Workers : v \in running_workers' <=> pc'[v] \in {"run", "drain"}
         /\ \A v \in Workers : pc[v] # "none" => pc'[v] = pc[v]
         /\ \A v \in Workers : pc'[v] \in {"idle_check", "notify_exit"} =>
                                 pc[v] \in {"idle_check", "notify_exit"}
  BY DEF NewWorker, Books, TypeOK, ListsOK, ThreadsOK, ThreadStates,
         WorkersPlaced, IdlePositions

LEMMA RunImplBooks ==
  ASSUME Books, NEW t \in Tasks, RunImpl(t)
  PROVE  Books'
  <1> USE DEF RunImpl, ScheduleTaskLocked, Books, TypeOK
  <1>0. /\ tasks' \in Seq(Tasks) /\ Len(tasks') = Len(tasks) + 1
        /\ Len(tasks) \in Nat
    BY AppendProperties, LenProperties DEF ListsOK
  <1>1. task_state' \in [Tasks -> TaskStates]
    BY DEF ThreadsOK, TaskStates
  <1>2. waiting' \subseteq waiting /\ UNCHANGED <<pool_owner, timed_out>>
    BY DEF Notify, NotifyIdleWorker
  <1>3. CapacityCountsBlocked' /\ FlagsOK'
    BY <1>2 DEF CapacityCountsBlocked, FlagsOK
  <1>4. pending_tasks' = Len(tasks') /\ pending_tasks' \in Nat
    BY SMT, <1>0 DEF CountsMatchLists
  <1>5. CASE NoNewWorker
    <2>1. ListsOK' /\ ThreadsOK'
      BY <1>0, <1>1, <1>2, <1>5 DEF ListsOK, ThreadsOK, NoNewWorker
    <2>2. WorkersPlaced'
      BY <1>2, <1>5, PoolAssumption DEF WorkersPlaced, NoNewWorker, FlagsOK
    <2>3. ListsFinite' /\ CountsMatchLists' /\ NumbersOK'
      BY <1>4, <1>5 DEF ListsFinite, CountsMatchLists, NumbersOK, NoNewWorker
    <2> QED BY <1>3, <2>1, <2>2, <2>3
  <1>6. ASSUME NEW w \in Workers, NewWorker(w) PROVE Books'
    <2>0. UNCHANGED <<running_workers, dead_workers, count_running, count_dead>>
      BY <1>6 DEF NewWorker
    <2>1. ListsOK' /\ ThreadsOK'
      BY <1>0, <1>1, <1>2, <1>6, <2>0, NewWorkerBooks DEF ListsOK
    <2>2. WorkersPlaced'
      <3>1. MonitorFree
        OBVIOUS
      <3>2. /\ \A v \in Workers : v \in idle_workers' <=> pc'[v] \in IdlePositions
            /\ \A v \in Workers : v \in running_workers' <=> pc'[v] \in {"run", "drain"}
            /\ \A v \in Workers : pc[v] # "none" => pc'[v] = pc[v]
            /\ \A v \in Workers : pc'[v] \in {"idle_check", "notify_exit"} =>
                                    pc[v] \in {"idle_check", "notify_exit"}
        BY <1>6, NewWorkerBooks
      <3> QED
        BY SMT, <1>2, <3>1, <3>2, PoolAssumption DEF WorkersPlaced, FlagsOK, ListsOK
    <2>3. /\ IsFiniteSet(idle_workers')
          /\ count_idle' = Cardinality(idle_workers') /\ count_idle' \in Nat
      BY <1>6, NewWorkerCounted
    <2>4. ListsFinite' /\ CountsMatchLists' /\ NumbersOK'
      BY <1>4, <2>0, <2>3 DEF ListsFinite, CountsMatchLists, NumbersOK
    <2> QED BY <1>3, <2>1, <2>2, <2>4
  <1> QED BY <1>5, <1>6

LEMMA BlockBooks ==
  ASSUME Books, NEW w \in Workers, MarkCurrentWorkerAsBlocked(w)
  PROVE  Books'
  <1> USE DEF MarkCurrentWorkerAsBlocked, Books, TypeOK
  <1>0. /\ IsFiniteSet(is_blocked \cup {w})
        /\ Cardinality(is_blocked \cup {w}) = Cardinality(is_blocked) + 1
        /\ Cardinality(is_blocked) \in Nat
    BY CardAdd, FS_CardinalityType DEF ListsFinite
  <1>1. CapacityCountsBlocked' /\ max_pool_size' \in Nat
    BY SMT, <1>0, PoolAssumption DEF CapacityCountsBlocked, NumbersOK
  <1>2. FlagsOK' /\ task_state' \in [Tasks -> TaskStates]
    BY DEF FlagsOK, ThreadsOK
  <1>3. CASE NoNewWorker
    <2>1. ListsOK' /\ ThreadsOK'
      BY <1>3 DEF ListsOK, ThreadsOK, NoNewWorker
    <2>2. WorkersPlaced'
      BY <1>3 DEF WorkersPlaced, NoNewWorker
    <2>3. ListsFinite' /\ CountsMatchLists' /\ NumbersOK'
      BY <1>0, <1>1, <1>3 DEF ListsFinite, CountsMatchLists, NumbersOK, NoNewWorker
    <2> QED BY <1>1, <1>2, <2>1, <2>2, <2>3
  <1>4. ASSUME NEW n \in Workers, NewWorker(n) PROVE Books'
    <2>0. UNCHANGED <<running_workers, dead_workers, count_running, count_dead>>
      BY <1>4 DEF NewWorker
    <2>1. ListsOK' /\ ThreadsOK'
      BY <1>2, <1>4, <2>0, NewWorkerBooks DEF ListsOK
    <2>2. WorkersPlaced'
      <3>1. /\ \A v \in Workers : v \in idle_workers' <=> pc'[v] \in IdlePositions
            /\ \A v \in Workers : v \in running_workers' <=> pc'[v] \in {"run", "drain"}
            /\ \A v \in Workers : pc[v] # "none" => pc'[v] = pc[v]
            /\ \A v \in Workers : pc'[v] \in {"idle_check", "notify_exit"} =>
                                    pc[v] \in {"idle_check", "notify_exit"}
        BY <1>4, NewWorkerBooks
      <3> QED
        BY <3>1, PoolAssumption DEF WorkersPlaced, FlagsOK, ListsOK
    <2>3. /\ IsFiniteSet(idle_workers')
          /\ count_idle' = Cardinality(idle_workers') /\ count_idle' \in Nat
      BY <1>4, NewWorkerCounted
    <2>4. ListsFinite' /\ CountsMatchLists' /\ NumbersOK'
      BY <1>0, <1>1, <2>0, <2>3 DEF ListsFinite, CountsMatchLists, NumbersOK
    <2> QED BY <1>1, <1>2, <2>1, <2>2, <2>4
  <1> QED BY <1>3, <1>4

LEMMA UnblockBooks ==
  ASSUME Books, NEW w \in Workers, MarkCurrentWorkerAsUnBlocked(w)
  PROVE  Books'
  <1> USE DEF MarkCurrentWorkerAsUnBlocked, SlotTakenBack, Books, TypeOK
  <1>0. /\ IsFiniteSet(is_blocked \ {w})
        /\ Cardinality(is_blocked \ {w}) = Cardinality(is_blocked) - 1
        /\ Cardinality(is_blocked) \in Nat \ {0}
    BY CardRemove DEF ListsFinite
  <1>1. CapacityCountsBlocked' /\ max_pool_size' \in Nat
    BY SMT, <1>0, PoolAssumption DEF CapacityCountsBlocked, NumbersOK
  <1>2. FlagsOK' /\ ListsOK' /\ ThreadsOK'
    BY DEF FlagsOK, ListsOK, ThreadsOK
  <1>3. WorkersPlaced'
    BY DEF WorkersPlaced
  <1>4. ListsFinite' /\ CountsMatchLists' /\ NumbersOK'
    BY <1>0, <1>1 DEF ListsFinite, CountsMatchLists, NumbersOK
  <1> QED BY <1>1, <1>2, <1>3, <1>4

LEMMA ShutdownBooks ==
  ASSUME Books, ShutdownBegin \/ ShutdownStep
  PROVE  Books'
  <1> USE DEF Books, TypeOK
  <1>1. CASE ShutdownBegin
    BY <1>1
    DEF ShutdownBegin, NotifyAll, FlagsOK, ListsOK, ThreadsOK, NumbersOK, ShutdownStates,
        WorkersPlaced, ListsFinite, CountsMatchLists, CapacityCountsBlocked
  <1>2. CASE ShutdownCheck \/ ShutdownWait \/ ShutdownReturn
    BY <1>2
    DEF ShutdownCheck, ShutdownWait, ShutdownReturn, FlagsOK, ListsOK, ThreadsOK,
        NumbersOK, ShutdownStates, WorkersPlaced, ListsFinite, CountsMatchLists,
        CapacityCountsBlocked
  <1>3. CASE ShutdownObtain
    BY <1>3, FS_EmptySet
    DEF ShutdownObtain, DeadAfterObtain, ShutdownJoins, FlagsOK, ListsOK, ThreadsOK,
        NumbersOK, ShutdownStates, WorkersPlaced, ListsFinite, CountsMatchLists,
        CapacityCountsBlocked
  <1>4. ASSUME NEW d \in Workers, ShutdownJoin(d) PROVE Books'
    <2>1. FlagsOK' /\ ListsOK' /\ ThreadsOK' /\ NumbersOK'
      BY <1>4 DEF ShutdownJoin, FlagsOK, ListsOK, ThreadsOK, NumbersOK, ThreadStates
    <2>2. WorkersPlaced'
      BY <1>4 DEF ShutdownJoin, WorkersPlaced, IdlePositions, ThreadsOK, ListsOK
    <2>3. ListsFinite' /\ CountsMatchLists' /\ CapacityCountsBlocked'
      BY <1>4 DEF ShutdownJoin, ListsFinite, CountsMatchLists, CapacityCountsBlocked
    <2> QED BY <2>1, <2>2, <2>3
  <1> QED BY <1>1, <1>2, <1>3, <1>4 DEF ShutdownStep

LEMMA NextBooks == Books /\ [Next]_vars => Books'
  <1> SUFFICES ASSUME Books, [Next]_vars PROVE Books'
    OBVIOUS
  <1>1. ASSUME NEW t \in Tasks, RunImpl(t) \/ RunRefused(t) PROVE Books'
    BY <1>1, RunImplBooks, RunRefusedBooks
  <1>2. ASSUME NEW w \in Workers, WorkerStep(w) PROVE Books'
    BY <1>2, WorkerLoopBooks, DrainTasksBooks, IdleCheckBooks, IdleWaitDoneBooks,
       NotifyIdleDoneBooks, WaitDoneBooks, NotifyExitBooks, ThreadExitBooks,
       StartThreadBooks, JoinBooks
    DEF WorkerStep
  <1>3. ASSUME NEW w \in Workers, WakeStep(w) \/ TaskStep(w) PROVE Books'
    BY <1>3, WakeStepBooks, TaskReturnsBooks, BlockBooks, UnblockBooks DEF TaskStep
  <1>4. CASE ShutdownBegin \/ ShutdownStep
    BY <1>4, ShutdownBooks
  <1>5. CASE UNCHANGED vars
    BY <1>5
    DEF vars, Books, TypeOK, FlagsOK, ListsOK, ThreadsOK, NumbersOK, WorkersPlaced,
        ListsFinite, CountsMatchLists, CapacityCountsBlocked
  <1> QED BY <1>1, <1>2, <1>3, <1>4, <1>5 DEF Next

-----------------------------------------------------------------------------
\* Who runs the pending tasks. Most steps serve them for one of two reasons:
\* there is no task left, or nobody who was going to look at the queue stops
\* doing so.
LEMMA AwakeFinite ==
  ASSUME Books
  PROVE  /\ IsFiniteSet(AwakeIdle) /\ Cardinality(AwakeIdle) \in Nat
         /\ Len(tasks) \in Nat
  BY FS_Subset, FS_CardinalityType, LenProperties
  DEF Books, TypeOK, ListsOK, ListsFinite, AwakeIdle

LEMMA EmptyServed ==
  ASSUME Books', tasks' = <<>>
  PROVE  Served'
  <1>1. IsFiniteSet(AwakeIdle') /\ Cardinality(AwakeIdle') \in Nat
    BY FS_Subset, FS_CardinalityType DEF Books, ListsFinite, AwakeIdle
  <1>2. Len(tasks') = 0
    BY EmptySeq
  <1> QED
    BY SMT, <1>1, <1>2 DEF Served, NoLostWakeup, UnlimitedNeverQueues, LimitedHasServer

LEMMA MonotoneServed ==
  ASSUME Books, Books', Served, UNCHANGED tasks,
         AwakeIdle \subseteq AwakeIdle', waiting' \subseteq waiting,
         running_workers \ is_blocked \subseteq running_workers' \ is_blocked'
  PROVE  Served'
  <1>1. /\ IsFiniteSet(AwakeIdle') /\ Cardinality(AwakeIdle') \in Nat
        /\ Cardinality(AwakeIdle) \in Nat /\ Len(tasks) \in Nat
    BY AwakeFinite, FS_Subset, FS_CardinalityType DEF Books, ListsFinite, AwakeIdle
  <1>2. Cardinality(AwakeIdle) <= Cardinality(AwakeIdle')
    BY <1>1, FS_Subset
  <1>3. NoLostWakeup' /\ UnlimitedNeverQueues'
    BY SMT, <1>1, <1>2 DEF Served, NoLostWakeup, UnlimitedNeverQueues
  <1>4. LimitedHasServer'
    BY DEF Served, LimitedHasServer
  <1> QED BY <1>3, <1>4 DEF Served

\* A worker takes the first task: one task less, and at most one awake idle
\* worker less, which now runs.
LEMMA TakeServed ==
  ASSUME Books, Books', Served, NEW w \in Workers,
         WorkerLoop(w) \/ DrainTasks(w), RunFirstTask(w)
  PROVE  Served'
  <1>1. /\ Len(tasks) \in Nat \ {0} /\ Len(tasks') = Len(tasks) - 1
    BY QueueShrinks DEF RunFirstTask
  <1>2. /\ IsFiniteSet(AwakeIdle) /\ Cardinality(AwakeIdle) \in Nat
    BY AwakeFinite
  <1>3. waiting' = waiting /\ w \in running_workers' \ is_blocked'
    BY DEF RunFirstTask, WorkerLoop, DrainTasks, KeepMonitor, IdleToRunningLocked,
           Books, WorkersPlaced
  <1>4. AwakeIdle' = AwakeIdle \/ AwakeIdle' = AwakeIdle \ {w}
    BY DEF RunFirstTask, WorkerLoop, DrainTasks, KeepMonitor, IdleToRunningLocked,
           AwakeIdle
  <1>5. Cardinality(AwakeIdle') >= Cardinality(AwakeIdle) - 1
    BY SMT, <1>2, <1>4, FS_RemoveElement
  <1>6. Cardinality(AwakeIdle') \in Nat
    BY <1>2, <1>4, FS_RemoveElement, FS_CardinalityType
  <1>7. NoLostWakeup' /\ UnlimitedNeverQueues'
    BY SMT, <1>1, <1>2, <1>3, <1>5, <1>6 DEF Served, NoLostWakeup, UnlimitedNeverQueues
  <1>8. LimitedHasServer'
    BY <1>3 DEF LimitedHasServer
  <1> QED BY <1>7, <1>8 DEF Served

\* A woken worker is an awake idle one more.
LEMMA WakeCounted ==
  ASSUME Books, NEW x \in waiting, waiting' = waiting \ {x}, UNCHANGED idle_workers
  PROVE  Cardinality(AwakeIdle') = Cardinality(AwakeIdle) + 1
  <1>1. x \in idle_workers
    BY DEF Books, TypeOK, ListsOK, WorkersPlaced, IdlePositions
  <1>2. AwakeIdle' = AwakeIdle \cup {x} /\ x \notin AwakeIdle
    BY <1>1 DEF AwakeIdle
  <1> QED BY <1>2, AwakeFinite, CardAdd

\* While somebody waits, fewer workers are awake than idle.
LEMMA WaiterIsIdle ==
  ASSUME Books, waiting # {}
  PROVE  Cardinality(AwakeIdle) < Cardinality(idle_workers)
  <1>1. PICK x \in waiting : x \in idle_workers
    BY DEF Books, TypeOK, ListsOK, WorkersPlaced, IdlePositions
  <1>2. /\ IsFiniteSet(idle_workers \ {x}) /\ Cardinality(idle_workers) \in Nat \ {0}
        /\ Cardinality(idle_workers \ {x}) = Cardinality(idle_workers) - 1
    BY <1>1, IdleLeaves
  <1>3. AwakeIdle \subseteq idle_workers \ {x}
    BY <1>1 DEF AwakeIdle
  <1>4. Cardinality(AwakeIdle) <= Cardinality(idle_workers \ {x})
    BY <1>2, <1>3, FS_Subset
  <1> QED BY SMT, <1>2, <1>4, AwakeFinite

\* ScheduleTaskLocked: in each of its three branches the new task is served.
LEMMA RunImplServed ==
  ASSUME Books, Books', Served, NEW t \in Tasks, RunImpl(t)
  PROVE  Served'
  <1>0. /\ Len(tasks') = Len(tasks) + 1 /\ Len(tasks) \in Nat /\ tasks' # <<>>
        /\ pending_tasks = Len(tasks)
    <2>1. tasks \in Seq(Tasks) /\ pending_tasks = Len(tasks)
      BY DEF Books, TypeOK, ListsOK, CountsMatchLists
    <2>2. tasks' = Append(tasks, t)
      BY DEF RunImpl, ScheduleTaskLocked
    <2>3. Len(tasks') = Len(tasks) + 1 /\ Len(tasks) \in Nat /\ tasks' # <<>>
      BY SMT, <2>1, <2>2, AppendProperties, LenProperties
    <2> QED BY <2>1, <2>3
  <1>1. /\ Cardinality(AwakeIdle) \in Nat /\ IsFiniteSet(AwakeIdle)
        /\ Cardinality(idle_workers) \in Nat /\ count_idle = Cardinality(idle_workers)
    BY AwakeFinite, FS_CardinalityType DEF Books, ListsFinite, CountsMatchLists
  <1>2. UNCHANGED <<is_blocked, max_pool_size>>
    BY DEF RunImpl
  <1>3. CASE EnoughIdle /\ NotifyIdleWorker /\ NoNewWorker
    <2>1. Cardinality(idle_workers) >= Len(tasks) + 1
      BY <1>0, <1>1, <1>3 DEF EnoughIdle
    <2>2. UNCHANGED idle_workers
      BY <1>3 DEF NoNewWorker
    <2>3. Cardinality(AwakeIdle') >= Len(tasks')
      <3>1. CASE waiting = {}
        <4>1. AwakeIdle' = idle_workers
          BY <1>3, <2>2, <3>1 DEF NotifyIdleWorker, Notify, AwakeIdle
        <4> QED BY <1>0, <2>1, <4>1
      <3>2. CASE waiting # {}
        <4>1. PICK x \in waiting : waiting' = waiting \ {x}
          BY <1>3, <3>2 DEF NotifyIdleWorker, Notify
        <4>2. Cardinality(AwakeIdle') = Cardinality(AwakeIdle) + 1
          BY <2>2, <4>1, WakeCounted
        <4>3. Len(tasks) <= Cardinality(AwakeIdle)
          BY <3>2 DEF Served, NoLostWakeup
        <4> QED BY SMT, <1>0, <1>1, <4>2, <4>3
      <3> QED BY <3>1, <3>2
    <2>4. AwakeIdle' # {}
      <3>1. CASE AwakeIdle' = {}
        BY SMT, <1>0, <2>3, <3>1, FS_EmptySet
      <3> QED BY <3>1
    <2> QED
      BY <2>3, <2>4 DEF Served, NoLostWakeup, UnlimitedNeverQueues, LimitedHasServer
  <1>4. CASE /\ ~EnoughIdle /\ AtMaxPoolSize
             /\ IF idle_workers # {} THEN Notify ELSE UNCHANGED sync
             /\ NoNewWorker
    <2>1. Cardinality(idle_workers) <= Len(tasks)
      BY SMT, <1>0, <1>1, <1>4 DEF EnoughIdle
    <2>2. waiting = {}
      <3>1. CASE waiting # {}
        BY SMT, <1>0, <1>1, <2>1, <3>1, WaiterIsIdle DEF Served, NoLostWakeup
      <3> QED BY <3>1
    <2>3. waiting' = {} /\ UNCHANGED <<idle_workers, running_workers>>
      BY <1>4, <2>2 DEF Notify, NoNewWorker
    <2>4. MaxPoolSize # 0 /\ max_pool_size = MaxPoolSize + Cardinality(is_blocked)
      BY SMT, <1>4 DEF AtMaxPoolSize, Books, CapacityCountsBlocked
    <2>5. LimitedHasServer'
      <3>1. CASE idle_workers # {}
        BY <2>3, <3>1 DEF LimitedHasServer, AwakeIdle
      <3>2. CASE idle_workers = {}
        <4>1. count_idle = 0
          BY <1>1, <3>2, FS_EmptySet
        <4>2. /\ Cardinality(running_workers) >= MaxPoolSize + Cardinality(is_blocked)
              /\ IsFiniteSet(is_blocked) /\ Cardinality(is_blocked) \in Nat
              /\ Cardinality(running_workers) \in Nat
          BY SMT, <1>4, <2>4, <4>1, FS_CardinalityType
          DEF AtMaxPoolSize, Books, CountsMatchLists, ListsFinite
        <4>3. ~(running_workers \subseteq is_blocked)
          <5>1. ASSUME running_workers \subseteq is_blocked PROVE FALSE
            <6>1. Cardinality(running_workers) <= Cardinality(is_blocked)
              BY <4>2, <5>1, FS_Subset
            <6> QED BY SMT, <2>4, <4>2, <6>1, PoolAssumption
          <5> QED BY <5>1
        <4> QED BY <1>2, <2>3, <4>3 DEF LimitedHasServer
      <3> QED BY <3>1, <3>2
    <2> QED BY <2>3, <2>4, <2>5 DEF Served, NoLostWakeup, UnlimitedNeverQueues
  <1>5. ASSUME NEW w \in Workers, NewWorker(w), UNCHANGED sync PROVE Served'
    <2>1. AwakeIdle' = AwakeIdle \cup {w} /\ w \notin AwakeIdle
      BY <1>5, NewWorkerCounted DEF NewWorker, AwakeIdle
    <2>2. Cardinality(AwakeIdle') = Cardinality(AwakeIdle) + 1
      BY <1>1, <2>1, CardAdd
    <2>3. NoLostWakeup' /\ UnlimitedNeverQueues'
      BY SMT, <1>0, <1>1, <1>5, <2>2 DEF Served, NoLostWakeup, UnlimitedNeverQueues
    <2>4. LimitedHasServer'
      BY <2>1 DEF LimitedHasServer
    <2> QED BY <2>3, <2>4 DEF Served
  <1> QED BY <1>3, <1>4, <1>5 DEF RunImpl, ScheduleTaskLocked

\* A worker blocks: it is replaced, or somebody is awake.
LEMMA BlockServed ==
  ASSUME Books, Books', Served, NEW w \in Workers, MarkCurrentWorkerAsBlocked(w)
  PROVE  Served'
  <1>0. UNCHANGED <<tasks, waiting>> /\ pending_tasks = Len(tasks)
    BY DEF MarkCurrentWorkerAsBlocked, Books, CountsMatchLists
  <1>1. /\ Cardinality(AwakeIdle) \in Nat /\ IsFiniteSet(AwakeIdle)
        /\ Len(tasks) \in Nat
    BY AwakeFinite
  <1>2. ASSUME NEW n \in Workers, NewWorker(n) PROVE Served'
    <2>1. AwakeIdle' = AwakeIdle \cup {n} /\ n \notin AwakeIdle
      BY <1>0, <1>2, NewWorkerCounted DEF NewWorker, AwakeIdle
    <2>2. Cardinality(AwakeIdle') = Cardinality(AwakeIdle) + 1
      BY <1>1, <2>1, CardAdd
    <2>3. NoLostWakeup' /\ UnlimitedNeverQueues'
      BY SMT, <1>0, <1>1, <2>2 DEF Served, NoLostWakeup, UnlimitedNeverQueues
    <2>4. LimitedHasServer'
      BY <2>1 DEF LimitedHasServer
    <2> QED BY <2>3, <2>4 DEF Served
  <1>3. CASE ~NeedsReplacement /\ NoNewWorker
    <2>1. AwakeIdle' = AwakeIdle
      BY <1>0, <1>3 DEF AwakeIdle, NoNewWorker
    <2>2. NoLostWakeup' /\ UnlimitedNeverQueues'
      BY <1>0, <2>1 DEF Served, NoLostWakeup, UnlimitedNeverQueues
    <2>3. ASSUME MaxPoolSize > 0, tasks # <<>> PROVE AwakeIdle # {}
      <3>1. Len(tasks) > 0
        BY SMT, <2>3, EmptySeq DEF Books, TypeOK, ListsOK
      <3>2. max_pool_size > 0
        BY SMT, <2>3, PoolAssumption, FS_CardinalityType
        DEF Books, CapacityCountsBlocked, ListsFinite
      <3>3. idle_workers # {}
        BY <1>0, <1>3, <3>1, <3>2 DEF NeedsReplacement
      <3>4. CASE waiting = {}
        BY <3>3, <3>4 DEF AwakeIdle
      <3>5. CASE waiting # {}
        <4>1. Cardinality(AwakeIdle) > 0
          BY SMT, <1>1, <3>1, <3>5 DEF Served, NoLostWakeup
        <4> QED BY SMT, <4>1, FS_EmptySet
      <3> QED BY <3>4, <3>5
    <2>4. LimitedHasServer'
      BY <1>0, <2>1, <2>3 DEF LimitedHasServer
    <2> QED BY <2>2, <2>4 DEF Served
  <1> QED BY <1>2, <1>3 DEF MarkCurrentWorkerAsBlocked

LEMMA WorkerServed ==
  ASSUME Books, Books', Served, NEW w \in Workers, WorkerStep(w)
  PROVE  Served'
  <1>1. CASE (WorkerLoop(w) \/ DrainTasks(w)) /\ RunFirstTask(w)
    BY <1>1, TakeServed
  <1>2. CASE (WorkerLoop(w) \/ DrainTasks(w)) /\ KeepMonitor(w)
    BY <1>2, EmptyServed DEF KeepMonitor
  <1>3. CASE IdleCheck(w)
    <2>1. tasks' = <<>>
      BY <1>3 DEF IdleCheck, Books, WorkersPlaced
    <2> QED BY <2>1, EmptyServed
  <1>4. CASE IdleWaitDone(w) \/ NotifyIdleDone(w) \/ WaitDone(w)
    <2>1. CASE tasks = <<>>
      <3>1. tasks' = <<>>
        BY <1>4, <2>1 DEF IdleWaitDone, NotifyIdleDone, WaitDone
      <3> QED BY <3>1, EmptyServed
    <2>2. CASE tasks # <<>>
      <3>1. /\ Continue(w)
            /\ UNCHANGED <<tasks, waiting, idle_workers, running_workers, is_blocked>>
        BY <1>4, <2>2 DEF IdleWaitDone, NotifyIdleDone, WaitDone, DieOrWait, Done, Continue
      <3> QED BY <3>1, MonotoneServed DEF AwakeIdle
    <2> QED BY <2>1, <2>2
  <1>5. CASE \/ NotifyExit(w) \/ ThreadExit(w) \/ StartThread(w)
             \/ \E d \in Workers : JoinDeadWorker(w, d)
    <2>1. UNCHANGED <<tasks, waiting, idle_workers, running_workers, is_blocked>>
      BY <1>5 DEF NotifyExit, ThreadExit, StartThread, JoinDeadWorker
    <2> QED BY <2>1, MonotoneServed DEF AwakeIdle
  <1> QED
    BY <1>1, <1>2, <1>3, <1>4, <1>5 DEF WorkerStep, WorkerLoop, DrainTasks

LEMMA NextServed == Books /\ Books' /\ Served /\ [Next]_vars => Served'
  <1> SUFFICES ASSUME Books, Books', Served, [Next]_vars PROVE Served'
    OBVIOUS
  <1> DEFINE Same == UNCHANGED <<tasks, waiting, idle_workers, running_workers, is_blocked>>
  <1>0. ASSUME Same PROVE Served'
    BY <1>0, MonotoneServed DEF AwakeIdle
  <1>1. ASSUME NEW t \in Tasks, RunImpl(t) \/ RunRefused(t) PROVE Served'
    <2>1. CASE RunRefused(t)
      BY <1>0, <2>1 DEF RunRefused
    <2> QED BY <1>1, <2>1, RunImplServed
  <1>2. ASSUME NEW w \in Workers, WorkerStep(w) PROVE Served'
    BY <1>2, WorkerServed
  <1>3. ASSUME NEW w \in Workers, WakeStep(w) PROVE Served'
    <2>1. /\ UNCHANGED <<tasks, idle_workers, running_workers, is_blocked>>
          /\ waiting' = waiting \ {w}
      BY <1>3 DEF WakeStep, WaitTimesOut, SpuriousWakeup
    <2> QED BY <2>1, MonotoneServed DEF AwakeIdle
  <1>4. ASSUME NEW w \in Workers, TaskStep(w) PROVE Served'
    <2>1. CASE TaskReturns(w)
      BY <1>0, <2>1 DEF TaskReturns
    <2>2. CASE MarkCurrentWorkerAsUnBlocked(w)
      BY <2>2, MonotoneServed DEF MarkCurrentWorkerAsUnBlocked, AwakeIdle
    <2> QED BY <1>4, <2>1, <2>2, BlockServed DEF TaskStep
  <1>5. CASE ShutdownBegin
    <2>1. /\ UNCHANGED <<tasks, idle_workers, running_workers, is_blocked>>
          /\ waiting' \subseteq waiting
      BY <1>5 DEF ShutdownBegin, NotifyAll
    <2> QED BY <2>1, MonotoneServed DEF AwakeIdle
  <1>6. CASE ShutdownStep
    BY <1>0, <1>6
    DEF ShutdownStep, ShutdownCheck, ShutdownWait, ShutdownObtain, ShutdownJoin, ShutdownReturn
  <1>7. CASE UNCHANGED vars
    BY <1>0, <1>7 DEF vars
  <1> QED BY <1>1, <1>2, <1>3, <1>4, <1>5, <1>6, <1>7 DEF Next

LEMMA InitServed == Init => Served
  BY SMT, FS_EmptySet, EmptySeq
  DEF Init, Served, NoLostWakeup, UnlimitedNeverQueues, LimitedHasServer, AwakeIdle

-----------------------------------------------------------------------------
\* Once all workers are dead nobody is left to take a step that matters. A pool
\* without workers has no task either, because every task is served.
LEMMA NoWorkersNoTasks ==
  ASSUME Books, Served, idle_workers = {}, running_workers = {}
  PROVE  tasks = <<>>
  <1>1. AwakeIdle = {} /\ running_workers \ is_blocked = {} /\ Cardinality(AwakeIdle) = 0
    BY FS_EmptySet DEF AwakeIdle
  <1>2. CASE MaxPoolSize = 0
    <2>1. Len(tasks) <= 0
      BY <1>1, <1>2 DEF Served, UnlimitedNeverQueues
    <2> QED BY SMT, <2>1, EmptySeq, AwakeFinite DEF Books, TypeOK, ListsOK
  <1>3. CASE MaxPoolSize > 0
    BY <1>1, <1>3 DEF Served, LimitedHasServer
  <1> QED BY SMT, <1>2, <1>3, PoolAssumption

LEMMA NextAllDead ==
  Books /\ Served /\ AllDeadIsFinal /\ [Next]_vars => AllDeadIsFinal'
  <1> SUFFICES ASSUME Books, Served, AllDeadIsFinal, [Next]_vars PROVE AllDeadIsFinal'
    OBVIOUS
  <1> USE DEF AllDeadIsFinal
  <1>1. ASSUME NEW t \in Tasks, RunImpl(t) \/ RunRefused(t) PROVE AllDeadIsFinal'
    BY <1>1 DEF RunImpl, RunRefused, Accepting
  <1>2. ASSUME NEW w \in Workers, WorkerStep(w) PROVE AllDeadIsFinal'
    <2>1. CASE \/ WorkerLoop(w) \/ DrainTasks(w)
      BY <2>1 DEF WorkerLoop, DrainTasks, Books, WorkersPlaced, IdlePositions
    <2>2. CASE IdleCheck(w) \/ IdleWaitDone(w) \/ NotifyIdleDone(w) \/ WaitDone(w)
      <3>1. w \in idle_workers /\ UNCHANGED tasks
        BY <2>2 DEF IdleCheck, IdleWaitDone, NotifyIdleDone, WaitDone, Books,
                    WorkersPlaced, IdlePositions
      <3>2. ~all_workers_dead
        BY <3>1
      <3>3. CASE UNCHANGED flags
        BY <3>2, <3>3
      <3>4. CASE IdleToDeadLocked(w) /\ tasks = <<>>
        BY <3>1, <3>2, <3>4 DEF IdleToDeadLocked, LastWorker
      <3>5. tasks = <<>> \/ Continue(w)
        BY <2>2 DEF IdleCheck, IdleWaitDone, NotifyIdleDone, WaitDone, DieOrWait, Done,
                    Books, WorkersPlaced
      <3>6. UNCHANGED flags \/ IdleToDeadLocked(w)
        BY <2>2 DEF IdleCheck, IdleWaitDone, NotifyIdleDone, WaitDone, DieOrWait, Done,
                    Continue, LeaveToNotifyIdle, OnEnterIdleLocked
      <3> QED BY <3>3, <3>4, <3>5, <3>6 DEF Continue
    <2>3. CASE \/ NotifyExit(w) \/ ThreadExit(w) \/ StartThread(w)
               \/ \E d \in Workers : JoinDeadWorker(w, d)
      BY <2>3 DEF NotifyExit, ThreadExit, StartThread, JoinDeadWorker
    <2> QED BY <1>2, <2>1, <2>2, <2>3 DEF WorkerStep
  <1>3. ASSUME NEW w \in Workers, WakeStep(w) \/ TaskStep(w) PROVE AllDeadIsFinal'
    <2>1. CASE WakeStep(w)
      BY <2>1 DEF WakeStep, WaitTimesOut, SpuriousWakeup
    <2>2. CASE TaskReturns(w) \/ MarkCurrentWorkerAsUnBlocked(w)
      BY <2>2 DEF TaskReturns, MarkCurrentWorkerAsUnBlocked
    <2>3. CASE MarkCurrentWorkerAsBlocked(w)
      BY <2>3 DEF MarkCurrentWorkerAsBlocked, Books, WorkersPlaced
    <2> QED BY <1>3, <2>1, <2>2, <2>3 DEF TaskStep
  <1>4. CASE ShutdownBegin
    BY <1>4, NoWorkersNoTasks DEF ShutdownBegin
  <1>5. CASE ShutdownStep
    BY <1>5
    DEF ShutdownStep, ShutdownCheck, ShutdownWait, ShutdownObtain, ShutdownJoin, ShutdownReturn
  <1>6. CASE UNCHANGED vars
    BY <1>6 DEF vars
  <1> QED BY <1>1, <1>2, <1>3, <1>4, <1>5, <1>6 DEF Next

-----------------------------------------------------------------------------
\* The inductive invariant holds in every reachable state.
LEMMA Invariance == Spec => [](Books /\ Served /\ AllDeadIsFinal)
  <1>1. Init => Books /\ Served /\ AllDeadIsFinal
    BY InitBooks, InitServed DEF Init, AllDeadIsFinal
  <1>2. Books /\ Served /\ AllDeadIsFinal /\ [Next]_vars
          => (Books /\ Served /\ AllDeadIsFinal)'
    BY NextBooks, NextServed, NextAllDead
  <1> QED BY <1>1, <1>2, PTL DEF Spec

\* The variables keep their types: the unsigned counters of the pool never wrap
\* around.
THEOREM TypeCorrect == Spec => []TypeOK
  BY Invariance, PTL DEF Books

\* The counters of thread_pool.cc always agree with the lists, the lists with
\* what the worker threads do, and the capacity with the blocked workers.
THEOREM BookkeepingCorrect == Spec => []BooksAgree
  BY Invariance, PTL DEF Books, BooksAgree

\* max_pool_size_ is the configured size plus the number of blocked workers.
THEOREM CapacityCorrect == Spec => []CapacityCountsBlocked
  BY Invariance, PTL DEF Books

\* No wakeup of pool_monitor_ is ever lost.
THEOREM WakeupsNotLost == Spec => []NoLostWakeup
  BY Invariance, PTL DEF Served

\* An unlimited pool has an awake idle worker for every pending task.
THEOREM UnlimitedServes == Spec => []UnlimitedNeverQueues
  BY Invariance, PTL DEF Served

\* A limited pool with pending tasks has a worker that is awake and unblocked.
THEOREM LimitedServes == Spec => []LimitedHasServer
  BY Invariance, PTL DEF Served

\* all_workers_dead_ is only ever visible when the pool is empty, for good.
THEOREM DeathIsFinal == Spec => []AllDeadIsFinal
  BY Invariance, PTL

-----------------------------------------------------------------------------
\* Positions of a worker that has left dead_workers_ to be joined.
Dead == {"notify_exit", "joining", "exited"}

\* Only a dying worker has threads to join ...
OnlyDyingJoin ==
  \A w \in Workers : join_list[w] # {} => pc[w] \in {"notify_exit", "joining"}

\* ... and the join lists form no cycle: among any dead workers there is one
\* that none of them has to join.
NoJoinCycle ==
  \A S \in SUBSET Gone : S # {} => \E d \in S : \A w \in S : d \notin join_list[w]

Joins == JoinedByExactlyOne /\ OnlyDyingJoin /\ NoJoinCycle

\* How far Shutdown has come says what is left to be joined.
ShutdownProgress ==
  /\ sd_pc \in {"obtain", "join", "returned"} => all_workers_dead
  /\ sd_pc \in {"join", "returned"} => dead_workers = {}
  /\ sd_pc # "join" => sd_join = {}

\* An unfinished task is in one place: once in tasks_, or with the one worker
\* that runs it.
Queued ==
  /\ \A i \in 1 .. Len(tasks) : task_state[tasks[i]] = "queued"
  /\ \A i, j \in 1 .. Len(tasks) : tasks[i] = tasks[j] => i = j
  /\ \A t \in Tasks : task_state[t] = "queued" => \E i \in 1 .. Len(tasks) : tasks[i] = t

Running ==
  /\ \A w \in Workers : pc[w] = "run" =>
       current[w] \in Tasks /\ task_state[current[w]] = "running"
  /\ \A v, w \in Workers : pc[v] = "run" /\ pc[w] = "run" /\ v # w =>
       current[v] # current[w]
  /\ \A t \in Tasks : task_state[t] = "running" =>
       \E w \in Workers : pc[w] = "run" /\ current[w] = t

-----------------------------------------------------------------------------
\* Joins: steps that move living workers, the death of a worker, and the joins.

LEMMA LivingMove ==
  ASSUME Joins, NEW w \in Workers, NEW s, pc[w] \notin Dead, s \notin Dead,
         pc \in [Workers -> ThreadStates], pc' = [pc EXCEPT ![w] = s],
         UNCHANGED <<dead_workers, join_list, sd_join>>
  PROVE  Joins'
  <1>1. Gone' = Gone
    BY DEF Gone, Dead
  <1>2. JoinedByExactlyOne'
    BY <1>1 DEF Joins, JoinedByExactlyOne
  <1>3. OnlyDyingJoin'
    BY DEF Joins, OnlyDyingJoin, Dead
  <1>4. NoJoinCycle'
    BY <1>1 DEF Joins, NoJoinCycle
  <1> QED BY <1>2, <1>3, <1>4 DEF Joins

LEMMA NobodyMoves ==
  ASSUME Joins, UNCHANGED <<pc, dead_workers, join_list, sd_join>>
  PROVE  Joins'
  BY SMT DEF Joins, JoinedByExactlyOne, OnlyDyingJoin, NoJoinCycle, Gone

\* A worker that dies takes over dead_workers_: nobody has to join it yet, so
\* it is the one that its own set of dead workers need not join.
LEMMA DeathJoins ==
  ASSUME Books, Joins, NEW w \in idle_workers, IdleToDeadLocked(w), UNCHANGED sd_join
  PROVE  Joins'
  <1>0. /\ w \in Workers /\ pc[w] \notin Dead /\ w \notin Gone
        /\ pc'[w] \in {"notify_exit", "joining"}
        /\ \A v \in Workers : v # w => pc'[v] = pc[v]
    BY DEF Books, TypeOK, ListsOK, ThreadsOK, WorkersPlaced, IdlePositions, Dead, Gone,
           IdleToDeadLocked
  <1>1. Gone' = Gone \cup {w}
    BY <1>0 DEF Gone
  <1>2. join_list[w] = {}
    BY <1>0 DEF Joins, OnlyDyingJoin, Dead
  <1>3. /\ join_list'[w] = dead_workers /\ dead_workers' = {w}
        /\ \A v \in Workers : v # w => join_list'[v] = join_list[v]
    BY <1>0, <1>2 DEF IdleToDeadLocked, DeadAfterObtain, Books, TypeOK, ThreadsOK
  <1>4. JoinedByExactlyOne'
    <2>1. Gone' = (dead_workers \cup sd_join \cup UNION {join_list[v] : v \in Workers})'
      <3>1. UNION {join_list'[v] : v \in Workers}
              = dead_workers \cup UNION {join_list[v] : v \in Workers}
        BY <1>0, <1>2, <1>3
      <3> QED BY <1>1, <1>3, <3>1 DEF Joins, JoinedByExactlyOne
    <2>2. w \notin sd_join /\ \A v \in Workers : w \notin join_list[v]
      BY <1>0 DEF Joins, JoinedByExactlyOne
    <2> QED BY SMT, <1>0, <1>3, <2>1, <2>2 DEF Joins, JoinedByExactlyOne
  <1>5. OnlyDyingJoin'
    BY <1>0, <1>3 DEF Joins, OnlyDyingJoin
  <1>6. NoJoinCycle'
    <2> SUFFICES ASSUME NEW S \in SUBSET Gone', S # {}
                 PROVE  \E d \in S : \A v \in S : d \notin join_list'[v]
      BY DEF NoJoinCycle
    <2>1. CASE w \in S
      <3>1. \A v \in S : w \notin join_list'[v]
        BY SMT, <1>0, <1>1, <1>3 DEF Joins, JoinedByExactlyOne, Gone
      <3> QED BY <2>1, <3>1
    <2>2. CASE w \notin S
      <3>1. S \in SUBSET Gone /\ \A v \in S : join_list'[v] = join_list[v]
        BY <1>1, <1>3, <2>2 DEF Gone
      <3> QED BY <3>1 DEF Joins, NoJoinCycle
    <2> QED BY <2>1, <2>2
  <1> QED BY <1>4, <1>5, <1>6 DEF Joins

\* A joined worker leaves the only list it is in.
LEMMA JoinedLeaves ==
  ASSUME Books, Joins, NEW d \in Workers, pc[d] = "exited", Go(d, "none"),
         UNCHANGED dead_workers, join_list' \in [Workers -> SUBSET Workers],
         d \notin dead_workers,
         sd_join' = sd_join \ {d},
         \A v \in Workers : join_list'[v] = join_list[v] \ {d}
  PROVE  Joins'
  <1>1. Gone' = Gone \ {d} /\ join_list[d] = {}
    BY DEF Gone, Joins, OnlyDyingJoin, Books, TypeOK, ThreadsOK
  <1>2. JoinedByExactlyOne'
    <2>1. UNION {join_list'[v] : v \in Workers} = (UNION {join_list[v] : v \in Workers}) \ {d}
      BY SMT
    <2> QED BY SMT, <1>1, <2>1 DEF Joins, JoinedByExactlyOne
  <1>3. OnlyDyingJoin'
    BY <1>1 DEF Joins, OnlyDyingJoin, Books, TypeOK, ThreadsOK
  <1>4. NoJoinCycle'
    <2> SUFFICES ASSUME NEW S \in SUBSET Gone', S # {}
                 PROVE  \E e \in S : \A v \in S : e \notin join_list'[v]
      BY DEF NoJoinCycle
    <2>1. PICK e \in S : \A v \in S : e \notin join_list[v]
      BY <1>1 DEF Joins, NoJoinCycle
    <2> QED BY SMT, <1>1, <2>1 DEF Gone
  <1> QED BY <1>2, <1>3, <1>4 DEF Joins

\* What the steps of a worker that looks for work do to its place and its flags.
LEMMA LookForWork ==
  ASSUME Books, NEW w \in Workers,
         IdleCheck(w) \/ IdleWaitDone(w) \/ NotifyIdleDone(w) \/ WaitDone(w)
  PROVE  /\ w \in idle_workers /\ UNCHANGED <<tasks, task_state, current, sd_pc, sd_join>>
         /\ \/ IdleToDeadLocked(w)
            \/ /\ UNCHANGED <<join_list, lists, flags>>
               /\ pc[w] \notin Dead
               /\ \E s \in {"loop", "notify_idle", "idle_wait", "wait"} :
                     pc' = [pc EXCEPT ![w] = s]
  <1>1. w \in idle_workers /\ pc[w] \notin Dead
    BY DEF IdleCheck, IdleWaitDone, NotifyIdleDone, WaitDone, Books, WorkersPlaced,
           IdlePositions, Dead
  <1>2. UNCHANGED <<tasks, task_state, sd_pc, sd_join>>
    BY DEF IdleCheck, IdleWaitDone, NotifyIdleDone, WaitDone
  <1>3. Continue(w) \/ LeaveToNotifyIdle(w) \/ IdleToDeadLocked(w)
          \/ /\ UNCHANGED <<current, join_list, lists, flags>>
             /\ Go(w, "wait") \/ Go(w, "idle_wait") \/ (At(w, "wait") /\ UNCHANGED pc)
    BY DEF IdleCheck, IdleWaitDone, NotifyIdleDone, WaitDone, DieOrWait, OnEnterIdleLocked
  <1>4. At(w, "wait") /\ UNCHANGED pc => Go(w, "wait")
    BY DEF Books, TypeOK, ThreadsOK
  <1>5. UNCHANGED current
    BY <1>3 DEF Continue, LeaveToNotifyIdle, IdleToDeadLocked
  <1> QED BY <1>1, <1>2, <1>3, <1>4, <1>5 DEF Continue, LeaveToNotifyIdle

LEMMA NewWorkerJoins ==
  ASSUME Books, Joins, NEW n \in Workers, NewWorker(n), UNCHANGED sd_join
  PROVE  Joins'
  <1>1. "created" \notin Dead /\ pc[n] \notin Dead
    BY DEF NewWorker, Dead
  <1> QED BY <1>1, LivingMove DEF NewWorker, Books, TypeOK, ThreadsOK

LEMMA WorkerJoins ==
  ASSUME Books, Joins, NEW w \in Workers, WorkerStep(w)
  PROVE  Joins'
  <1>0. pc \in [Workers -> ThreadStates]
    BY DEF Books, TypeOK, ThreadsOK
  <1>1. CASE WorkerLoop(w) \/ DrainTasks(w) \/ StartThread(w)
    <2>1. pc[w] \notin Dead
      BY <1>1 DEF WorkerLoop, DrainTasks, StartThread, Dead
    <2>2. UNCHANGED <<dead_workers, join_list, sd_join>>
      BY <1>1 DEF WorkerLoop, DrainTasks, StartThread, RunFirstTask, KeepMonitor,
                  IdleToRunningLocked, RunningToIdleLocked
    <2>3. PICK s \in {"run", "idle_check", "loop"} : pc' = [pc EXCEPT ![w] = s]
      BY <1>1 DEF WorkerLoop, DrainTasks, StartThread, RunFirstTask, KeepMonitor
    <2>4. s \notin Dead
      BY DEF Dead
    <2> QED BY <1>0, <2>1, <2>2, <2>3, <2>4, LivingMove
  <1>2. CASE IdleCheck(w) \/ IdleWaitDone(w) \/ NotifyIdleDone(w) \/ WaitDone(w)
    <2>1. CASE IdleToDeadLocked(w)
      BY <1>2, <2>1, LookForWork, DeathJoins
    <2>2. CASE ~IdleToDeadLocked(w)
      <3>1. PICK s \in {"loop", "notify_idle", "idle_wait", "wait"} :
                   pc' = [pc EXCEPT ![w] = s]
        BY <1>2, <2>2, LookForWork
      <3>2. s \notin Dead
        BY DEF Dead
      <3>3. pc[w] \notin Dead /\ UNCHANGED <<dead_workers, join_list, sd_join>>
        BY <1>2, <2>2, LookForWork
      <3> QED BY <1>0, <3>1, <3>2, <3>3, LivingMove
    <2> QED BY <2>1, <2>2
  <1>3. CASE NotifyExit(w) \/ ThreadExit(w)
    <2>1. Gone' = Gone
      BY <1>0, <1>3 DEF NotifyExit, ThreadExit, Gone
    <2>2. UNCHANGED <<dead_workers, join_list, sd_join>>
      BY <1>3 DEF NotifyExit, ThreadExit
    <2>3. JoinedByExactlyOne' /\ NoJoinCycle'
      BY SMT, <2>1, <2>2 DEF Joins, JoinedByExactlyOne, NoJoinCycle
    <2>4. OnlyDyingJoin'
      BY <1>0, <1>3 DEF Joins, OnlyDyingJoin, NotifyExit, ThreadExit
    <2> QED BY <2>3, <2>4 DEF Joins
  <1>4. ASSUME NEW d \in Workers, JoinDeadWorker(w, d) PROVE Joins'
    <2>1. /\ pc[d] = "exited" /\ Go(d, "none") /\ d \in join_list[w]
          /\ join_list' = [join_list EXCEPT ![w] = @ \ {d}]
          /\ UNCHANGED <<dead_workers, sd_join>>
      BY <1>4 DEF JoinDeadWorker
    <2>2. d \notin dead_workers /\ d \notin sd_join
          /\ \A v \in Workers : v # w => d \notin join_list[v]
      BY <2>1 DEF Joins, JoinedByExactlyOne
    <2>3. /\ join_list' \in [Workers -> SUBSET Workers]
          /\ \A v \in Workers : join_list'[v] = join_list[v] \ {d}
      BY <2>1, <2>2 DEF Books, TypeOK, ThreadsOK
    <2>4. sd_join' = sd_join \ {d}
      BY <2>1, <2>2
    <2> QED BY <2>1, <2>2, <2>3, <2>4, JoinedLeaves
  <1> QED BY <1>1, <1>2, <1>3, <1>4 DEF WorkerStep

LEMMA NextJoins == Books /\ Joins /\ ShutdownProgress /\ [Next]_vars => Joins'
  <1> SUFFICES ASSUME Books, Joins, ShutdownProgress, [Next]_vars PROVE Joins'
    OBVIOUS
  <1>0. pc \in [Workers -> ThreadStates]
    BY DEF Books, TypeOK, ThreadsOK
  <1>1. ASSUME NEW t \in Tasks, RunImpl(t) \/ RunRefused(t) PROVE Joins'
    <2>1. CASE UNCHANGED <<lists, threads, sd_join>>
      BY <2>1, NobodyMoves
    <2>2. CASE \E n \in Workers : NewWorker(n) /\ UNCHANGED sd_join
      BY <2>2, NewWorkerJoins
    <2> QED BY <1>1, <2>1, <2>2 DEF RunImpl, RunRefused, ScheduleTaskLocked, NoNewWorker
  <1>2. ASSUME NEW w \in Workers, WorkerStep(w) PROVE Joins'
    BY <1>2, WorkerJoins
  <1>3. ASSUME NEW w \in Workers, WakeStep(w) PROVE Joins'
    BY <1>3, NobodyMoves DEF WakeStep, WaitTimesOut, SpuriousWakeup
  <1>4. ASSUME NEW w \in Workers, TaskStep(w) PROVE Joins'
    <2>1. CASE TaskReturns(w)
      <3>1. pc[w] \notin Dead /\ "drain" \notin Dead
        BY <2>1 DEF TaskReturns, Dead
      <3> QED BY <1>0, <2>1, <3>1, LivingMove DEF TaskReturns
    <2>2. CASE MarkCurrentWorkerAsBlocked(w)
      BY <2>2, NobodyMoves, NewWorkerJoins DEF MarkCurrentWorkerAsBlocked, NoNewWorker
    <2>3. CASE MarkCurrentWorkerAsUnBlocked(w)
      BY <2>3, NobodyMoves DEF MarkCurrentWorkerAsUnBlocked
    <2> QED BY <1>4, <2>1, <2>2, <2>3 DEF TaskStep
  <1>5. CASE ShutdownObtain
    <2>1. /\ sd_join = {} /\ sd_join' = dead_workers /\ dead_workers' = {}
          /\ UNCHANGED <<pc, join_list>>
      BY <1>5 DEF ShutdownObtain, ShutdownProgress, ShutdownJoins, DeadAfterObtain
    <2>2. Gone' = Gone
      BY <2>1 DEF Gone
    <2> QED BY SMT, <2>1, <2>2 DEF Joins, JoinedByExactlyOne, OnlyDyingJoin, NoJoinCycle
  <1>6. ASSUME NEW d \in Workers, ShutdownJoin(d) PROVE Joins'
    <2>1. /\ pc[d] = "exited" /\ Go(d, "none") /\ d \in sd_join
          /\ sd_join' = sd_join \ {d}
          /\ UNCHANGED <<dead_workers, join_list>>
      BY <1>6 DEF ShutdownJoin
    <2>2. d \notin dead_workers /\ \A v \in Workers : d \notin join_list[v]
      BY <2>1 DEF Joins, JoinedByExactlyOne
    <2>3. /\ join_list' \in [Workers -> SUBSET Workers]
          /\ \A v \in Workers : join_list'[v] = join_list[v] \ {d}
      BY <2>1, <2>2 DEF Books, TypeOK, ThreadsOK
    <2> QED BY <2>1, <2>2, <2>3, JoinedLeaves
  <1>7. CASE ShutdownBegin \/ ShutdownCheck \/ ShutdownWait \/ ShutdownReturn
    BY <1>7, NobodyMoves DEF ShutdownBegin, ShutdownCheck, ShutdownWait, ShutdownReturn
  <1>8. CASE UNCHANGED vars
    BY <1>8, NobodyMoves DEF vars
  <1> QED BY <1>1, <1>2, <1>3, <1>4, <1>5, <1>6, <1>7, <1>8 DEF Next, ShutdownStep

-----------------------------------------------------------------------------
\* Shutdown: all_workers_dead_ is never reset, and a pool in which it is set has
\* nobody left who could die.
LEMMA NextProgress ==
  Books /\ AllDeadIsFinal /\ ShutdownProgress /\ [Next]_vars => ShutdownProgress'
  <1> SUFFICES ASSUME Books, AllDeadIsFinal, ShutdownProgress, [Next]_vars
               PROVE  ShutdownProgress'
    OBVIOUS
  <1> USE DEF ShutdownProgress
  <1>1. ASSUME UNCHANGED <<sd_pc, sd_join, all_workers_dead, dead_workers>>
        PROVE  ShutdownProgress'
    BY <1>1
  <1>2. ASSUME NEW t \in Tasks, RunImpl(t) \/ RunRefused(t) PROVE ShutdownProgress'
    BY <1>1, <1>2 DEF RunImpl, RunRefused, ScheduleTaskLocked, NoNewWorker, NewWorker
  <1>3. ASSUME NEW w \in Workers, WorkerStep(w) PROVE ShutdownProgress'
    <2>1. CASE WorkerLoop(w) \/ DrainTasks(w) \/ StartThread(w) \/ ThreadExit(w)
      BY <1>1, <2>1 DEF WorkerLoop, DrainTasks, StartThread, ThreadExit,
                        IdleToRunningLocked, RunningToIdleLocked
    <2>2. CASE IdleCheck(w) \/ IdleWaitDone(w) \/ NotifyIdleDone(w) \/ WaitDone(w)
      <3>1. /\ w \in idle_workers /\ UNCHANGED <<sd_pc, sd_join>>
            /\ IdleToDeadLocked(w) \/ UNCHANGED <<lists, flags>>
        BY <2>2, LookForWork
      <3>2. ~all_workers_dead
        BY <3>1 DEF AllDeadIsFinal
      <3>3. sd_pc \notin {"obtain", "join", "returned"}
        BY <3>2
      <3> QED BY <1>1, <3>1, <3>3
    <2>3. CASE NotifyExit(w)
      BY <2>3 DEF NotifyExit
    <2>4. CASE \E d \in Workers : JoinDeadWorker(w, d)
      BY <1>1, <2>4 DEF JoinDeadWorker
    <2> QED BY <1>3, <2>1, <2>2, <2>3, <2>4 DEF WorkerStep
  <1>4. ASSUME NEW w \in Workers, WakeStep(w) \/ TaskStep(w) PROVE ShutdownProgress'
    BY <1>1, <1>4 DEF WakeStep, WaitTimesOut, SpuriousWakeup, TaskStep, TaskReturns,
                      MarkCurrentWorkerAsBlocked, MarkCurrentWorkerAsUnBlocked, NoNewWorker,
                      NewWorker
  <1>5. CASE ShutdownBegin \/ ShutdownCheck \/ ShutdownWait \/ ShutdownReturn
    BY <1>5 DEF ShutdownBegin, ShutdownCheck, ShutdownWait, ShutdownReturn
  <1>6. CASE ShutdownObtain \/ \E d \in Workers : ShutdownJoin(d)
    BY <1>6 DEF ShutdownObtain, ShutdownJoin, DeadAfterObtain
  <1>7. CASE UNCHANGED vars
    BY <1>1, <1>7 DEF vars
  <1> QED BY <1>2, <1>3, <1>4, <1>5, <1>6, <1>7 DEF Next, ShutdownStep

-----------------------------------------------------------------------------
\* Tasks: each accepted task is in tasks_ once, then with one worker.

\* A step that changes nobody's task.
LEMMA TasksStay ==
  ASSUME Books, Queued, Running, UNCHANGED <<tasks, task_state, current>>,
         \A w \in Workers : pc'[w] = "run" <=> pc[w] = "run"
  PROVE  Queued' /\ Running'
  BY SMT DEF Queued, Running

\* ScheduleTaskLocked puts a new task at the end.
LEMMA TaskAccepted ==
  ASSUME Books, Queued, NEW t \in Tasks, task_state[t] = "new",
         tasks' = Append(tasks, t),
         task_state' = [task_state EXCEPT ![t] = "queued"]
  PROVE  Queued'
  <1>1. tasks \in Seq(Tasks) /\ task_state \in [Tasks -> TaskStates]
    BY DEF Books, TypeOK, ListsOK, ThreadsOK
  <1>2. /\ Len(tasks) \in Nat /\ Len(tasks') = Len(tasks) + 1
        /\ \A i \in 1 .. Len(tasks) : tasks'[i] = tasks[i] /\ tasks[i] \in Tasks
        /\ tasks'[Len(tasks) + 1] = t
    BY SMT, <1>1
  <1>3. \A i \in 1 .. Len(tasks) : tasks[i] # t
    BY DEF Queued
  <1>4. \A i \in 1 .. Len(tasks') : i \in 1 .. Len(tasks) \/ i = Len(tasks) + 1
    BY SMT, <1>2
  <1>5. \A i \in 1 .. Len(tasks') : task_state'[tasks'[i]] = "queued"
    BY SMT, <1>1, <1>2, <1>3, <1>4 DEF Queued
  <1>6. \A i, j \in 1 .. Len(tasks') : tasks'[i] = tasks'[j] => i = j
    BY SMT, <1>2, <1>3, <1>4 DEF Queued
  <1>7. ASSUME NEW u \in Tasks, task_state'[u] = "queued"
        PROVE  \E i \in 1 .. Len(tasks') : tasks'[i] = u
    <2>1. CASE u = t
      BY SMT, <1>2, <2>1
    <2>2. CASE u # t
      <3>1. PICK i \in 1 .. Len(tasks) : tasks[i] = u
        BY <1>1, <1>7, <2>2 DEF Queued
      <3> QED BY SMT, <1>2, <3>1
    <2> QED BY <2>1, <2>2
  <1> QED BY <1>5, <1>6, <1>7 DEF Queued

\* A worker that takes the first task is the only one that has it.
LEMMA TaskStarted ==
  ASSUME Books, Queued, Running, NEW w \in Workers, pc[w] # "run", RunFirstTask(w)
  PROVE  Queued' /\ Running'
  <1> DEFINE h == Head(tasks)
  <1>1. /\ tasks \in Seq(Tasks) /\ task_state \in [Tasks -> TaskStates]
        /\ pc \in [Workers -> ThreadStates] /\ current \in [Workers -> Tasks \cup {Nobody}]
    BY DEF Books, TypeOK, ListsOK, ThreadsOK
  <1>2. /\ tasks' = Tail(tasks) /\ task_state' = [task_state EXCEPT ![h] = "running"]
        /\ current' = [current EXCEPT ![w] = h] /\ pc' = [pc EXCEPT ![w] = "run"]
    BY DEF RunFirstTask
  <1>3. /\ Len(tasks) \in Nat \ {0} /\ h = tasks[1] /\ h \in Tasks
        /\ Len(tasks') = Len(tasks) - 1
        /\ \A i \in 1 .. Len(tasks') : i + 1 \in 1 .. Len(tasks) /\ tasks'[i] = tasks[i + 1]
        /\ \A i \in 1 .. Len(tasks) : tasks[i] \in Tasks
    BY SMT, <1>1, <1>2, QueueShrinks DEF RunFirstTask
  <1>4. task_state[h] = "queued" /\ \A i \in 1 .. Len(tasks') : tasks'[i] # h
    BY SMT, <1>3 DEF Queued
  <1>5. Queued'
    <2>1. \A i \in 1 .. Len(tasks') : task_state'[tasks'[i]] = "queued"
      BY SMT, <1>1, <1>2, <1>3, <1>4 DEF Queued
    <2>2. \A i, j \in 1 .. Len(tasks') : tasks'[i] = tasks'[j] => i = j
      BY SMT, <1>3 DEF Queued
    <2>3. ASSUME NEW u \in Tasks, task_state'[u] = "queued"
          PROVE  \E i \in 1 .. Len(tasks') : tasks'[i] = u
      <3>1. u # h /\ task_state[u] = "queued"
        BY <1>1, <1>2, <1>3, <2>3
      <3>2. PICK i \in 1 .. Len(tasks) : tasks[i] = u
        BY <3>1 DEF Queued
      <3>3. i - 1 \in 1 .. Len(tasks') /\ tasks'[i - 1] = u
        BY SMT, <1>3, <3>1, <3>2
      <3> QED BY <3>3
    <2> QED BY <2>1, <2>2, <2>3 DEF Queued
  <1>6. Running'
    <2>1. \A v \in Workers : pc[v] = "run" => v # w /\ current[v] # h
      BY <1>4 DEF Running
    <2>2. \A v \in Workers : pc'[v] = "run" =>
             current'[v] \in Tasks /\ task_state'[current'[v]] = "running"
      BY <1>1, <1>2, <1>3, <2>1 DEF Running
    <2>3. \A u, v \in Workers : pc'[u] = "run" /\ pc'[v] = "run" /\ u # v =>
             current'[u] # current'[v]
      BY <1>1, <1>2, <2>1 DEF Running
    <2>4. ASSUME NEW u \in Tasks, task_state'[u] = "running"
          PROVE  \E v \in Workers : pc'[v] = "run" /\ current'[v] = u
      BY SMT, <1>1, <1>2, <1>3, <2>1, <2>4 DEF Running
    <2> QED BY <2>2, <2>3, <2>4 DEF Running
  <1> QED BY <1>5, <1>6

LEMMA TaskDone ==
  ASSUME Books, Queued, Running, NEW w \in Workers, TaskReturns(w)
  PROVE  /\ Queued' /\ Running'
         /\ current[w] \in Tasks /\ task_state[current[w]] = "running"
  <1>1. /\ tasks \in Seq(Tasks) /\ task_state \in [Tasks -> TaskStates]
        /\ pc \in [Workers -> ThreadStates] /\ current \in [Workers -> Tasks \cup {Nobody}]
    BY DEF Books, TypeOK, ListsOK, ThreadsOK
  <1>2. /\ pc[w] = "run" /\ UNCHANGED tasks
        /\ task_state' = [task_state EXCEPT ![current[w]] = "done"]
        /\ current' = [current EXCEPT ![w] = Nobody] /\ pc' = [pc EXCEPT ![w] = "drain"]
    BY DEF TaskReturns
  <1>3. current[w] \in Tasks /\ task_state[current[w]] = "running"
    BY <1>2 DEF Running
  <1>4. Queued'
    <2>1. \A i \in 1 .. Len(tasks) : tasks[i] \in Tasks /\ tasks[i] # current[w]
      BY SMT, <1>1, <1>3 DEF Queued
    <2> QED BY <1>1, <1>2, <1>3, <2>1 DEF Queued
  <1>5. Running'
    <2>1. \A v \in Workers : pc'[v] = "run" =>
             v # w /\ pc[v] = "run" /\ current'[v] = current[v] /\ current[v] # current[w]
      BY <1>1, <1>2 DEF Running
    <2>2. ASSUME NEW u \in Tasks, task_state'[u] = "running"
          PROVE  \E v \in Workers : pc'[v] = "run" /\ current'[v] = u
      <3>1. u # current[w] /\ task_state[u] = "running"
        BY <1>1, <1>2, <1>3, <2>2
      <3> QED BY <1>1, <1>2, <3>1 DEF Running
    <2> QED BY SMT, <1>1, <1>2, <1>3, <2>1, <2>2 DEF Running
  <1> QED BY <1>3, <1>4, <1>5

\* The other steps of Run.
LEMMA RunTasks ==
  ASSUME Books, Queued, Running, NEW t \in Tasks, RunImpl(t) \/ RunRefused(t)
  PROVE  Queued' /\ Running'
  <1>1. /\ task_state \in [Tasks -> TaskStates] /\ pc \in [Workers -> ThreadStates]
        /\ tasks \in Seq(Tasks)
    BY DEF Books, TypeOK, ListsOK, ThreadsOK
  <1>2. /\ task_state[t] = "new" /\ UNCHANGED current
        /\ \E s \in {"queued", "refused"} : task_state' = [task_state EXCEPT ![t] = s]
    BY DEF RunImpl, RunRefused, ScheduleTaskLocked, NoNewWorker, NewWorker
  <1>3. \A w \in Workers : pc'[w] = "run" <=> pc[w] = "run"
    <2>1. UNCHANGED pc \/ \E n \in Workers : pc[n] = "none" /\ Go(n, "created")
      BY DEF RunImpl, RunRefused, ScheduleTaskLocked, NoNewWorker, NewWorker
    <2> QED BY <1>1, <2>1
  <1>4. Running'
    <2>1. \A w \in Workers : pc[w] = "run" => current[w] # t
      BY <1>2 DEF Running
    <2> QED BY SMT, <1>1, <1>2, <1>3, <2>1 DEF Running
  <1>5. CASE RunImpl(t)
    BY <1>2, <1>4, <1>5, TaskAccepted DEF RunImpl, ScheduleTaskLocked
  <1>6. CASE RunRefused(t)
    <2>1. UNCHANGED tasks /\ task_state' = [task_state EXCEPT ![t] = "refused"]
      BY <1>6 DEF RunRefused
    <2>2. \A i \in 1 .. Len(tasks) : tasks[i] \in Tasks /\ tasks[i] # t
      BY SMT, <1>1, <1>2 DEF Queued
    <2>3. Queued'
      BY <1>1, <2>1, <2>2 DEF Queued
    <2> QED BY <1>4, <2>3
  <1> QED BY <1>5, <1>6

\* A worker's own steps: it starts a task, or does nothing to any task.
LEMMA WorkerTasks ==
  ASSUME Books, Queued, Running, NEW w \in Workers, WorkerStep(w)
  PROVE  /\ Queued' /\ Running'
         /\ RunFirstTask(w) \/ UNCHANGED <<tasks, task_state>>
  <1>0. pc \in [Workers -> ThreadStates]
    BY DEF Books, TypeOK, ThreadsOK
  <1>1. CASE (WorkerLoop(w) \/ DrainTasks(w)) /\ RunFirstTask(w)
    BY <1>1, TaskStarted DEF WorkerLoop, DrainTasks
  <1>2. CASE (WorkerLoop(w) \/ DrainTasks(w)) /\ KeepMonitor(w)
    <2>1. UNCHANGED <<tasks, task_state, current>>
      BY <1>2 DEF KeepMonitor
    <2>2. \A v \in Workers : pc'[v] = "run" <=> pc[v] = "run"
      BY <1>0, <1>2 DEF WorkerLoop, DrainTasks, KeepMonitor
    <2> QED BY <2>1, <2>2, TasksStay
  <1>3. CASE IdleCheck(w) \/ IdleWaitDone(w) \/ NotifyIdleDone(w) \/ WaitDone(w)
    <2>1. UNCHANGED <<tasks, task_state, current>>
      BY <1>3, LookForWork
    <2>2. \E s \in {"loop", "notify_idle", "idle_wait", "wait", "notify_exit", "joining"} :
             pc' = [pc EXCEPT ![w] = s]
      BY <1>3, LookForWork DEF IdleToDeadLocked
    <2>3. pc[w] # "run"
      BY <1>3 DEF IdleCheck, IdleWaitDone, NotifyIdleDone, WaitDone
    <2>4. \A v \in Workers : pc'[v] = "run" <=> pc[v] = "run"
      BY <1>0, <2>2, <2>3
    <2> QED BY <2>1, <2>4, TasksStay
  <1>4. CASE NotifyExit(w) \/ ThreadExit(w) \/ StartThread(w)
    <2>1. UNCHANGED <<tasks, task_state, current>>
      BY <1>4 DEF NotifyExit, ThreadExit, StartThread
    <2>2. \A v \in Workers : pc'[v] = "run" <=> pc[v] = "run"
      BY <1>0, <1>4 DEF NotifyExit, ThreadExit, StartThread
    <2> QED BY <2>1, <2>2, TasksStay
  <1>5. ASSUME NEW d \in Workers, JoinDeadWorker(w, d)
        PROVE  Queued' /\ Running' /\ UNCHANGED <<tasks, task_state>>
    <2>1. UNCHANGED <<tasks, task_state, current>>
      BY <1>5 DEF JoinDeadWorker
    <2>2. \A v \in Workers : pc'[v] = "run" <=> pc[v] = "run"
      BY <1>0, <1>5 DEF JoinDeadWorker
    <2> QED BY <2>1, <2>2, TasksStay
  <1> QED BY <1>1, <1>2, <1>3, <1>4, <1>5 DEF WorkerStep, WorkerLoop, DrainTasks

LEMMA NextTasks == Books /\ Queued /\ Running /\ [Next]_vars => Queued' /\ Running'
  <1> SUFFICES ASSUME Books, Queued, Running, [Next]_vars PROVE Queued' /\ Running'
    OBVIOUS
  <1>0. pc \in [Workers -> ThreadStates]
    BY DEF Books, TypeOK, ThreadsOK
  <1>1. ASSUME NEW t \in Tasks, RunImpl(t) \/ RunRefused(t) PROVE Queued' /\ Running'
    BY <1>1, RunTasks
  <1>2. ASSUME NEW w \in Workers, WorkerStep(w) PROVE Queued' /\ Running'
    BY <1>2, WorkerTasks
  <1>3. ASSUME NEW w \in Workers, WakeStep(w) PROVE Queued' /\ Running'
    BY <1>3, TasksStay DEF WakeStep, WaitTimesOut, SpuriousWakeup
  <1>4. ASSUME NEW w \in Workers, TaskStep(w) PROVE Queued' /\ Running'
    <2>1. CASE TaskReturns(w)
      BY <2>1, TaskDone
    <2>2. CASE MarkCurrentWorkerAsBlocked(w) \/ MarkCurrentWorkerAsUnBlocked(w)
      <3>1. UNCHANGED <<tasks, task_state, current>>
        BY <2>2 DEF MarkCurrentWorkerAsBlocked, MarkCurrentWorkerAsUnBlocked, NoNewWorker,
                    NewWorker
      <3>2. UNCHANGED pc \/ \E n \in Workers : pc[n] = "none" /\ Go(n, "created")
        BY <2>2 DEF MarkCurrentWorkerAsBlocked, MarkCurrentWorkerAsUnBlocked, NoNewWorker,
                    NewWorker
      <3>3. \A v \in Workers : pc'[v] = "run" <=> pc[v] = "run"
        BY <1>0, <3>2
      <3> QED BY <3>1, <3>3, TasksStay
    <2> QED BY <1>4, <2>1, <2>2 DEF TaskStep
  <1>5. CASE ShutdownBegin \/ ShutdownCheck \/ ShutdownWait \/ ShutdownObtain \/ ShutdownReturn
    BY <1>5, TasksStay
    DEF ShutdownBegin, ShutdownCheck, ShutdownWait, ShutdownObtain, ShutdownReturn
  <1>6. ASSUME NEW d \in Workers, ShutdownJoin(d) PROVE Queued' /\ Running'
    <2>1. UNCHANGED <<tasks, task_state, current>>
      BY <1>6 DEF ShutdownJoin
    <2>2. \A v \in Workers : pc'[v] = "run" <=> pc[v] = "run"
      BY <1>0, <1>6 DEF ShutdownJoin
    <2> QED BY <2>1, <2>2, TasksStay
  <1>7. CASE UNCHANGED vars
    BY <1>7, TasksStay DEF vars
  <1> QED BY <1>1, <1>2, <1>3, <1>4, <1>5, <1>6, <1>7 DEF Next, ShutdownStep

-----------------------------------------------------------------------------
JInv == Books /\ AllDeadIsFinal /\ Joins /\ ShutdownProgress /\ Queued /\ Running

LEMMA JoinInvariance == Spec => []JInv
  <1> DEFINE J == Joins /\ ShutdownProgress /\ Queued /\ Running
  <1>1. Init => J
    <2> SUFFICES ASSUME Init PROVE J OBVIOUS
    <2>1. Gone = {} /\ \A w \in Workers : pc[w] = "none" /\ join_list[w] = {}
      BY DEF Init, Gone
    <2>2. UNION {join_list[w] : w \in Workers} = {}
      BY <2>1
    <2>3. Joins
      BY <2>1, <2>2 DEF Init, Joins, JoinedByExactlyOne, OnlyDyingJoin, NoJoinCycle
    <2>4. ShutdownProgress
      BY DEF Init, ShutdownProgress
    <2>5. Queued /\ Running
      BY SMT, <2>1, EmptySeq DEF Init, Queued, Running
    <2> QED BY <2>3, <2>4, <2>5
  <1>2. Books /\ AllDeadIsFinal /\ J /\ [Next]_vars => J'
    BY NextJoins, NextProgress, NextTasks
  <1> QED BY <1>1, <1>2, Invariance, PTL DEF Spec, JInv

\* When Shutdown has returned nobody is left: a dead worker would have to be in
\* the join list of a dead worker, and so on without end.
LEMMA NobodyLeft ==
  ASSUME JInv, sd_pc = "returned"
  PROVE  ShutdownJoinsEverything
  <1>1. /\ all_workers_dead /\ dead_workers = {} /\ sd_join = {}
        /\ idle_workers = {} /\ running_workers = {} /\ tasks = <<>>
    BY DEF JInv, ShutdownProgress, AllDeadIsFinal
  <1>2. Gone = {}
    <2> SUFFICES ASSUME Gone # {} PROVE FALSE OBVIOUS
    <2>1. PICK d \in Gone : \A w \in Gone : d \notin join_list[w]
      BY DEF JInv, Joins, NoJoinCycle
    <2>2. PICK w \in Workers : d \in join_list[w]
      BY <1>1 DEF JInv, Joins, JoinedByExactlyOne
    <2>3. w \in Gone
      BY <2>2 DEF JInv, Joins, OnlyDyingJoin, Gone
    <2> QED BY <2>1, <2>2, <2>3
  <1>3. \A w \in Workers : pc[w] = "none"
    BY <1>1, <1>2 DEF JInv, Books, TypeOK, ThreadsOK, WorkersPlaced, IdlePositions,
                      ThreadStates, Gone
  <1>4. \A t \in Tasks : task_state[t] \in {"new", "done", "refused"}
    <2> TAKE t \in Tasks
    <2>1. task_state[t] # "queued"
      BY SMT, <1>1, EmptySeq DEF JInv, Queued
    <2>2. task_state[t] # "running"
      BY <1>3 DEF JInv, Running
    <2> QED BY <2>1, <2>2 DEF JInv, Books, TypeOK, ThreadsOK, TaskStates
  <1> QED BY <1>1, <1>3, <1>4 DEF ShutdownJoinsEverything

\* Each dead worker thread of thread_pool.cc has exactly one joiner, and when
\* ThreadPool::Shutdown returns all threads are joined and all tasks have run.
THEOREM EveryThreadIsJoined == Spec => []ThreadsAreJoined
  <1>1. JInv => ThreadsAreJoined
    BY NobodyLeft DEF JInv, Joins, ThreadsAreJoined, ShutdownJoinsEverything
  <1> QED BY <1>1, JoinInvariance, PTL

-----------------------------------------------------------------------------
\* The safety part of the refinement: every step of the pool is a step of
\* TaskPool, or invisible to its callers.
LEMMA StepRefines ==
  ASSUME JInv, [Next]_vars
  PROVE  [Callers!Next]_(Callers!vars)
  <1> USE DEF Callers!Next, Callers!vars
  <1>1. ASSUME NEW t \in Tasks, RunImpl(t) PROVE Callers!Accept(t)
    BY <1>1 DEF RunImpl, ScheduleTaskLocked, Accepting, Callers!Accept
  <1>2. ASSUME NEW t \in Tasks, RunRefused(t) PROVE Callers!Refuse(t)
    BY <1>2 DEF RunRefused, Accepting, Callers!Refuse
  <1>3. ASSUME NEW w \in Workers, WorkerStep(w)
        PROVE  Callers!Start \/ UNCHANGED Callers!vars
    <2>1. UNCHANGED <<shutting_down, (sd_pc = "returned")>>
      BY <1>3 DEF WorkerStep, WorkerLoop, DrainTasks, IdleCheck, IdleWaitDone, NotifyIdleDone,
           WaitDone, NotifyExit, ThreadExit, StartThread, JoinDeadWorker, DieOrWait,
           IdleToDeadLocked, Continue, LeaveToNotifyIdle, OnEnterIdleLocked
    <2>2. RunFirstTask(w) \/ UNCHANGED <<tasks, task_state>>
      BY <1>3, WorkerTasks DEF JInv
    <2> QED BY <2>1, <2>2 DEF RunFirstTask, Callers!Start
  <1>4. ASSUME NEW w \in Workers, WakeStep(w) PROVE UNCHANGED Callers!vars
    BY SMT, <1>4 DEF WakeStep, WaitTimesOut, SpuriousWakeup
  <1>5. ASSUME NEW w \in Workers, TaskStep(w)
        PROVE  (\E t \in Tasks : Callers!Finish(t)) \/ UNCHANGED Callers!vars
    <2>1. CASE TaskReturns(w)
      <3>1. current[w] \in Tasks /\ task_state[current[w]] = "running"
        BY <2>1, TaskDone DEF JInv
      <3>2. Callers!Finish(current[w])
        BY <2>1, <3>1 DEF TaskReturns, Callers!Finish
      <3> QED BY <3>1, <3>2
    <2>2. CASE MarkCurrentWorkerAsBlocked(w) \/ MarkCurrentWorkerAsUnBlocked(w)
      BY SMT, <2>2 DEF MarkCurrentWorkerAsBlocked, MarkCurrentWorkerAsUnBlocked
    <2> QED BY <1>5, <2>1, <2>2 DEF TaskStep
  <1>6. CASE ShutdownBegin
    BY <1>6 DEF ShutdownBegin, Callers!CallShutdown
  <1>7. CASE ShutdownCheck \/ ShutdownWait \/ ShutdownObtain \/ \E d \in Workers : ShutdownJoin(d)
    BY SMTT(20), <1>7 DEF ShutdownCheck, ShutdownWait, ShutdownObtain, ShutdownJoin
  <1>8. CASE ShutdownReturn
    <2>1. shutting_down /\ running_workers = {} /\ tasks = <<>>
      BY <1>8 DEF ShutdownReturn, JInv, ShutdownProgress, AllDeadIsFinal
    <2>2. \A t \in Tasks : task_state[t] \notin {"queued", "running"}
      <3> TAKE t \in Tasks
      <3>1. task_state[t] # "queued"
        BY SMT, <2>1, EmptySeq DEF JInv, Queued
      <3>2. task_state[t] # "running"
        BY <2>1 DEF JInv, Running, Books, WorkersPlaced
      <3> QED BY <3>1, <3>2
    <2> QED BY <1>8, <2>1, <2>2 DEF ShutdownReturn, Callers!ReturnFromShutdown
  <1>9. CASE UNCHANGED vars
    BY <1>9 DEF vars
  <1> QED BY <1>1, <1>2, <1>3, <1>4, <1>5, <1>6, <1>7, <1>8, <1>9 DEF Next, ShutdownStep

\* What callers of ThreadPool::Run and Shutdown see is a run of TaskPool: tasks
\* start in the order of acceptance, each once, none is accepted after Shutdown
\* was called, and none is unfinished when Shutdown returns.
THEOREM PoolImplementsTaskPool == Spec => Callers!Init /\ [][Callers!Next]_(Callers!vars)
  <1>1. Init => Callers!Init
    BY DEF Init, Callers!Init
  <1>2. JInv /\ [Next]_vars => [Callers!Next]_(Callers!vars)
    BY StepRefines
  <1> QED BY <1>1, <1>2, JoinInvariance, PTL DEF Spec

-----------------------------------------------------------------------------
\* Growth: what max_pool_size_ means when some workers are blocked.
LEMMA UnblockedCounted ==
  ASSUME NEW I, NEW R, NEW B, IsFiniteSet(I), IsFiniteSet(R), I \cap R = {}, B \subseteq R
  PROVE  /\ Cardinality((I \cup R) \ B) = Cardinality(I) + Cardinality(R) - Cardinality(B)
         /\ Cardinality((I \cup R) \ B) \in Nat /\ Cardinality(B) \in Nat
  <1>1. /\ IsFiniteSet(I \cup R)
        /\ Cardinality(I \cup R) = Cardinality(I) + Cardinality(R) - Cardinality(I \cap R)
    BY FS_Union
  <1>2. Cardinality(I \cap R) = 0 /\ (I \cup R) \cap B = B
    BY FS_EmptySet
  <1>3. /\ IsFiniteSet((I \cup R) \ B) /\ IsFiniteSet(B)
        /\ Cardinality((I \cup R) \ B) = Cardinality(I \cup R) - Cardinality((I \cup R) \cap B)
    BY <1>1, FS_Difference, FS_Subset
  <1>4. /\ Cardinality(I) \in Nat /\ Cardinality(R) \in Nat /\ Cardinality(B) \in Nat
        /\ Cardinality((I \cup R) \ B) \in Nat
    BY <1>3, FS_CardinalityType
  <1>5. Cardinality(I \cup R) = Cardinality(I) + Cardinality(R) - 0
    BY <1>1, <1>2, Zenon
  <1>6. Cardinality((I \cup R) \ B) = Cardinality(I \cup R) - Cardinality(B)
    BY <1>2, <1>3, Zenon
  <1> DEFINE i == Cardinality(I)  r == Cardinality(R)  b == Cardinality(B)
             u == Cardinality(I \cup R)  d == Cardinality((I \cup R) \ B)
  <1>7. /\ i \in Nat /\ r \in Nat /\ b \in Nat /\ d \in Nat
        /\ u = i + r - 0 /\ d = u - b
    BY <1>4, <1>5, <1>6
  <1> HIDE DEF i, r, b, u, d
  <1>8. d = i + r - b
    BY SMT, <1>7
  <1> QED BY <1>4, <1>8 DEF i, r, b, u, d

\* A new worker is started only by ScheduleTaskLocked and by
\* MarkCurrentWorkerAsBlocked.
LEMMA OnlyTheseStart ==
  ASSUME Books, [Next]_vars, NEW n \in Workers, pc[n] = "none", pc'[n] = "created"
  PROVE  \/ \E t \in Tasks : RunImpl(t) /\ ~EnoughIdle /\ ~AtMaxPoolSize
         \/ \E w \in Workers : MarkCurrentWorkerAsBlocked(w)
  <1>0. pc \in [Workers -> ThreadStates]
    BY DEF Books, TypeOK, ThreadsOK
  <1>1. ~UNCHANGED pc
    OBVIOUS
  <1>2. ASSUME NEW w \in Workers, NEW s \in ThreadStates, pc' = [pc EXCEPT ![w] = s]
        PROVE  w = n /\ s = "created"
    BY <1>0, <1>2
  <1>3. ASSUME NEW w \in Workers, WorkerStep(w) PROVE FALSE
    <2>1. CASE WorkerLoop(w) \/ DrainTasks(w) \/ StartThread(w) \/ NotifyExit(w) \/ ThreadExit(w)
      BY <1>2, <2>1 DEF WorkerLoop, DrainTasks, StartThread, NotifyExit, ThreadExit,
                        RunFirstTask, KeepMonitor, ThreadStates
    <2>2. CASE IdleCheck(w) \/ IdleWaitDone(w) \/ NotifyIdleDone(w) \/ WaitDone(w)
      BY <1>2, <2>2, LookForWork DEF IdleToDeadLocked, ThreadStates
    <2>3. CASE \E d \in Workers : JoinDeadWorker(w, d)
      BY <1>2, <2>3 DEF JoinDeadWorker, ThreadStates
    <2> QED BY <1>3, <2>1, <2>2, <2>3 DEF WorkerStep
  <1>4. ASSUME NEW w \in Workers, WakeStep(w) PROVE FALSE
    BY <1>1, <1>4 DEF WakeStep, WaitTimesOut, SpuriousWakeup
  <1>5. ASSUME NEW w \in Workers, TaskReturns(w) \/ MarkCurrentWorkerAsUnBlocked(w) PROVE FALSE
    BY <1>1, <1>2, <1>5 DEF TaskReturns, MarkCurrentWorkerAsUnBlocked, ThreadStates
  <1>6. CASE ShutdownBegin \/ ShutdownStep
    BY <1>1, <1>2, <1>6
    DEF ShutdownBegin, ShutdownStep, ShutdownCheck, ShutdownWait, ShutdownObtain, ShutdownJoin,
        ShutdownReturn, ThreadStates
  <1>7. ASSUME NEW t \in Tasks, RunImpl(t) \/ RunRefused(t)
        PROVE  RunImpl(t) /\ ~EnoughIdle /\ ~AtMaxPoolSize
    BY <1>1, <1>7 DEF RunImpl, RunRefused, ScheduleTaskLocked, NoNewWorker
  <1> QED BY <1>1, <1>3, <1>4, <1>5, <1>6, <1>7 DEF Next, TaskStep, vars

LEMMA GrowthStep ==
  ASSUME Books, Books', [Next]_vars, MaxPoolSize > 0,
         NEW n \in Workers, pc[n] = "none", pc'[n] = "created"
  PROVE  \/ Cardinality(Unblocked') <= MaxPoolSize
         \/ Cardinality(Unblocked') <= Cardinality(Unblocked)
  <1>1. /\ Cardinality(Unblocked) = count_idle + count_running - Cardinality(is_blocked)
        /\ Cardinality(is_blocked) \in Nat /\ Cardinality(Unblocked) \in Nat
    <2>1. idle_workers \cap running_workers = {} /\ is_blocked \subseteq running_workers
      BY DEF Books, TypeOK, ListsOK, WorkersPlaced, IdlePositions
    <2>2. /\ IsFiniteSet(idle_workers) /\ IsFiniteSet(running_workers)
          /\ count_idle = Cardinality(idle_workers)
          /\ count_running = Cardinality(running_workers)
      BY DEF Books, ListsFinite, CountsMatchLists
    <2> DEFINE U == (idle_workers \cup running_workers) \ is_blocked
    <2>3. /\ Cardinality(U) =
               Cardinality(idle_workers) + Cardinality(running_workers) - Cardinality(is_blocked)
          /\ Cardinality(U) \in Nat /\ Cardinality(is_blocked) \in Nat
      BY <2>1, <2>2, UnblockedCounted
    <2>4. Unblocked = U
      BY DEF Unblocked
    <2> QED BY <2>2, <2>3, <2>4
  <1>2. /\ Cardinality(Unblocked') = count_idle' + count_running' - Cardinality(is_blocked')
        /\ Cardinality(is_blocked') \in Nat /\ Cardinality(Unblocked') \in Nat
    <2>1. idle_workers' \cap running_workers' = {} /\ is_blocked' \subseteq running_workers'
      BY DEF Books, TypeOK, ListsOK, WorkersPlaced, IdlePositions
    <2>2. /\ IsFiniteSet(idle_workers') /\ IsFiniteSet(running_workers')
          /\ count_idle' = Cardinality(idle_workers')
          /\ count_running' = Cardinality(running_workers')
      BY DEF Books, ListsFinite, CountsMatchLists
    <2> DEFINE U == (idle_workers' \cup running_workers') \ is_blocked'
    <2>3. /\ Cardinality(U) =
               Cardinality(idle_workers') + Cardinality(running_workers') - Cardinality(is_blocked')
          /\ Cardinality(U) \in Nat /\ Cardinality(is_blocked') \in Nat
      BY <2>1, <2>2, UnblockedCounted
    <2>4. Unblocked' = U
      BY DEF Unblocked
    <2> QED BY <2>2, <2>3, <2>4
  <1>3. /\ count_idle \in Nat /\ count_running \in Nat /\ MaxPoolSize \in Nat
        /\ max_pool_size = MaxPoolSize + Cardinality(is_blocked)
    <2>1. count_idle \in Nat /\ count_running \in Nat
      BY DEF Books, TypeOK, NumbersOK
    <2>2. MaxPoolSize \in Nat
      BY SMT, PoolAssumption
    <2>3. max_pool_size = MaxPoolSize + Cardinality(is_blocked)
      BY SMT, <2>2 DEF Books, CapacityCountsBlocked
    <2> QED BY <2>1, <2>2, <2>3
  <1>4. ASSUME NEW t \in Tasks, RunImpl(t), ~EnoughIdle, ~AtMaxPoolSize
        PROVE  Cardinality(Unblocked') <= MaxPoolSize
    <2>1. /\ count_idle' = count_idle + 1 /\ count_running' = count_running
          /\ is_blocked' = is_blocked
      BY <1>4 DEF RunImpl, ScheduleTaskLocked, NewWorker
    <2>2. count_idle + count_running < MaxPoolSize + Cardinality(is_blocked)
      BY SMT, <1>1, <1>3, <1>4 DEF AtMaxPoolSize
    <2> QED BY SMT, <1>1, <1>2, <1>3, <2>1, <2>2
  <1>5. ASSUME NEW w \in Workers, MarkCurrentWorkerAsBlocked(w)
        PROVE  Cardinality(Unblocked') <= Cardinality(Unblocked)
    <2>1. /\ count_idle' \in {count_idle, count_idle + 1} /\ count_running' = count_running
          /\ is_blocked' = is_blocked \cup {w} /\ w \notin is_blocked
      BY <1>5 DEF MarkCurrentWorkerAsBlocked, NoNewWorker, NewWorker
    <2>2. Cardinality(is_blocked') = Cardinality(is_blocked) + 1
      BY <2>1, CardAdd DEF Books, ListsFinite
    <2> QED BY SMT, <1>1, <1>2, <1>3, <2>1, <2>2
  <1> QED BY <1>4, <1>5, OnlyTheseStart

\* A limited pool that starts a worker ends up with at most MaxPoolSize unblocked
\* workers, or with no more than before: the replacement of a blocked worker
\* never adds to the load.
THEOREM GrowthBounded == Spec => GrowthIsBounded
  <1> DEFINE Bounded ==
        (MaxPoolSize > 0 /\ \E w \in Workers : pc[w] = "none" /\ pc'[w] = "created")
          => \/ Cardinality(Unblocked') <= MaxPoolSize
             \/ Cardinality(Unblocked') <= Cardinality(Unblocked)
  <1>1. Books /\ Books' /\ [Next]_vars => [Bounded]_vars
    BY GrowthStep
  <1> QED BY <1>1, Invariance, PTL DEF Spec, GrowthIsBounded
=============================================================================
