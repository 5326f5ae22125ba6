------------------------- MODULE BackgroundCompiler -------------------------
(***************************************************************************)
(* The driver of the background compiler (runtime/vm/compiler/jit/         *)
(* compiler.cc, class BackgroundCompiler): mutators enqueue functions, a   *)
(* task on the VM's pool takes one, compiles it and reschedules itself,    *)
(* and a thread that must not meet a compilation stops it with a           *)
(* NoBackgroundCompilerScope.  Each section under monitor_ is one action.  *)
(* What a compilation does is left out: it succeeds, or asks for a retry.  *)
(***************************************************************************)
EXTENDS Naturals, Sequences, FiniteSets

CONSTANTS
  Mutators,     \* threads that run Dart code in the isolate group
  Functions,
  TaskIds,      \* BackgroundCompilerTask objects alive at the same time
  MaxNesting,   \* bound on nested NoBackgroundCompilerScopes of a thread
  Closer,       \* the thread that shuts the group down, after all mutators left
  None          \* no function

ASSUME BackgroundCompilerAssumption ==
  MaxNesting \in Nat /\ Closer \notin Mutators /\ None \notin Functions

VARIABLES
  function_queue, running, done, disabled_depth,  \* the fields, without the _
  waiters,     \* threads in the wait set of monitor_
  task,        \* where each task is
  compiling,   \* the function each task took from the queue
  pc,          \* where each thread is
  scopes,      \* NoBackgroundCompilerScopes each mutator is in
  pool_open    \* whether Dart::thread_pool() still accepts tasks

fields == <<function_queue, running, done, disabled_depth>>
vars == <<fields, waiters, task, compiling, pc, scopes, pool_open>>

Init ==
  /\ function_queue = <<>> /\ running = FALSE /\ done = TRUE /\ disabled_depth = 0
  /\ waiters = {}
  /\ task = [k \in TaskIds |-> "free"] /\ compiling = [k \in TaskIds |-> None]
  /\ pc = [t \in Mutators \cup {Closer} |-> "dart"]
  /\ scopes = [t \in Mutators |-> 0] /\ pool_open = TRUE

Goto(t, l) == pc' = [pc EXCEPT ![t] = l]
Set(k, l) == task' = [task EXCEPT ![k] = l]
Queued(f) == \E i \in DOMAIN function_queue : function_queue[i] = f

\* Dart::thread_pool()->Run<BackgroundCompilerTask>.
RunTask == \E k \in TaskIds : task[k] = "free" /\ Set(k, "queued")

-----------------------------------------------------------------------------
(* The task: BackgroundCompiler::Run *)

EnterGroup(k) ==
  /\ task[k] = "queued" /\ Set(k, "entered")
  /\ UNCHANGED <<fields, waiters, compiling, pc, scopes, pool_open>>

TakeFunction(k) ==
  /\ task[k] = "entered"
  /\ IF running /\ function_queue # <<>>
       THEN /\ Set(k, "compiling")
            /\ compiling' = [compiling EXCEPT ![k] = Head(function_queue)]
            /\ function_queue' = Tail(function_queue)
       ELSE Set(k, "exit") /\ UNCHANGED <<function_queue, compiling>>
  /\ UNCHANGED <<running, done, disabled_depth, waiters, pc, scopes, pool_open>>

\* CompileOptimizedFunction; the function may have to be compiled again.
Compile(k) ==
  /\ task[k] = "compiling"
  /\ \/ Set(k, "retry") /\ UNCHANGED compiling
     \/ Set(k, "exit") /\ compiling' = [compiling EXCEPT ![k] = None]
  /\ UNCHANGED <<fields, waiters, pc, scopes, pool_open>>

\* A function to be compiled again goes back into the queue of a compiler that
\* has not been stopped. Fault: into any queue.
PutBack_Fault(k) ==
  /\ task[k] = "retry" /\ Set(k, "exit")
  /\ compiling' = [compiling EXCEPT ![k] = None]
  /\ function_queue' = Append(function_queue, compiling[k])
  /\ UNCHANGED <<running, done, disabled_depth, waiters, pc, scopes, pool_open>>
PutBack(k) ==
  /\ task[k] = "retry" /\ Set(k, "exit")
  /\ compiling' = [compiling EXCEPT ![k] = None]
  /\ function_queue' = IF running THEN Append(function_queue, compiling[k])
                                  ELSE function_queue
  /\ UNCHANGED <<running, done, disabled_depth, waiters, pc, scopes, pool_open>>

ExitGroup(k) ==
  /\ task[k] = "exit" /\ Set(k, "left")
  /\ UNCHANGED <<fields, waiters, compiling, pc, scopes, pool_open>>

\* The last section: start the next task, or be done and say so.
\* Fault: nobody is told.
Finish_Fault(k) ==
  /\ task[k] = "left"
  /\ IF running /\ function_queue # <<>> /\ pool_open
       THEN /\ \E l \in TaskIds : task[l] = "free"
                 /\ task' = [task EXCEPT ![k] = "free", ![l] = "queued"]
            /\ UNCHANGED <<running, done, waiters>>
       ELSE Set(k, "free") /\ running' = FALSE /\ done' = TRUE /\ UNCHANGED waiters
  /\ UNCHANGED <<function_queue, disabled_depth, compiling, pc, scopes, pool_open>>
Finish(k) ==
  /\ task[k] = "left"
  /\ IF running /\ function_queue # <<>> /\ pool_open
       THEN /\ \E l \in TaskIds : task[l] = "free"
                 /\ task' = [task EXCEPT ![k] = "free", ![l] = "queued"]
            /\ UNCHANGED <<running, done, waiters>>
       ELSE Set(k, "free") /\ running' = FALSE /\ done' = TRUE /\ waiters' = {}
  /\ UNCHANGED <<function_queue, disabled_depth, compiling, pc, scopes, pool_open>>

-----------------------------------------------------------------------------
(* The threads *)

\* What EnqueueCompilation asks before it starts a task.
NeedsTask == ~running /\ done

\* EnqueueCompilation by a mutator, where it does not return false at once.
EnqueueCompilation(t, f) ==
  /\ pc[t] = "dart" /\ disabled_depth = 0
  /\ IF NeedsTask THEN pool_open /\ running' = TRUE /\ done' = FALSE /\ RunTask
                  ELSE UNCHANGED <<running, done, task>>
  /\ IF Queued(f) THEN UNCHANGED <<function_queue, waiters>>
                  ELSE function_queue' = Append(function_queue, f) /\ waiters' = {}
  /\ UNCHANGED <<disabled_depth, compiling, pc, scopes, pool_open>>

After(t) == IF t = Closer THEN "stopped" ELSE "dart"

\* Stop, or Disable when a task is on its way, up to the first Wait.
StopLocked(t) ==
  /\ running' = FALSE /\ function_queue' = <<>>
  /\ IF done THEN Goto(t, After(t)) /\ UNCHANGED waiters
             ELSE Goto(t, "stopping") /\ waiters' = waiters \cup {t}

StopWakes(t) ==
  /\ pc[t] = "stopping" /\ t \notin waiters
  /\ IF done THEN Goto(t, After(t)) /\ UNCHANGED waiters
             ELSE waiters' = waiters \cup {t} /\ UNCHANGED pc
  /\ UNCHANGED <<fields, task, compiling, scopes, pool_open>>

\* The constructor of NoBackgroundCompilerScope.  Fault: a nested scope does not
\* wait for the compiler to stop.
Disable_Fault(t) ==
  /\ pc[t] = "dart" /\ scopes[t] < MaxNesting
  /\ scopes' = [scopes EXCEPT ![t] = @ + 1] /\ disabled_depth' = disabled_depth + 1
  /\ IF done \/ disabled_depth > 0 THEN UNCHANGED <<function_queue, running, waiters, pc>>
     ELSE StopLocked(t)
  /\ UNCHANGED <<done, task, compiling, pool_open>>
Disable(t) ==
  /\ pc[t] = "dart" /\ scopes[t] < MaxNesting
  /\ scopes' = [scopes EXCEPT ![t] = @ + 1] /\ disabled_depth' = disabled_depth + 1
  /\ IF done THEN UNCHANGED <<function_queue, running, waiters, pc>> ELSE StopLocked(t)
  /\ UNCHANGED <<done, task, compiling, pool_open>>

\* Its destructor.
Enable(t) ==
  /\ pc[t] = "dart" /\ scopes[t] > 0
  /\ scopes' = [scopes EXCEPT ![t] = @ - 1] /\ disabled_depth' = disabled_depth - 1
  /\ UNCHANGED <<function_queue, running, done, waiters, task, compiling, pc, pool_open>>

\* The isolate of the mutator is gone; Isolate::LowLevelCleanup by the last one
\* stops the compiler for good.
MutatorLeaves(t) ==
  /\ pc[t] = "dart" /\ scopes[t] = 0 /\ Goto(t, "gone")
  /\ UNCHANGED <<fields, waiters, task, compiling, scopes, pool_open>>

Stop ==
  /\ pc[Closer] = "dart" /\ \A t \in Mutators : pc[t] = "gone"
  /\ StopLocked(Closer)
  /\ UNCHANGED <<done, disabled_depth, task, compiling, scopes, pool_open>>

\* Dart::Cleanup shuts the VM's pool down.
PoolShutsDown ==
  /\ pool_open' = FALSE
  /\ UNCHANGED <<fields, waiters, task, compiling, pc, scopes>>

-----------------------------------------------------------------------------
TaskStep(k) ==
  EnterGroup(k) \/ TakeFunction(k) \/ Compile(k) \/ PutBack(k) \/ ExitGroup(k) \/ Finish(k)

Next ==
  \/ \E k \in TaskIds : TaskStep(k)
  \/ \E t \in Mutators :
       \/ \E f \in Functions : EnqueueCompilation(t, f)
       \/ Disable(t) \/ Enable(t) \/ MutatorLeaves(t) \/ StopWakes(t)
  \/ Stop \/ StopWakes(Closer) \/ PoolShutsDown

\* Tasks run, and threads that have been notified go on.
Fairness ==
  /\ \A k \in TaskIds : WF_vars(TaskStep(k))
  /\ \A t \in Mutators \cup {Closer} : WF_vars(StopWakes(t))

Spec == Init /\ [][Next]_vars /\ Fairness

-----------------------------------------------------------------------------
(* Properties *)

\* There is one task exactly when done_ is not set, it takes what is in the
\* queue as long as the pool is there, and EnqueueCompilation never finds a
\* compiler that is neither running nor done, as it asserts.
OneTaskServes ==
  /\ Cardinality({k \in TaskIds : task[k] # "free"}) = IF done THEN 0 ELSE 1
  /\ function_queue # <<>> /\ pool_open => running
  /\ disabled_depth = 0 /\ (\E t \in Mutators : pc[t] = "dart") => running \/ done

\* Inside a NoBackgroundCompilerScope, and after Stop, no task is in the group
\* and none can enter it.
DisabledIsQuiet ==
  (\E t \in Mutators : pc[t] = "dart" /\ scopes[t] > 0) \/ pc[Closer] = "stopped" =>
    \A k \in TaskIds : task[k] = "free"

\* A thread that stops the compiler gets on, and a function that was accepted is
\* taken by a task unless the queue is cleared or the pool is shut down.
StopAndServe ==
  /\ \A t \in Mutators \cup {Closer} : pc[t] = "stopping" ~> pc[t] # "stopping"
  /\ \A f \in Functions :
       Queued(f) ~> ~Queued(f) \/ ~pool_open \/ \E k \in TaskIds : compiling[k] = f
=============================================================================
