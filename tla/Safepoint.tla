----------------------------- MODULE Safepoint -----------------------------
(***************************************************************************)
(* How the threads of one isolate group stop for each other: SafepointHandler *)
(* (runtime/vm/heap/safepoint.cc), the safepoint state of a Thread         *)
(* (runtime/vm/thread.h), and the joining and leaving of threads           *)
(* (Thread::AddActiveThread, FreeActiveThread in runtime/vm/thread.cc).    *)
(*                                                                         *)
(* A thread that must not be disturbed (to collect garbage, to deoptimize, *)
(* to reload) asks every other thread to check in at a safepoint of at     *)
(* least its level and runs when all have.  Operations of different levels *)
(* may be requested at once by different threads; a thread at a safepoint  *)
(* of level l satisfies requests of every level up to l.                   *)
(*                                                                         *)
(* Granularity.  A section under Thread::thread_lock() is one step, and so *)
(* is each compare-and-swap of the fast paths.  The sections under         *)
(* ThreadRegistry::threads_lock() that visit the active list are one step  *)
(* per visited thread, with the lock held in between (variable             *)
(* threads_lock).  parked_lock_ only guards num_threads_not_parked_, whose *)
(* waiter polls it with a timeout, so its condition variable is left out.  *)
(***************************************************************************)
EXTENDS Integers, Sequences, FiniteSets

CONSTANTS
  Threads,      \* the Thread structures of the isolate group
  Mutators,     \* those that run an isolate (the others are helpers)
  Bypass,       \* helpers entered with bypass_safepoint = true (GC tasks)
  OpLevels,     \* the levels of the operations that may be started
  MaxNesting,   \* bound on nested operation scopes of one thread
  Scoped,       \* threads that open NoReloadScope / RuntimeCallDeoptScope
  Nobody        \* nullptr

kGC == 0
kGCAndDeopt == 1
kGCAndDeoptAndReload == 2
kNoSafepoint == 4

Levels == kGC .. kGCAndDeoptAndReload

ASSUME SafepointAssumption ==
  /\ IsFiniteSet(Threads)
  /\ Mutators \subseteq Threads
  /\ Bypass \subseteq Threads \ Mutators
  /\ OpLevels \subseteq Levels
  /\ MaxNesting \in Nat \ {0}
  /\ Scoped \subseteq Threads \ Bypass
  /\ Nobody \notin Threads

VARIABLES
  pc,            \* where each thread is
  at,            \* the At*SafepointField bits of safepoint_state_
  requested,     \* the *SafepointRequestedField bits of safepoint_state_
  level,         \* the level of the safepoint entered, or operation run
  limits,        \* the open scopes that limit current_safepoint_level()
  scopes,        \* the levels of the operation scopes a thread is inside of
  oob,           \* a kCheckForReload message is in the isolate's queue
  owner,         \* LevelHandler::owner_
  operations,    \* LevelHandler::operation_count_
  not_parked,    \* LevelHandler::num_threads_not_parked_
  threads_lock,  \* the holder of threads_lock() across steps
  todo,          \* the active threads its holder has still to visit
  oob_isolates,  \* the isolates that are still to be sent kCheckForReload
  notified,      \* threads notified on their own thread_lock()
  signalled      \* threads notified on threads_lock()

handlers == <<owner, operations, not_parked>>
lists == <<threads_lock, todo, oob_isolates>>
reload == <<limits, oob>>
vars == <<pc, at, requested, level, scopes, reload, handlers, lists, notified,
          signalled>>

-----------------------------------------------------------------------------
(* The safepoint state of a thread.                                        *)

AtSafepointBits(l) == 0 .. l

IsAtSafepoint(t, l) == AtSafepointBits(l) \subseteq at[t]

(* Fault: requests of lower levels are not looked at.                      *)
IsSafepointRequested_Exact(t, l) == l \in requested[t]

IsSafepointRequested(t, l) == requested[t] \cap (0 .. l) # {}

(* BlockedForSafepointField is set exactly while the thread waits in       *)
(* ExitSafepointLocked.                                                    *)
IsBlockedForSafepoint(t) == pc[t] = "exit_wait"

Active == {t \in Threads : pc[t] \notin {"free", "add_wait"}}

Others(t) == Active \ (Bypass \cup {t})

OwnsOperation(t) == scopes[t] # <<>>

Innermost(t) == scopes[t][Len(scopes[t])]

(* runtime_call_deopt_ability_ and no_reload_scope_depth_ are set by       *)
(* scopes on the stack, which close in the opposite order.                 *)
CannotLazyDeopt(t) == \E k \in DOMAIN limits[t] : limits[t][k] = "no_deopt"

InNoReloadScope(t) == \E k \in DOMAIN limits[t] : limits[t][k] = "no_reload"

InnermostLimit(t) == limits[t][Len(limits[t])]

(* allow is allow_reload_scope_depth_ > 0.                                 *)
current_safepoint_level(t, allow) ==
  IF CannotLazyDeopt(t) THEN kGC
  ELSE IF InNoReloadScope(t) \/ ~allow THEN kGCAndDeopt
  ELSE kGCAndDeoptAndReload

(* RELOAD_OPERATION_SCOPE holds a ReloadParticipationScope around the      *)
(* operation, so it is open exactly inside a reload operation.             *)
AllowsReload(t) == OwnsOperation(t) /\ scopes[t][1] = kGCAndDeoptAndReload

AnySafepointInProgressLocked == \E l \in Levels : owner[l] # Nobody

(* SafepointHandler::InnermostSafepointOperation: climb the levels the     *)
(* thread owns and stop before the operation count drops.                  *)
InnermostSafepointOperation(t) ==
  LET owned == {l \in Levels : \A i \in 0 .. l : owner[i] = t}
      climbed == {l \in owned : \A i \in 1 .. l :
                                   operations[i] >= operations[i - 1]}
  IN  IF climbed = {} THEN kNoSafepoint
      ELSE CHOOSE l \in climbed : \A i \in climbed : i <= l

(* A thread inside an operation may block only if the innermost one is a   *)
(* reload (Thread::CanAcquireSafepointLocks, which TransitionVMToBlocked   *)
(* asserts).                                                               *)
CanAcquireSafepointLocks(t) ==
  InnermostSafepointOperation(t) >= kGCAndDeoptAndReload

-----------------------------------------------------------------------------
(* Entering and leaving a safepoint.                                       *)

ParkedLevels(t, l) == requested[t] \cap (0 .. l)

(* EnterSafepointLocked: set the bits, then tell every level up to l that  *)
(* has asked for this thread that it is parked (NotifyWeAreParked).        *)
EnterSafepointLocked(t, l) ==
  /\ at' = [at EXCEPT ![t] = @ \cup AtSafepointBits(l)]
  /\ level' = [level EXCEPT ![t] = l]
  /\ not_parked' = [i \in Levels |->
       IF i \in ParkedLevels(t, l) THEN not_parked[i] - 1 ELSE not_parked[i]]

(* One round of ExitSafepointLocked: wait while requested, else leave.     *)
ExitSafepointLocked(t) ==
  IF IsSafepointRequested(t, level[t])
  THEN pc' = [pc EXCEPT ![t] = "exit_wait"] /\ UNCHANGED at
  ELSE /\ pc' = [pc EXCEPT ![t] = "running"]
       /\ at' = [at EXCEPT ![t] = @ \ AtSafepointBits(level[t])]

(* The compare-and-swap succeeds when no bit is set.                       *)
TryEnterSafepoint(t, l) ==
  /\ requested[t] = {}
  /\ at[t] = {}
  /\ at' = [at EXCEPT ![t] = AtSafepointBits(l)]
  /\ level' = [level EXCEPT ![t] = l]
  /\ UNCHANGED not_parked

(* Fault: a store instead of a compare-and-swap.                           *)
TryExitSafepoint_Store(t) ==
  /\ at' = [at EXCEPT ![t] = {}]
  /\ pc' = [pc EXCEPT ![t] = "running"]

TryExitSafepoint(t) ==
  /\ requested[t] = {}
  /\ at[t] = AtSafepointBits(level[t])
  /\ at' = [at EXCEPT ![t] = {}]
  /\ pc' = [pc EXCEPT ![t] = "running"]

(* The locked path is also taken when the swap fails for another bit       *)
(* (UnwindErrorInProgressField), so it has no guard of its own.            *)
EnterSafepoint(t, l) ==
  TryEnterSafepoint(t, l) \/ EnterSafepointLocked(t, l)

(* Transition*ToNative, TransitionVMToBlocked, WaitWithSafepointCheck.     *)
TransitionToSafepoint(t) ==
  /\ pc[t] = "running"
  /\ t \notin Bypass
  /\ CanAcquireSafepointLocks(t)
  /\ EnterSafepoint(t, current_safepoint_level(t, AllowsReload(t)))
  /\ pc' = [pc EXCEPT ![t] = "parked"]
  /\ UNCHANGED <<requested, scopes, reload, owner, operations, lists,
                 notified, signalled>>

(* Thread::ExitIsolate when the thread is kept (ShouldSuspend): a          *)
(* descheduled isolate can be reloaded unless a NoReloadScope is open.     *)
ExitIsolate(t) ==
  /\ pc[t] = "running"
  /\ t \in Mutators
  /\ ~CannotLazyDeopt(t)
  /\ CanAcquireSafepointLocks(t)
  /\ EnterSafepoint(t, current_safepoint_level(t, TRUE))
  /\ pc' = [pc EXCEPT ![t] = "parked"]
  /\ UNCHANGED <<requested, scopes, reload, owner, operations, lists,
                 notified, signalled>>

(* ExitSafepoint of a transition's destructor or of Thread::EnterIsolate:  *)
(* the scopes around it are those of the entry, so the level is the same.  *)
ExitSafepoint(t) ==
  /\ pc[t] = "parked"
  /\ TryExitSafepoint(t) \/ ExitSafepointLocked(t)
  /\ UNCHANGED <<requested, level, scopes, reload, handlers, lists, notified,
                 signalled>>

(* The wait in ExitSafepointLocked returns and the loop tests again.       *)
ExitWakes(t) ==
  /\ pc[t] = "exit_wait"
  /\ t \in notified
  /\ notified' = notified \ {t}
  /\ ExitSafepointLocked(t)
  /\ UNCHANGED <<requested, level, scopes, reload, handlers, lists, signalled>>

(* BlockForSafepoint: enter and leave under one hold of thread_lock().     *)
BlockForSafepoint(t, l) ==
  /\ EnterSafepointLocked(t, l)
  /\ pc' = [pc EXCEPT ![t] = "exit_wait"]

(* CheckForSafepoint, TransitionGeneratedToVM, ~TransitionVMToGenerated.   *)
CheckForSafepoint(t) ==
  LET l == current_safepoint_level(t, AllowsReload(t))
  IN  /\ pc[t] = "running"
      /\ t \notin Bypass
      /\ CanAcquireSafepointLocks(t)
      /\ IsSafepointRequested(t, l)
      /\ BlockForSafepoint(t, l)
      /\ UNCHANGED <<requested, scopes, reload, owner, operations, lists,
                     notified, signalled>>

-----------------------------------------------------------------------------
(* Scopes that limit the level, and the out-of-band message for reload.    *)

(* The scopes are opened by running code that owns no operation; within    *)
(* one, levels no longer matter.                                           *)
OpenScope(t, scope) ==
  /\ t \in Scoped /\ pc[t] = "running" /\ ~OwnsOperation(t)
  /\ limits' = [limits EXCEPT ![t] = Append(@, scope)]
  /\ UNCHANGED <<pc, at, requested, level, scopes, oob, handlers, lists,
                 notified, signalled>>

RuntimeCallDeoptScope(t) == ~CannotLazyDeopt(t) /\ OpenScope(t, "no_deopt")

NoReloadScope(t) == ~InNoReloadScope(t) /\ OpenScope(t, "no_reload")

(* Fault: the ignored message is forgotten.                                *)
ResendsReload_Never(t) == FALSE

(* A message handled inside a NoReloadScope was ignored, so its end sends  *)
(* one to the isolate again if the request is still there.                 *)
ResendsReload(t) ==
  /\ InnermostLimit(t) = "no_reload" /\ t \in Mutators
  /\ kGCAndDeoptAndReload \in requested[t]

(* ~RuntimeCallDeoptScope, ~NoReloadScope.                                 *)
CloseScope(t) ==
  /\ pc[t] = "running" /\ ~OwnsOperation(t)
  /\ limits[t] # <<>>
  /\ limits' = [limits EXCEPT ![t] = SubSeq(@, 1, Len(@) - 1)]
  /\ oob' = [oob EXCEPT ![t] = @ \/ ResendsReload(t)]
  /\ UNCHANGED <<pc, at, requested, level, scopes, handlers, lists, notified,
                 signalled>>

(* The isolate handles kCheckForReload.  There may have been several in    *)
(* the queue: whether one is left is open.                                 *)
HandleCheckForReload(t) ==
  LET l == current_safepoint_level(t, TRUE)
  IN  /\ pc[t] = "running" /\ ~OwnsOperation(t)
      /\ t \in Mutators /\ oob[t] /\ ~CannotLazyDeopt(t)
      /\ \E more \in BOOLEAN : oob' = [oob EXCEPT ![t] = more]
      /\ IF IsSafepointRequested(t, l)
         THEN BlockForSafepoint(t, l)
         ELSE UNCHANGED <<pc, at, level, not_parked>>
      /\ UNCHANGED <<requested, scopes, limits, owner, operations, lists,
                     notified, signalled>>

-----------------------------------------------------------------------------
(* Running an operation.                                                   *)

(* The thread takes ownership and, still under threads_lock(), starts to   *)
(* visit the other threads.                                                *)
SetSafepointInProgress(t, l) ==
  /\ owner' = [owner EXCEPT ![l] = t]
  /\ operations' = [operations EXCEPT ![l] = 1]
  /\ pc' = [pc EXCEPT ![t] = "notify"]
  /\ threads_lock' = t
  /\ todo' = Others(t)

(* The level at which an operation parks its own thread: no more than its  *)
(* own, since the thread will go on running.                               *)
OwnParkLevel(t, l) == l

(* SafepointThreads up to the first wait for threads_lock() or the loop.   *)
SafepointThreads(t, l) ==
  /\ pc[t] = "running" /\ t \notin Bypass
  /\ threads_lock = Nobody
  /\ Len(scopes[t]) < MaxNesting
  /\ l <= current_safepoint_level(t, l = kGCAndDeoptAndReload)
  /\ IF owner[l] = t
     THEN /\ operations' = [i \in Levels |->
               IF i <= l THEN operations[i] + 1 ELSE operations[i]]
          /\ scopes' = [scopes EXCEPT ![t] = Append(@, l)]
          /\ UNCHANGED <<pc, at, level, owner, not_parked, lists>>
     ELSE /\ ~OwnsOperation(t)    \* AssertWeDoNotOwnLowerLevelSafepoints
          /\ EnterSafepointLocked(t, OwnParkLevel(t, l))
          /\ IF owner[l] # Nobody
             THEN /\ pc' = [pc EXCEPT ![t] = "sp_wait"]
                  /\ UNCHANGED <<owner, operations, lists>>
             ELSE SetSafepointInProgress(t, l) /\ UNCHANGED oob_isolates
          /\ UNCHANGED scopes
  /\ UNCHANGED <<requested, reload, notified, signalled>>

SafepointWaitWakes(t) ==
  /\ pc[t] = "sp_wait" /\ t \in signalled
  /\ threads_lock = Nobody
  /\ signalled' = signalled \ {t}
  /\ IF owner[level[t]] # Nobody
     THEN UNCHANGED <<pc, owner, operations, threads_lock, todo>>
     ELSE SetSafepointInProgress(t, level[t])
  /\ UNCHANGED <<at, requested, level, scopes, reload, not_parked,
                 oob_isolates, notified>>

(* One iteration of NotifyThreadsToGetToSafepointLevel: request, and count *)
(* the thread if it was not at a safepoint of the level already.           *)
NotifyThread(t, c) ==
  LET l == level[t]
  IN  /\ pc[t] = "notify" /\ c \in todo
      /\ todo' = todo \ {c}
      /\ requested' = [requested EXCEPT ![c] = @ \cup {l}]
      /\ IF IsAtSafepoint(c, l)
         THEN UNCHANGED <<not_parked, oob_isolates>>
         ELSE /\ not_parked' = [not_parked EXCEPT ![l] = @ + 1]
              /\ oob_isolates' =
                   IF l = kGCAndDeoptAndReload /\ c \in Mutators
                   THEN oob_isolates \cup {c} ELSE oob_isolates
      /\ UNCHANGED <<pc, at, level, scopes, reload, owner, operations,
                     threads_lock, notified, signalled>>

NotifyDone(t) ==
  /\ pc[t] = "notify" /\ todo = {}
  /\ threads_lock' = Nobody
  /\ pc' = [pc EXCEPT ![t] = "send"]
  /\ UNCHANGED <<at, requested, level, scopes, reload, handlers, todo,
                 oob_isolates, notified, signalled>>

(* SendInternalLibMessage; it is dropped if the isolate is gone by now.    *)
SendCheckForReload(t, c) ==
  /\ pc[t] = "send" /\ level[t] = kGCAndDeoptAndReload
  /\ c \in oob_isolates
  /\ oob_isolates' = oob_isolates \ {c}
  /\ \/ oob' = [oob EXCEPT ![c] = TRUE]
     \/ c \notin Active /\ UNCHANGED oob
  /\ UNCHANGED <<pc, at, requested, level, scopes, limits, handlers,
                 threads_lock, todo, notified, signalled>>

SendDone(t) ==
  /\ pc[t] = "send"
  /\ level[t] = kGCAndDeoptAndReload => oob_isolates = {}
  /\ pc' = [pc EXCEPT ![t] = "waiting"]
  /\ UNCHANGED <<at, requested, level, scopes, reload, handlers, lists,
                 notified, signalled>>

WaitUntilThreadsReachedSafepointLevel(t) ==
  /\ pc[t] = "waiting"
  /\ not_parked[level[t]] = 0
  /\ pc' = [pc EXCEPT ![t] = "lower"]
  /\ UNCHANGED <<at, requested, level, scopes, reload, handlers, lists,
                 notified, signalled>>

(* From here on the thread is inside its operation.                        *)
AcquireLowerLevelSafepoints(t) ==
  /\ pc[t] = "lower"
  /\ threads_lock = Nobody
  /\ owner' = [l \in Levels |-> IF l < level[t] THEN t ELSE owner[l]]
  /\ operations' = [l \in Levels |-> IF l < level[t] THEN 1 ELSE operations[l]]
  /\ scopes' = [scopes EXCEPT ![t] = <<level[t]>>]
  /\ pc' = [pc EXCEPT ![t] = "sp_exit"]
  /\ UNCHANGED <<at, requested, level, reload, not_parked, lists, notified,
                 signalled>>

(* The owner goes on running, so it is not at a safepoint any more.        *)
OwnerExitsSafepoint(t) ==
  /\ pc[t] = "sp_exit"
  /\ ExitSafepointLocked(t)
  /\ UNCHANGED <<requested, level, scopes, reload, handlers, lists, notified,
                 signalled>>

IsNested(l) == operations[l] > 1

NestedLevels(l) == 0 .. l

(* ResumeThreads of the innermost scope: a nested one only counts down.    *)
ResumeThreads(t) ==
  LET l == Innermost(t)
  IN  /\ pc[t] = "running" /\ OwnsOperation(t)
      /\ threads_lock = Nobody
      /\ scopes' = [scopes EXCEPT ![t] = SubSeq(@, 1, Len(@) - 1)]
      /\ IF IsNested(l)
         THEN /\ operations' = [i \in Levels |->
                   IF i \in NestedLevels(l) THEN operations[i] - 1
                   ELSE operations[i]]
              /\ UNCHANGED <<pc, level, owner, threads_lock, todo>>
         ELSE /\ operations' = [i \in Levels |->
                   IF i <= l THEN 0 ELSE operations[i]]
              /\ owner' = [i \in Levels |-> IF i <= l THEN Nobody ELSE owner[i]]
              /\ pc' = [pc EXCEPT ![t] = "continue"]
              /\ level' = [level EXCEPT ![t] = l]
              /\ threads_lock' = t
              /\ todo' = Others(t)
      /\ UNCHANGED <<at, requested, reload, not_parked, oob_isolates, notified,
                     signalled>>

ClearedLevels(l) == 0 .. l

(* One iteration of NotifyThreadsToContinue.                               *)
ContinueThread(t, c) ==
  /\ pc[t] = "continue" /\ c \in todo
  /\ todo' = todo \ {c}
  /\ requested' = [requested EXCEPT ![c] = @ \ ClearedLevels(level[t])]
  /\ notified' = IF IsBlockedForSafepoint(c) THEN notified \cup {c}
                 ELSE notified
  /\ UNCHANGED <<pc, at, level, scopes, reload, handlers, threads_lock,
                 oob_isolates, signalled>>

(* Fault: Notify instead of NotifyAll.                                     *)
NotifyAll_One ==
  LET waiting == {t \in Threads : pc[t] \in {"sp_wait", "add_wait"}}
  IN  IF waiting = {} THEN {} ELSE {CHOOSE t \in waiting : TRUE}

NotifyAll == {t \in Threads : pc[t] \in {"sp_wait", "add_wait"}}

(* NotifyAll on threads_lock(), and its release.                           *)
ContinueDone(t) ==
  /\ pc[t] = "continue" /\ todo = {}
  /\ threads_lock' = Nobody
  /\ signalled' = signalled \cup NotifyAll
  /\ pc' = [pc EXCEPT ![t] = "running"]
  /\ UNCHANGED <<at, requested, level, scopes, reload, handlers, todo,
                 oob_isolates, notified>>

-----------------------------------------------------------------------------
(* Threads join and leave the isolate group.                               *)

MustWaitToJoin(t) == t \notin Bypass /\ AnySafepointInProgressLocked

(* AddActiveThread, and the wake-up of its wait.                           *)
AddActiveThread(t) ==
  /\ \/ pc[t] = "free" /\ UNCHANGED signalled
     \/ pc[t] = "add_wait" /\ t \in signalled /\ signalled' = signalled \ {t}
  /\ threads_lock = Nobody
  /\ pc' = [pc EXCEPT ![t] = IF MustWaitToJoin(t) THEN "add_wait"
                             ELSE "running"]
  /\ UNCHANGED <<at, requested, level, scopes, reload, handlers, lists,
                 notified>>

(* Fault: a thread that leaves does not take part in reloads.              *)
LeaveLevel_NoReload(t) == current_safepoint_level(t, FALSE)

LeaveLevel(t) == current_safepoint_level(t, TRUE)

(* FreeActiveThread: the empty thread checks in at the reload level, and   *)
(* still under threads_lock() its state is cleared and it leaves the list. *)
FreeActiveThread(t) ==
  /\ pc[t] = "running" /\ ~OwnsOperation(t)
  /\ limits[t] = <<>>
  /\ threads_lock = Nobody
  /\ IF t \in Bypass
     THEN pc' = [pc EXCEPT ![t] = "free"]
          /\ UNCHANGED <<at, level, not_parked, threads_lock>>
     ELSE /\ EnterSafepoint(t, LeaveLevel(t))
          /\ pc' = [pc EXCEPT ![t] = "freeing"]
          /\ threads_lock' = t
  /\ UNCHANGED <<requested, scopes, reload, owner, operations, todo,
                 oob_isolates, notified, signalled>>

ReturnThreadLocked(t) ==
  /\ pc[t] = "freeing"
  /\ at' = [at EXCEPT ![t] = {}]
  /\ requested' = [requested EXCEPT ![t] = {}]
  /\ pc' = [pc EXCEPT ![t] = "free"]
  /\ threads_lock' = Nobody
  /\ UNCHANGED <<level, scopes, reload, handlers, todo, oob_isolates, notified,
                 signalled>>

(* A condition variable may wake a thread nobody notified.                 *)
SpuriousWakeup(t) ==
  /\ \/ /\ pc[t] = "exit_wait" /\ t \notin notified
        /\ notified' = notified \cup {t} /\ UNCHANGED signalled
     \/ /\ pc[t] \in {"sp_wait", "add_wait"} /\ t \notin signalled
        /\ signalled' = signalled \cup {t} /\ UNCHANGED notified
  /\ UNCHANGED <<pc, at, requested, level, scopes, reload, handlers, lists>>

-----------------------------------------------------------------------------
Init ==
  /\ pc = [t \in Threads |-> "free"]
  /\ at = [t \in Threads |-> {}]
  /\ requested = [t \in Threads |-> {}]
  /\ level = [t \in Threads |-> kGC]
  /\ limits = [t \in Threads |-> <<>>]
  /\ scopes = [t \in Threads |-> <<>>]
  /\ oob = [t \in Threads |-> FALSE]
  /\ owner = [l \in Levels |-> Nobody]
  /\ operations = [l \in Levels |-> 0]
  /\ not_parked = [l \in Levels |-> 0]
  /\ threads_lock = Nobody
  /\ todo = {}
  /\ oob_isolates = {}
  /\ notified = {}
  /\ signalled = {}

Next ==
  \E t \in Threads :
    \/ TransitionToSafepoint(t) \/ ExitIsolate(t) \/ ExitSafepoint(t)
    \/ ExitWakes(t) \/ CheckForSafepoint(t)
    \/ RuntimeCallDeoptScope(t) \/ NoReloadScope(t) \/ CloseScope(t)
    \/ HandleCheckForReload(t)
    \/ \E l \in OpLevels : SafepointThreads(t, l)
    \/ SafepointWaitWakes(t)
    \/ \E c \in todo : NotifyThread(t, c)
    \/ NotifyDone(t)
    \/ \E c \in oob_isolates : SendCheckForReload(t, c)
    \/ SendDone(t)
    \/ WaitUntilThreadsReachedSafepointLevel(t)
    \/ AcquireLowerLevelSafepoints(t) \/ OwnerExitsSafepoint(t)
    \/ ResumeThreads(t)
    \/ \E c \in todo : ContinueThread(t, c)
    \/ ContinueDone(t)
    \/ AddActiveThread(t) \/ FreeActiveThread(t) \/ ReturnThreadLocked(t)
    \/ SpuriousWakeup(t)

Spec == Init /\ [][Next]_vars

(* What the code's scheduling guarantees.  A thread inside the protocol    *)
(* goes on.  It can do only one of these steps at a time and stays where   *)
(* it is until it does.                                                    *)
ProtocolStep(t) ==
  \/ ExitWakes(t) \/ SafepointWaitWakes(t)
  \/ \E c \in todo : NotifyThread(t, c) \/ ContinueThread(t, c)
  \/ NotifyDone(t)
  \/ \E c \in oob_isolates : SendCheckForReload(t, c)
  \/ SendDone(t) \/ WaitUntilThreadsReachedSafepointLevel(t)
  \/ AcquireLowerLevelSafepoints(t) \/ OwnerExitsSafepoint(t)
  \/ ContinueDone(t) \/ ReturnThreadLocked(t)
  \/ (OwnsOperation(t) \/ CannotLazyDeopt(t)) /\ ExitSafepoint(t)

(* Operations end, the outermost one also when it runs nested ones time    *)
(* and again, and so do scopes.  A running thread polls:                   *)
(* ScheduleInterrupts makes generated code call the runtime until it has   *)
(* checked in, and helpers poll by themselves.  Fairness is strong where a *)
(* thread may go to native code, open scopes or nest operations between    *)
(* two chances to do the step.                                             *)
PollingFairness(t) ==
  /\ WF_vars(Len(scopes[t]) > 1 /\ ResumeThreads(t))
  /\ SF_vars(Len(scopes[t]) = 1 /\ ResumeThreads(t))
  /\ SF_vars(CheckForSafepoint(t))
  /\ SF_vars(CannotLazyDeopt(t) /\ InnermostLimit(t) = "no_deopt" /\ CloseScope(t))
  /\ SF_vars(InNoReloadScope(t) /\ InnermostLimit(t) = "no_reload" /\ CloseScope(t))

FairSpec ==
  Spec /\ \A t \in Threads : WF_vars(ProtocolStep(t)) /\ PollingFairness(t)

-----------------------------------------------------------------------------
(* Every variable has its type.                                            *)
TypeOK ==
  /\ pc \in [Threads -> {"free", "add_wait", "running", "parked", "exit_wait",
                         "sp_wait", "notify", "send", "waiting", "lower",
                         "sp_exit", "continue", "freeing"}]
  /\ at \in [Threads -> SUBSET Levels]
  /\ requested \in [Threads -> SUBSET Levels]
  /\ level \in [Threads -> Levels]
  /\ limits \in [Threads -> Seq({"no_deopt", "no_reload"})]
  /\ scopes \in [Threads -> Seq(Levels)]
  /\ oob \in [Threads -> BOOLEAN]
  /\ owner \in [Levels -> Threads \cup {Nobody}]
  /\ operations \in [Levels -> Nat]
  /\ not_parked \in [Levels -> Nat]
  /\ threads_lock \in Threads \cup {Nobody}
  /\ todo \subseteq Threads
  /\ oob_isolates \subseteq Threads
  /\ notified \subseteq Threads
  /\ signalled \subseteq Threads

(* The level up to which t may assume the others are stopped, once its     *)
(* SafepointThreads has seen everybody check in.                           *)
Stopping(t) == pc[t] = "lower" \/ OwnsOperation(t)

StoppedUpTo(t) == IF OwnsOperation(t) THEN scopes[t][1] ELSE level[t]

(* While a thread is inside a safepoint operation, every other active      *)
(* thread that takes part in safepoints is at a safepoint of the           *)
(* operation's level and is asked to stay there (SafepointOperationScope:  *)
(* "perform an operation after getting all threads to a safepoint").       *)
StoppedWorld ==
  \A t \in Threads : Stopping(t) =>
    \A c \in Others(t) : /\ IsAtSafepoint(c, StoppedUpTo(t))
                         /\ StoppedUpTo(t) \in requested[c]

(* num_threads_not_parked_ of a level is exactly the number of threads     *)
(* asked to check in at that level that have not, whatever fast and slow   *)
(* paths they take and however requests of several levels overlap.         *)
NotParkedExact ==
  \A l \in Levels :
    not_parked[l] = Cardinality({c \in Threads : /\ l \in requested[c]
                                                 /\ ~IsAtSafepoint(c, l)})

(* When a thread takes over the lower levels none of them is in progress   *)
(* (the ASSERT of AcquireLowerLevelSafepoints), although operations of     *)
(* lower levels may run while it waits for its own.                        *)
LowerLevelsFree ==
  \A t \in Threads : pc[t] = "lower" =>
    /\ owner[level[t]] = t
    /\ \A l \in 0 .. level[t] - 1 : owner[l] = Nobody

(* operation_count_ of each level is the number of open scopes that cover  *)
(* it, so that only the outermost scope's end resumes the threads.         *)
CountsNesting ==
  \A t \in Threads : OwnsOperation(t) =>
    \A l \in 0 .. scopes[t][1] :
      /\ owner[l] = t
      /\ operations[l] = Cardinality({k \in DOMAIN scopes[t] :
                                        scopes[t][k] >= l})

(* A request bit has an owner behind it that will clear it: a thread can   *)
(* never be held by an operation that is over (the ASSERT on owner_ in     *)
(* NotifyWeAreParked).                                                     *)
RequestsAreOwned ==
  \A c \in Threads : \A l \in requested[c] :
    \/ owner[l] \in Threads \ {c}
    \/ \E t \in Threads : pc[t] = "continue" /\ l <= level[t] /\ c \in todo

(* What the handler knows of each level is right: who has still to check   *)
(* in, how deeply operations are nested, and whose the requests are.       *)
LevelsAreKept ==
  NotParkedExact /\ LowerLevelsFree /\ CountsNesting /\ RequestsAreOwned

(* No wake-up of a thread blocked in ExitSafepointLocked is lost: it is    *)
(* still asked to stay, or it has been notified.                           *)
BlockedIsWoken ==
  \A c \in Threads : pc[c] = "exit_wait" =>
    c \in notified \/ IsSafepointRequested(c, level[c])

(* Nor is that of a thread waiting on threads_lock(), to start an          *)
(* operation or to join the group.                                         *)
WaitersAreWoken ==
  \A t \in Threads : t \notin signalled =>
    /\ pc[t] = "sp_wait" => \/ owner[level[t]] # Nobody
                            \/ \E u \in Threads : pc[u] = "continue"
    /\ pc[t] = "add_wait" => \/ AnySafepointInProgressLocked
                             \/ \E u \in Threads : pc[u] = "continue"

(* Every wait of the safepoint protocol that can end has its wake-up on    *)
(* the way: those of ExitSafepointLocked and those on threads_lock().      *)
WakeupsAreKept == BlockedIsWoken /\ WaitersAreWoken

(* A mutator that a reload waits for will learn of it: a message is in its *)
(* queue or about to be sent, or it is inside a NoReloadScope, whose end   *)
(* sends another.                                                          *)
ReloadNotForgotten ==
  \A c \in Mutators :
    kGCAndDeoptAndReload \in requested[c]
      /\ ~IsAtSafepoint(c, kGCAndDeoptAndReload)
    => oob[c] \/ InNoReloadScope(c) \/ c \in oob_isolates

TakenLevel(t) == pc[t] \in {"notify", "send", "waiting", "lower"}

(* A thread that has taken the level of a GC or a deoptimization gets to   *)
(* run its operation: everybody checks in, even if threads of lower levels *)
(* run operations of their own in the meantime and nobody ever comes back  *)
(* from native code (SafepointThreads).                                    *)
OperationStarts ==
  \A t \in Threads :
    TakenLevel(t) /\ level[t] < kGCAndDeoptAndReload ~> OwnsOperation(t)

(* What a reload by t needs besides: the other isolates come back from     *)
(* native code and get through their messages, not always inside a         *)
(* NoReloadScope, and the helpers leave the isolate group ("wait until     *)
(* that thread de-schedules itself").                                      *)
ReloadIsHeard(t) ==
  /\ \A u \in Mutators \ {t} : /\ []<>(pc[u] # "parked")
                               /\ []<>(~oob[u] /\ ~InNoReloadScope(u))
  /\ \A u \in Threads \ (Mutators \cup {t}) : []<>(pc[u] = "free")

(* Under these conditions a reload starts as well, although a mutator may  *)
(* ignore its message inside a NoReloadScope (~NoReloadScope).             *)
ReloadStarts ==
  \A t \in Threads :
    ReloadIsHeard(t) =>
      (TakenLevel(t) /\ level[t] = kGCAndDeoptAndReload ~> OwnsOperation(t))
=============================================================================
