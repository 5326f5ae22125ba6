--------------------------- MODULE SafepointRwLock ---------------------------
(***************************************************************************)
(* SafepointRwLock and its lockers (runtime/vm/lockers.{h,cc}): a          *)
(* readers-writer lock whose holders may be stopped at a safepoint, and    *)
(* whose waiters count as stopped.  A section under monitor_ is one        *)
(* action.  Lockers are scopes, so a thread gives back last what it took   *)
(* first.                                                                  *)
(*                                                                         *)
(* A safepoint operation is a scope too.  It has one owner, and every      *)
(* other attached thread is at a place where it may be stopped (module     *)
(* Safepoint): for a GC or a deoptimization, "gc" here, any place where a  *)
(* thread in the VM polls; for a reload only the places that take part in  *)
(* reloads, which are outside of all lockers.                              *)
(***************************************************************************)
EXTENDS Integers, Sequences, FiniteSets

CONSTANTS
  Attached,    \* threads of the isolate group
  Detached,    \* threads with Thread::Current() = nullptr
  MaxDepth,    \* bound on nested lockers and operations of a thread
  MaxOps,      \* bound on the lockers and safepoint operations started
  None

Threads == Attached \cup Detached

ASSUME RwLockAssumption ==
  /\ IsFiniteSet(Threads) /\ Attached \cap Detached = {} /\ None \notin Threads
  /\ MaxDepth \in Nat /\ MaxOps \in Nat

VARIABLES
  state,       \* state_: readers, or minus the depth of the writer
  writer,      \* writer_id_
  waiters,     \* threads in the wait set of monitor_
  held,        \* the scopes of each thread: a locker "read" or "write", "none"
               \* for a reader that did not have to acquire, or a safepoint
               \* operation it owns, "gc" or "reload"
  pc,
  safepoint,   \* owner of the safepoint operation
  ops

lock == <<state, writer, waiters, held>>
vars == <<lock, pc, safepoint, ops>>

Init ==
  /\ state = 0 /\ writer = None /\ waiters = {}
  /\ held = [t \in Threads |-> <<>>] /\ pc = [t \in Threads |-> "vm"]
  /\ safepoint = None /\ ops = 0

Goto(t, l) == pc' = [pc EXCEPT ![t] = l]
Push(t, kind) == held' = [held EXCEPT ![t] = Append(@, kind)]
Holds(t, kind) == \E i \in DOMAIN held[t] : held[t][i] = kind

Runs(t) == t \in Detached \/ safepoint \in {None, t}

\* In a reload, whose participants hold no lock, the owner may take locks, but not
\* in a lower operation inside it (the counts of InnermostSafepointOperation).
\* Fault: every owner may.
CanAcquireSafepointLocks_Fault(t) == TRUE
CanAcquireSafepointLocks(t) == safepoint = t => ~Holds(t, "gc")

IsCurrentThreadWriter(t) == writer = t
IsCurrentThreadReader(t) == IsCurrentThreadWriter(t) \/ Holds(t, "read")

\* What EnterRead and EnterWrite assert.  A reader does not ask for the write
\* lock: it would wait for itself.
MayEnter(t, kind) ==
  /\ pc[t] = "vm" /\ Runs(t) /\ ops < MaxOps /\ Len(held[t]) < MaxDepth
  /\ \/ t \in Detached \/ CanAcquireSafepointLocks(t)
     \/ kind = "read" /\ IsCurrentThreadReader(t)
     \/ kind = "write" /\ IsCurrentThreadWriter(t)
  /\ kind = "write" => ~Holds(t, "read")

-----------------------------------------------------------------------------
(* The two Try operations, under monitor_ *)

CanRead == state >= 0
CanWrite == state = 0

TakeRead(t) == state' = state + 1 /\ Push(t, "read") /\ UNCHANGED <<writer, waiters>>
TakeWrite(t) ==
  state' = -1 /\ writer' = t /\ Push(t, "write") /\ UNCHANGED waiters

Wait(t) == waiters' = waiters \cup {t} /\ UNCHANGED <<state, writer, held>>

BlockFor == [read |-> "block_read", write |-> "block_write"]
WaitFor == [read |-> "wait_read", write |-> "wait_write"]

\* Where a thread goes that does not get the lock at once: an attached one to
\* the blocked state, without monitor_, a detached one into the wait.
Blocks(t, kind) ==
  IF t \in Attached THEN Goto(t, BlockFor[kind]) /\ UNCHANGED lock
                    ELSE Goto(t, WaitFor[kind]) /\ Wait(t)

EnterRead(t) ==
  /\ MayEnter(t, "read")
  /\ \/ writer = t /\ Push(t, "none") /\ UNCHANGED <<state, writer, waiters, pc>>
     \/ writer # t /\ CanRead /\ TakeRead(t) /\ UNCHANGED pc
     \/ writer # t /\ ~CanRead /\ Blocks(t, "read")
  /\ ops' = ops + 1 /\ UNCHANGED safepoint

EnterWrite(t) ==
  /\ MayEnter(t, "write")
  /\ \/ /\ writer = t /\ state' = state - 1 /\ Push(t, "write")
        /\ UNCHANGED <<writer, waiters, pc>>
     \/ writer # t /\ CanWrite /\ TakeWrite(t) /\ UNCHANGED pc
     \/ writer # t /\ ~CanWrite /\ Blocks(t, "write")
  /\ ops' = ops + 1 /\ UNCHANGED safepoint

\* The second attempt, in the blocked state, and each look after a wait.
Looks(t, kind) ==
  \/ pc[t] = BlockFor[kind]
  \/ pc[t] = WaitFor[kind] /\ t \notin waiters

Got(t) == Goto(t, IF t \in Attached THEN "got" ELSE "vm")

BlockedRead(t) ==
  /\ Looks(t, "read")
  /\ IF CanRead THEN TakeRead(t) /\ Got(t) ELSE Wait(t) /\ Goto(t, "wait_read")
  /\ UNCHANGED <<safepoint, ops>>

BlockedWrite(t) ==
  /\ Looks(t, "write")
  /\ IF CanWrite THEN TakeWrite(t) /\ Got(t) ELSE Wait(t) /\ Goto(t, "wait_write")
  /\ UNCHANGED <<safepoint, ops>>

\* The end of TransitionVMToBlocked waits for a safepoint operation of another
\* thread to end, with the lock.
Unblock(t) ==
  /\ pc[t] = "got" /\ safepoint \in {None, t} /\ Goto(t, "vm")
  /\ UNCHANGED <<lock, safepoint, ops>>

\* ~SafepointReadRwLocker and ~SafepointWriteRwLocker.
LastHeld(t, kind) ==
  /\ pc[t] = "vm" /\ Runs(t) /\ held[t] # <<>> /\ held[t][Len(held[t])] = kind
  /\ held' = [held EXCEPT ![t] = SubSeq(@, 1, Len(@) - 1)]

\* NotifyAll when the lock becomes free.  Fault: nobody is notified.
NotifyIfFree_Fault == UNCHANGED waiters
NotifyIfFree == waiters' = IF state' = 0 THEN {} ELSE waiters

LeaveRead(t) ==
  /\ LastHeld(t, "read") /\ state' = state - 1 /\ NotifyIfFree
  /\ UNCHANGED <<writer, pc, safepoint, ops>>

LeaveNone(t) ==
  LastHeld(t, "none") /\ UNCHANGED <<state, writer, waiters, pc, safepoint, ops>>

\* Fault: the outermost writer is taken for the only one.
LeaveWrite_Fault(t) ==
  /\ LastHeld(t, "write") /\ state' = 0 /\ NotifyIfFree /\ writer' = None
  /\ UNCHANGED <<pc, safepoint, ops>>
LeaveWrite(t) ==
  /\ LastHeld(t, "write") /\ state' = state + 1 /\ NotifyIfFree
  /\ writer' = IF state' < 0 THEN writer ELSE None
  /\ UNCHANGED <<pc, safepoint, ops>>

-----------------------------------------------------------------------------
(* Safepoint operations *)

Levels == {"gc", "reload"}
WantFor == [gc |-> "want_gc", reload |-> "want_reload"]

\* A thread that waits for the lock, or for an operation of its own, is at a
\* safepoint: for a GC always, for a reload only if it wants to reload itself.
\* Fault: threads take part in a reload wherever they poll.
AtSafepoint_Fault(t, level) ==
  \/ pc[t] \in {"vm", "want_reload"}
  \/ level = "gc" /\ pc[t] \in {"want_gc", "block_read", "block_write", "wait_read",
                                "wait_write", "got"}
AtSafepoint(t, level) ==
  \/ pc[t] = "want_reload" \/ (pc[t] = "vm" /\ held[t] = <<>>)
  \/ level = "gc" /\ pc[t] \in {"vm", "want_gc", "block_read", "block_write",
                                "wait_read", "wait_write", "got"}

\* A GC may be needed with lockers in scope; a reload starts outside of them.
WantSafepoint(t, level) ==
  /\ t \in Attached /\ pc[t] = "vm" /\ safepoint = None
  /\ ops < MaxOps /\ Len(held[t]) < MaxDepth
  /\ level = "reload" => held[t] = <<>>
  /\ Goto(t, WantFor[level]) /\ ops' = ops + 1
  /\ UNCHANGED <<lock, safepoint>>

BeginSafepoint(t, level) ==
  /\ pc[t] = WantFor[level] /\ safepoint = None
  /\ \A u \in Attached \ {t} : AtSafepoint(u, level)
  /\ safepoint' = t /\ Push(t, level) /\ Goto(t, "vm")
  /\ UNCHANGED <<state, writer, waiters, ops>>

\* An owner may nest an operation of a level it owns.
NestedSafepoint(t, level) ==
  /\ safepoint = t /\ pc[t] = "vm" /\ ops < MaxOps /\ Len(held[t]) < MaxDepth
  /\ level = "reload" => Holds(t, "reload")
  /\ Push(t, level) /\ ops' = ops + 1
  /\ UNCHANGED <<state, writer, waiters, pc, safepoint>>

EndSafepoint(t, level) ==
  /\ safepoint = t /\ LastHeld(t, level)
  /\ safepoint' = IF \E l \in Levels : Holds(t, l)' THEN t ELSE None
  /\ UNCHANGED <<state, writer, waiters, pc, ops>>

-----------------------------------------------------------------------------
Leaves(t) ==
  LeaveRead(t) \/ LeaveNone(t) \/ LeaveWrite(t) \/ \E l \in Levels : EndSafepoint(t, l)
Step(t) ==
  BlockedRead(t) \/ BlockedWrite(t) \/ Unblock(t) \/ \E l \in Levels : BeginSafepoint(t, l)

Next ==
  \E t \in Threads :
    \/ EnterRead(t) \/ EnterWrite(t) \/ Leaves(t) \/ Step(t)
    \/ \E l \in Levels : WantSafepoint(t, l) \/ NestedSafepoint(t, l)

\* Threads go on, lockers go out of scope and safepoint operations end.
Fairness == \A t \in Threads : WF_vars(Leaves(t)) /\ WF_vars(Step(t))

Spec == Init /\ [][Next]_vars /\ Fairness

-----------------------------------------------------------------------------
(* Properties *)

\* The lockers in scope of a kind, each by its thread and its depth.
Lockers(kind) ==
  {h \in Threads \X (1 .. MaxDepth) :
     h[2] \in DOMAIN held[h[1]] /\ held[h[1]][h[2]] = kind}
Count(kind) == Cardinality(Lockers(kind))

\* state_ is exactly what the lockers in scope make it: a writer, however nested,
\* is alone, and a reader's nested scope inside a write does not count.
HoldersMatch ==
  /\ state > 0 => state = Count("read") /\ Count("write") = 0 /\ writer = None
  /\ state < 0 => state = -Count("write") /\ Count("read") = 0
                  /\ \A t \in Threads : Holds(t, "write") => t = writer
  /\ state = 0 => Count("read") = 0 /\ Count("write") = 0 /\ writer = None

\* Nobody sleeps who could have the lock.
SleepersMustWait ==
  \A t \in waiters : (pc[t] = "wait_read" /\ ~CanRead) \/ (pc[t] = "wait_write" /\ ~CanWrite)

\* An owner of a safepoint operation that waits for the lock waits for a thread that
\* safepoints do not stop: neither it nor a thread it has stopped holds the lock.
OwnerWaitsForDetached ==
  \A t \in Attached :
    safepoint = t /\ pc[t] \in {"block_read", "wait_read", "block_write", "wait_write"}
    => \A u \in Attached : ~Holds(u, "read") /\ ~Holds(u, "write")

\* Everybody who asks for the lock or for a safepoint operation gets it, although
\* holders are stopped at safepoints and the owner of a reload may wait for the
\* lock.
RequestsReturn == \A t \in Threads : pc[t] # "vm" ~> pc[t] = "vm"
=============================================================================
