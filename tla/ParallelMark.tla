---------------------------- MODULE ParallelMark ----------------------------
(***************************************************************************)
(* The stop-the-world part of marking (runtime/vm/heap/marker.cc,          *)
(* GCMarker::MarkObjects and ParallelMarkTask; pointer_block.cc,           *)
(* BlockStack).  Helper tasks and the collecting thread share a marking    *)
(* stack, count who is busy, and agree round by round, over a              *)
(* ThreadBarrier, whether weak properties have given them more to mark.    *)
(* A helper that comes too late does not take part.                        *)
(*                                                                         *)
(* The heap is any graph of objects.  A block of a marking stack is one    *)
(* object.  Instructions are not marked when they are met, since their     *)
(* pages may be write-protected, but put off to ProcessDeferredMarking.    *)
(* A DEBUG build has one more Sync in each round.                          *)
(***************************************************************************)
EXTENDS ThreadBarrier

CONSTANTS
  Main,          \* the collecting thread
  Objects,
  Roots,         \* what the root slice points to
  Points,        \* [Objects -> SUBSET Objects]: fields of ordinary objects
  WeakProps,     \* the WeakProperty objects
  Key, Value,    \* [WeakProps -> Objects]
  Instructions,  \* the Instructions objects
  Gray,          \* [Threads -> SUBSET Objects]: marked, in the local blocks of
                 \* that visitor since concurrent marking
  Pending,       \* [Threads -> SUBSET WeakProps]: in its delayed_ lists
  Deferred       \* objects on the deferred marking stack

Helpers == Threads \ {Main}

ASSUME ParallelMarkAssumption ==
  /\ IsFiniteSet(Threads) /\ Main \in Threads /\ Initial = {Main}
  /\ IsFiniteSet(Objects) /\ Roots \subseteq Objects /\ Deferred \subseteq Objects
  /\ WeakProps \subseteq Objects
  /\ Points \in [Objects -> SUBSET Objects]
  /\ Key \in [WeakProps -> Objects] /\ Value \in [WeakProps -> Objects]
  /\ Gray \in [Threads -> SUBSET Objects]
  /\ Pending \in [Threads -> SUBSET WeakProps]

\* Instructions have no pointers (VISIT_NOTHING), and only Code points to them:
\* they are never the key of a weak property, which is a Dart object.
ASSUME InstructionsAssumption ==
  /\ Instructions \subseteq Objects \ WeakProps
  /\ \A o \in Instructions : Points[o] = {}
  /\ \A w \in WeakProps : Key[w] \notin Instructions

VARIABLES
  pc,
  num_busy,   \* num_busy: threads that may find work
  stack,      \* the shared marking stack
  waiters,    \* who waits at the monitor of the marking stack
  local,      \* the objects in each visitor's blocks
  delayed,    \* weak properties each visitor has seen with an unmarked key
  todo,       \* weak properties it has yet to look at in this pass
  more,       \* more_to_mark
  marked,     \* objects with their mark bit set
  deferred,   \* the shared deferred marking stack
  deferred_work, \* the objects in each visitor's deferred_work_list_
  slice       \* whether the root slice is taken

work == <<num_busy, stack, waiters>>
visitors == <<local, delayed, todo, more>>
heap == <<marked, deferred, deferred_work, slice>>
vars == <<barrier, pc, work, visitors, heap>>

GrayAll == UNION {Gray[t] : t \in Threads}
PendingAll == UNION {Pending[t] : t \in Threads}

Init ==
  /\ BarrierInit
  /\ pc = [t \in Threads |-> IF t = Main THEN "spawn" ELSE "new"]
  /\ num_busy = 0 /\ stack = {} /\ waiters = {}
  /\ local = Gray /\ delayed = Pending
  /\ todo = [t \in Threads |-> {}] /\ more = [t \in Threads |-> FALSE]
  /\ marked = GrayAll \cup PendingAll /\ slice = FALSE
  /\ deferred = Deferred /\ deferred_work = [t \in Threads |-> {}]

Goto(t, l) == pc' = [pc EXCEPT ![t] = l]

-----------------------------------------------------------------------------
(* MarkObjects: the visitors are flushed one by one, and each helper starts *)
(* as soon as its own is.                                                   *)

\* BlockStack::PushBlockImpl wakes one waiter if the stack was empty.
Push(s) ==
  /\ stack' = stack \cup s
  /\ IF stack = {} /\ s # {} /\ waiters # {}
       THEN \E w \in waiters : waiters' = waiters \ {w}
       ELSE UNCHANGED waiters

\* Fault: the weak properties stay with a visitor that may never run.
Flush_Fault(t) ==
  /\ Push(local[t]) /\ local' = [local EXCEPT ![t] = {}]
  /\ UNCHANGED <<delayed, deferred, deferred_work>>
Flush(t) ==
  /\ Push(local[t])
  /\ local' = [local EXCEPT ![t] = {}]
  /\ deferred' = deferred \cup deferred_work[t]
  /\ deferred_work' = [deferred_work EXCEPT ![t] = {}]
  /\ delayed' = [delayed EXCEPT ![t] = {}, ![Main] = @ \cup delayed[t]]

Spawn(h) ==
  /\ pc[Main] = "spawn" /\ pc[h] = "new"
  /\ Flush(h) /\ Goto(h, "queued")
  /\ UNCHANGED <<barrier, num_busy, todo, more, marked, slice>>

MainEnters ==
  /\ pc[Main] = "spawn" /\ \A h \in Helpers : pc[h] # "new"
  /\ Flush(Main) /\ Goto(Main, "entered")
  /\ UNCHANGED <<barrier, num_busy, todo, more, marked, slice>>

HelperEnters(h) ==
  /\ pc[h] = "queued" /\ TryEnter(h) /\ Goto(h, "entered")
  /\ UNCHANGED <<work, visitors, heap>>

HelperIsLate(h) ==
  /\ pc[h] = "queued" /\ ~CanEnter /\ Release(h) /\ Goto(h, "gone")
  /\ UNCHANGED <<work, visitors, heap>>

-----------------------------------------------------------------------------
(* ParallelMarkTask::RunEnteredIsolateGroup *)

\* BlockWorkList::Push of the objects new gives a full block to the shared stack
\* before it keeps the next one; blocks are of any size here, so any p may have
\* filled one.  rest is what else is in the visitor's blocks.
Fills(p, rest, new) == p \subseteq rest \cup new /\ (p = {} \/ new \ p # {})

\* Instructions that MarkObject meets unmarked stay so, and are put off.  off is
\* what else is in the visitor's deferred_work_list_.
Defer(t, off, s) ==
  LET new == (s \cap Instructions) \ marked IN
  \E p \in SUBSET (off \cup new) :
    /\ Fills(p, off, new) /\ deferred' = deferred \cup p
    /\ deferred_work' = [deferred_work EXCEPT ![t] = (off \cup new) \ p]

\* MarkObject on each pointer of s: the first to set a mark bit has the work.
Mark(t, rest, off, s) ==
  LET new == s \ (marked \cup Instructions) IN
  /\ \E p \in SUBSET (rest \cup new) :
       /\ Fills(p, rest, new) /\ Push(p)
       /\ local' = [local EXCEPT ![t] = (rest \cup new) \ p]
  /\ Defer(t, off, s)

MarkBits(s) == marked' = marked \cup (s \ Instructions)

BecomesBusy(t) ==
  /\ pc[t] = "entered" /\ num_busy' = num_busy + 1 /\ Goto(t, "roots")
  /\ UNCHANGED <<barrier, stack, waiters, visitors, heap>>

IterateRoots(t) ==
  /\ pc[t] = "roots" /\ Goto(t, "deferred") /\ slice' = TRUE
  /\ IF slice THEN UNCHANGED <<marked, local, stack, waiters, deferred, deferred_work>>
     ELSE Mark(t, local[t], deferred_work[t], Roots) /\ MarkBits(Roots)
  /\ UNCHANGED <<barrier, num_busy, delayed, todo, more>>

Pointers(o) == IF o \in WeakProps THEN {Key[o], Value[o]} ELSE Points[o]

\* ProcessDeferredMarking takes weak properties for strong references, and
\* marks the object it visits itself.  It is done before the loop and after it,
\* each time until the visitor finds neither its own blocks nor the stack filled.
TakeDeferred(t) ==
  /\ pc[t] \in {"deferred", "deferred2"} /\ deferred_work[t] = {}
  /\ \E o \in deferred : /\ deferred' = deferred \ {o}
                        /\ deferred_work' = [deferred_work EXCEPT ![t] = {o}]
  /\ UNCHANGED <<barrier, pc, work, visitors, marked, slice>>

ProcessDeferredMarking(t, o) ==
  /\ pc[t] \in {"deferred", "deferred2"} /\ o \in deferred_work[t]
  /\ Mark(t, local[t], deferred_work[t] \ {o}, Pointers(o))
  /\ marked' = marked \cup {o} \cup (Pointers(o) \ Instructions)
  /\ UNCHANGED <<barrier, pc, num_busy, delayed, todo, more, slice>>

DeferredMarkingEnds(t) ==
  /\ pc[t] \in {"deferred", "deferred2"} /\ deferred_work[t] = {} /\ deferred = {}
  /\ Goto(t, IF pc[t] = "deferred" THEN "drain" ELSE "sync4")
  /\ UNCHANGED <<barrier, work, visitors, heap>>

\* Pop: from the visitor's own blocks, else after taking a block of the stack.
TakeBlock(t) ==
  \E o \in stack : /\ stack' = stack \ {o}
                   /\ local' = [local EXCEPT ![t] = @ \cup {o}]

PopBlock(t) ==
  /\ pc[t] = "drain" /\ local[t] = {} /\ TakeBlock(t)
  /\ UNCHANGED <<barrier, pc, num_busy, waiters, delayed, todo, more, heap>>

IsWhite(o) == o \notin marked

\* ProcessWeakProperty waits for the key of a weak property.
ProcessObject(t, o) ==
  /\ pc[t] = "drain" /\ o \in local[t]
  /\ IF o \in WeakProps /\ IsWhite(Key[o])
       THEN /\ delayed' = [delayed EXCEPT ![t] = @ \cup {o}]
            /\ local' = [local EXCEPT ![t] = @ \ {o}]
            /\ UNCHANGED <<marked, stack, waiters, deferred, deferred_work>>
       ELSE /\ Mark(t, local[t] \ {o}, deferred_work[t], Pointers(o))
            /\ MarkBits(Pointers(o)) /\ UNCHANGED delayed
  /\ UNCHANGED <<barrier, pc, num_busy, todo, more, slice>>

\* ProcessPendingWeakProperties: at the end of a drain, and once per round when
\* all markers have stopped.
PendingBegins(t) ==
  /\ \/ pc[t] = "drain" /\ local[t] = {} /\ stack = {} /\ Goto(t, "drain_weak")
     \/ pc[t] = "pending" /\ Goto(t, "round_weak")
  /\ todo' = [todo EXCEPT ![t] = delayed[t]] /\ delayed' = [delayed EXCEPT ![t] = {}]
  /\ more' = [more EXCEPT ![t] = FALSE]
  /\ UNCHANGED <<barrier, work, local, heap>>

PendingStep(t, w) ==
  /\ pc[t] \in {"drain_weak", "round_weak"} /\ w \in todo[t]
  /\ todo' = [todo EXCEPT ![t] = @ \ {w}]
  /\ IF IsWhite(Key[w])
       THEN /\ delayed' = [delayed EXCEPT ![t] = @ \cup {w}]
            /\ UNCHANGED <<more, marked, local, stack, waiters, deferred, deferred_work>>
       ELSE /\ more' = [more EXCEPT ![t] = @ \/ IsWhite(Value[w])]
            /\ Mark(t, local[t], deferred_work[t], Pointers(w))
            /\ MarkBits(Pointers(w)) /\ UNCHANGED delayed
  /\ UNCHANGED <<barrier, pc, num_busy, slice>>

DrainEnds(t) ==
  /\ pc[t] = "drain_weak" /\ todo[t] = {}
  /\ Goto(t, IF more[t] THEN "drain" ELSE "wait_for_work")
  /\ UNCHANGED <<barrier, work, visitors, heap>>

\* BlockStack::WaitForWork.
LastWorker == num_busy = 1

\* Fault: the last worker waits like the others.
WaitForWork_Fault(t) ==
  /\ pc[t] = "wait_for_work"
  /\ \/ /\ ~LastWorker /\ stack # {} /\ TakeBlock(t)
        /\ Goto(t, "drain") /\ UNCHANGED <<num_busy, waiters>>
     \/ /\ stack = {} /\ num_busy' = num_busy - 1
        /\ waiters' = waiters \cup {t}
        /\ Goto(t, "waiting") /\ UNCHANGED <<stack, local>>
  /\ UNCHANGED <<barrier, delayed, todo, more, heap>>
WaitForWork(t) ==
  /\ pc[t] = "wait_for_work"
  /\ \/ /\ LastWorker /\ num_busy' = num_busy - 1 /\ waiters' = {}
        /\ Goto(t, "sync1") /\ UNCHANGED <<stack, local>>
     \/ /\ ~LastWorker /\ stack # {} /\ TakeBlock(t)
        /\ Goto(t, "drain") /\ UNCHANGED <<num_busy, waiters>>
     \/ /\ ~LastWorker /\ stack = {} /\ num_busy' = num_busy - 1
        /\ waiters' = waiters \cup {t}
        /\ Goto(t, "waiting") /\ UNCHANGED <<stack, local>>
  /\ UNCHANGED <<barrier, delayed, todo, more, heap>>

WorkWaiterWakes(t) ==
  /\ pc[t] = "waiting" /\ t \notin waiters
  /\ \/ /\ num_busy = 0 /\ Goto(t, "sync1") /\ UNCHANGED <<work, local>>
     \/ /\ num_busy # 0 /\ stack # {} /\ TakeBlock(t) /\ num_busy' = num_busy + 1
        /\ Goto(t, "drain") /\ UNCHANGED waiters
     \/ /\ num_busy # 0 /\ stack = {} /\ waiters' = waiters \cup {t}
        /\ UNCHANGED <<pc, num_busy, stack, local>>
  /\ UNCHANGED <<barrier, delayed, todo, more, heap>>

\* The round's decision, in step with all others: whoever has more to mark says
\* so before the second Sync, and the others look before the third.
RoundWeakEnds(t) ==
  /\ pc[t] = "round_weak" /\ todo[t] = {} /\ Goto(t, "sync2")
  /\ num_busy' = IF more[t] THEN num_busy + 1 ELSE num_busy
  /\ UNCHANGED <<barrier, stack, waiters, visitors, heap>>

\* Fault: a marker without work of its own does not look at the others.
Decide_Fault(t) ==
  /\ pc[t] = "decide" /\ Goto(t, "sync3") /\ UNCHANGED <<barrier, work, visitors, heap>>
Decide(t) ==
  /\ pc[t] = "decide" /\ Goto(t, "sync3")
  /\ IF ~more[t] /\ num_busy > 0
       THEN num_busy' = num_busy + 1 /\ more' = [more EXCEPT ![t] = TRUE]
       ELSE UNCHANGED <<num_busy, more>>
  /\ UNCHANGED <<barrier, stack, waiters, local, delayed, todo, heap>>

\* The mourning of phase 3 clears the weak properties whose key is dead.
Mourn(t) ==
  /\ pc[t] = "mourn" /\ Goto(t, "sync5")
  /\ delayed' = [delayed EXCEPT ![t] = {}]
  /\ UNCHANGED <<barrier, work, local, todo, more, heap>>

\* Where a thread goes from each Sync.
Syncs == {"sync1", "sync2", "sync3", "sync4", "sync5"}

AfterSync(t) ==
  CASE pc[t] = "sync1" -> "pending"
    [] pc[t] = "sync2" -> "decide"
    [] pc[t] = "sync3" -> IF more[t] THEN "drain" ELSE "deferred2"
    [] pc[t] = "sync4" -> "mourn"
    [] OTHER -> "release"

Sync(t) ==
  /\ pc[t] \in Syncs
  /\ \/ (SyncLast(t) \/ SyncWakes(t)) /\ Goto(t, AfterSync(t))
     \/ SyncWait(t) /\ UNCHANGED pc
  /\ UNCHANGED <<work, visitors, heap>>

\* The collecting thread then deletes the visitors.
Leave(t) ==
  /\ pc[t] = "release" /\ Release(t)
  /\ Goto(t, IF t = Main THEN "finalize" ELSE "gone")
  /\ UNCHANGED <<work, visitors, heap>>

-----------------------------------------------------------------------------
Step(t) ==
  \/ BecomesBusy(t) \/ IterateRoots(t) \/ TakeDeferred(t) \/ DeferredMarkingEnds(t)
  \/ \E o \in Objects :
       ProcessDeferredMarking(t, o) \/ ProcessObject(t, o) \/ PendingStep(t, o)
  \/ PopBlock(t)
  \/ PendingBegins(t) \/ DrainEnds(t) \/ WaitForWork(t) \/ WorkWaiterWakes(t)
  \/ RoundWeakEnds(t) \/ Decide(t) \/ Mourn(t) \/ Sync(t) \/ Leave(t)

HelperStep(h) == Spawn(h) \/ HelperEnters(h) \/ HelperIsLate(h) \/ Step(h)

Next == MainEnters \/ Step(Main) \/ \E h \in Helpers : HelperStep(h)

\* Threads that have started go on; the pool starts the helpers.
Fairness == WF_vars(MainEnters \/ Step(Main)) /\ \A h \in Helpers : WF_vars(HelperStep(h))

Spec == Init /\ [][Next]_vars /\ Fairness

-----------------------------------------------------------------------------
(* Properties *)

\* Everything the markers must keep: what was marked or pending before, what is
\* reachable from there, and the value of a kept weak property with a kept key.
Closed(s) ==
  /\ Roots \cup GrayAll \cup PendingAll \subseteq s
  /\ \A o \in Deferred : {o} \cup Pointers(o) \subseteq s
  /\ \A o \in s \ WeakProps : Points[o] \subseteq s
  /\ \A w \in s \cap WeakProps : Key[w] \in s => Value[w] \in s

Marking == {"roots", "deferred", "drain", "drain_weak", "wait_for_work", "waiting",
            "sync1", "pending", "round_weak", "sync2", "decide", "sync3"}
Finishing == {"deferred2", "sync4", "mourn", "sync5", "release", "finalize"}

Mourning == {"mourn", "sync5", "release", "finalize"}

\* What has yet to be processed by ProcessDeferredMarking.
PutOff == {o \in Objects : o \in deferred \/ \E t \in Threads : o \in deferred_work[t]}

\* Once a marker has left the loop, all live objects are marked but for Instructions
\* that some visitor has put off, no other work is left in any block, and a weak
\* property that is about to be mourned has a dead key.  When the mourning begins
\* nothing is put off any more: every mark bit is final.
MarkingIsComplete ==
  /\ (\E t \in Threads : pc[t] \in Finishing) =>
       /\ Closed(marked \cup PutOff) /\ PutOff \subseteq Instructions /\ stack = {}
       /\ \A t \in Threads : local[t] = {} /\ todo[t] = {}
       /\ \A t \in Threads : \A w \in delayed[t] : IsWhite(Key[w])
  /\ (\E t \in Threads : pc[t] \in Mourning) => PutOff = {}

\* Markers decide together: when they have all stopped nobody is busy, none marks
\* when another has gone on to finish, and none is inside its task when the
\* visitors are deleted.
MarkersInStep ==
  /\ (\A t \in Threads : pc[t] \in {"queued", "gone", "sync1"}) => num_busy = 0
  /\ \A t, u \in Threads :
       /\ pc[t] \in Finishing => pc[u] \notin Marking \ {"sync3"}
       /\ pc[t] = "finalize" => pc[u] \in {"queued", "sync5", "release", "gone", "finalize"}

\* Marking ends, whichever helpers came in time.
MarkingEnds == <>(pc[Main] = "finalize")
=============================================================================
