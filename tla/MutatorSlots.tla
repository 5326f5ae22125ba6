---------------------------- MODULE MutatorSlots ----------------------------
(***************************************************************************)
(* The mutator slots of an isolate group: IncreaseMutatorCount and         *)
(* DecreaseMutatorCount (runtime/vm/isolate.cc) as Thread::EnterIsolate    *)
(* and Thread::ExitIsolate (runtime/vm/thread.cc) call them.  At most      *)
(* max_active_mutators_ isolates of a group are entered at a time; others  *)
(* wait for a slot, outside the isolate.                                   *)
(*                                                                         *)
(* The owner of a safepoint operation may leave its isolate and come back, *)
(* with Dart frames on its stack (a nested exit) or without: a reload that *)
(* compiles opens a native port, which is done without a current isolate.  *)
(* Every other isolate that enters stops at the safepoint with its slot.   *)
(***************************************************************************)
EXTENDS Naturals, FiniteSets

CONSTANTS
  Isolates,
  MaxActive,   \* max_active_mutators_
  None

ASSUME SlotsAssumption ==
  IsFiniteSet(Isolates) /\ MaxActive \in Nat \ {0} /\ None \notin Isolates

VARIABLES
  active,      \* active_mutators_
  waiting,     \* waiting_mutators_
  waiters,     \* isolates in the wait set of active_mutators_monitor_
  pc,          \* where the thread of each isolate is
  nested,      \* isolates left with frames on their stack
  safepoint    \* owner of the safepoint operation

vars == <<active, waiting, waiters, pc, nested, safepoint>>

Init ==
  /\ active = 0 /\ waiting = 0 /\ waiters = {}
  /\ pc = [i \in Isolates |-> "out"] /\ nested = {} /\ safepoint = None

Goto(i, l) == pc' = [pc EXCEPT ![i] = l]

\* Neither count changes for a nested exit or entry of the safepoint's owner.
\* Fault: its slot is given away.
KeepsSlot_Fault(i, is_nested) == FALSE
KeepsSlot(i, is_nested) == is_nested /\ safepoint = i

EnterIsolate(i) ==
  /\ pc[i] = "out" /\ Goto(i, IF KeepsSlot(i, i \in nested) THEN "check" ELSE "enter")
  /\ UNCHANGED <<active, waiting, waiters, nested, safepoint>>

\* IncreaseMutatorCount: take a slot or wait; a notified thread looks again.
\* Fault: one isolate too many gets in.
HasSlot_Fault == active <= MaxActive
HasSlot == active # MaxActive

TakeSlot(i) == active' = active + 1 /\ Goto(i, "check")

IncreaseMutatorCount(i) ==
  /\ pc[i] = "enter"
  /\ \/ HasSlot /\ TakeSlot(i) /\ UNCHANGED <<waiting, waiters>>
     \/ /\ ~HasSlot /\ UNCHANGED active
        /\ waiting' = waiting + 1 /\ waiters' = waiters \cup {i} /\ Goto(i, "wait")
  /\ UNCHANGED <<nested, safepoint>>

WaiterLooks(i) ==
  /\ pc[i] = "wait" /\ i \notin waiters
  /\ \/ HasSlot /\ TakeSlot(i) /\ waiting' = waiting - 1 /\ UNCHANGED waiters
     \/ /\ ~HasSlot /\ UNCHANGED <<active, waiting, pc>>
        /\ waiters' = waiters \cup {i}
  /\ UNCHANGED <<nested, safepoint>>

SpuriousWakeup(i) ==
  /\ i \in waiters /\ waiters' = waiters \ {i}
  /\ UNCHANGED <<active, waiting, pc, nested, safepoint>>

\* The entered thread leaves the safepoint state, unless another owns one.
PassSafepoint(i) ==
  /\ pc[i] = "check" /\ safepoint \in {None, i}
  /\ Goto(i, "run") /\ nested' = nested \ {i}
  /\ UNCHANGED <<active, waiting, waiters, safepoint>>

\* Another thread's operation begins and ends; all others are at a safepoint.
BeginSafepoint(i) ==
  /\ pc[i] = "run" /\ safepoint = None /\ \A j \in Isolates \ {i} : pc[j] # "run"
  /\ safepoint' = i
  /\ UNCHANGED <<active, waiting, waiters, pc, nested>>

EndSafepoint(i) ==
  /\ pc[i] = "run" /\ safepoint = i /\ safepoint' = None
  /\ UNCHANGED <<active, waiting, waiters, pc, nested>>

\* DecreaseMutatorCount: give the slot back and wake one waiter.
\* Fault: only when the last slot becomes free again.
Notify_Fault == waiting > 0 /\ active = MaxActive
Notify == waiting > 0

DecreaseMutatorCount ==
  /\ active' = active - 1
  /\ IF Notify /\ waiters # {} THEN \E j \in waiters : waiters' = waiters \ {j}
                               ELSE UNCHANGED waiters

\* ExitIsolate, with frames on the stack or not: the thread is at a safepoint
\* before it gives the slot back.
ExitIsolate(i) ==
  /\ pc[i] = "run"
  /\ \E is_nested \in BOOLEAN :
       /\ nested' = IF is_nested THEN nested \cup {i} ELSE nested
       /\ Goto(i, IF KeepsSlot(i, is_nested) THEN "out" ELSE "leaving")
  /\ UNCHANGED <<active, waiting, waiters, safepoint>>

GiveSlotBack(i) ==
  /\ pc[i] = "leaving" /\ DecreaseMutatorCount /\ Goto(i, "out")
  /\ UNCHANGED <<waiting, nested, safepoint>>

-----------------------------------------------------------------------------
Step(i) ==
  IncreaseMutatorCount(i) \/ WaiterLooks(i) \/ PassSafepoint(i) \/ GiveSlotBack(i)

Next ==
  \E i \in Isolates :
    \/ Step(i) \/ EnterIsolate(i) \/ ExitIsolate(i)
    \/ BeginSafepoint(i) \/ EndSafepoint(i) \/ SpuriousWakeup(i)

\* A thread that enters or leaves goes on, and the owner of a safepoint operation that has
\* left its isolate comes back to it.  Nobody else has to enter or leave.
Fairness ==
  \A i \in Isolates : WF_vars(Step(i)) /\ WF_vars(safepoint = i /\ EnterIsolate(i))

Spec == Init /\ [][Next]_vars /\ Fairness

-----------------------------------------------------------------------------
(* Properties *)

\* Who has a slot: the isolates inside, and the owner of the safepoint operation
\* also while it has left with frames on its stack.
HasTheSlot(i) == pc[i] \in {"check", "run", "leaving"} \/ (safepoint = i /\ i \in nested)

\* active_mutators_ counts the slots in use and stays within the limit, and
\* waiting_mutators_ counts the threads that wait or were just woken.
SlotsAreCounted ==
  /\ active = Cardinality({i \in Isolates : HasTheSlot(i)}) /\ active <= MaxActive
  /\ waiting = Cardinality({i \in Isolates : pc[i] = "wait"})

\* A free slot is never forgotten: as long as somebody sleeps, at least as many
\* threads have been woken as there are free slots, whoever else enters first.
NoSlotForgotten ==
  waiters # {} =>
    Cardinality({i \in Isolates : pc[i] = "wait"} \ waiters) >= MaxActive - active

\* An owner of a safepoint operation that left with frames on its stack comes back
\* to its isolate, although all others that enter stop at the safepoint with
\* their slots.
NestedOwnerComesBack ==
  \A i \in Isolates : safepoint = i /\ i \in nested ~> pc[i] = "run"

\* Every owner does: a reload stops all isolates "at a place where we can safely
\* do a reload" (IsolateGroup::ReloadSources).
OwnerComesBack == \A i \in Isolates : safepoint = i ~> pc[i] = "run"
=============================================================================
