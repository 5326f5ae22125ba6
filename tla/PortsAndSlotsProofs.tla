------------------------ MODULE PortsAndSlotsProofs ------------------------
(***************************************************************************)
(* What isolates share: the mutator slots of their group and the port map. *)
(*                                                                         *)
(* The mutator slots are counted right and no free slot is forgotten, for  *)
(* any finite set of isolates and any number of slots.                     *)
(*                                                                         *)
(* The hash tables of port_set.h find exactly the ports that are open, and *)
(* every probe ends, for any ports, handlers and initial capacity.         *)
(***************************************************************************)
EXTENDS MutatorSlots, PortMap, FiniteSetTheorems, WellFoundedInduction, TLAPS

-----------------------------------------------------------------------------
(* The mutator slots *)

Positions == {"out", "enter", "wait", "check", "run", "leaving"}

Types ==
  /\ active \in Nat /\ waiting \in Nat
  /\ pc \in [Isolates -> Positions]
  /\ waiters \subseteq {i \in Isolates : pc[i] = "wait"}
  /\ nested \subseteq Isolates /\ safepoint \in Isolates \cup {None}

\* An isolate that still has to take a slot, or is about to give one back, is not
\* one whose slot was kept; and a running one has no exit to come back from.
KeptSlots ==
  \A i \in Isolates :
    /\ pc[i] \in {"enter", "wait", "leaving"} => ~(safepoint = i /\ i \in nested)
    /\ pc[i] = "run" => i \notin nested

Slotted == {i \in Isolates : HasTheSlot(i)}
Queue == {i \in Isolates : pc[i] = "wait"}
Woken == Queue \ waiters

Inv == Types /\ KeptSlots /\ SlotsAreCounted /\ NoSlotForgotten

USE DEF Goto

-----------------------------------------------------------------------------
\* Every set of isolates is finite; how its size changes by one isolate.
LEMMA Sizes ==
  ASSUME NEW S \in SUBSET Isolates
  PROVE  IsFiniteSet(S) /\ Cardinality(S) \in Nat
  BY SlotsAssumption, FS_Subset, FS_CardinalityType

LEMMA OneMore ==
  ASSUME NEW S \in SUBSET Isolates, NEW i \in Isolates, i \notin S
  PROVE  Cardinality(S \cup {i}) = Cardinality(S) + 1
  BY Sizes, FS_AddElement

LEMMA OneLess ==
  ASSUME NEW S \in SUBSET Isolates, NEW i \in S
  PROVE  Cardinality(S \ {i}) = Cardinality(S) - 1 /\ Cardinality(S) > 0
  BY Sizes, FS_RemoveElement, FS_EmptySet

\* The counters in terms of the two sets.
LEMMA Counted ==
  ASSUME SlotsAreCounted
  PROVE  /\ active = Cardinality(Slotted) /\ active <= MaxActive
         /\ waiting = Cardinality(Queue)
  BY DEF SlotsAreCounted, Slotted, Queue

-----------------------------------------------------------------------------
\* A step that leaves counters, slots and queue alone.
LEMMA NothingCounted ==
  ASSUME Inv, Slotted' = Slotted, Queue' = Queue, UNCHANGED <<active, waiting, waiters>>
  PROVE  SlotsAreCounted' /\ NoSlotForgotten'
  <1>1. SlotsAreCounted'
    BY DEF Inv, SlotsAreCounted, Slotted, Queue
  <1>2. NoSlotForgotten'
    BY DEF Inv, NoSlotForgotten, Queue
  <1> QED BY <1>1, <1>2

LEMMA TypesKept ==
  ASSUME Inv, NEW i \in Isolates,
         IncreaseMutatorCount(i) \/ WaiterLooks(i) \/ PassSafepoint(i) \/ GiveSlotBack(i)
           \/ EnterIsolate(i) \/ ExitIsolate(i)
           \/ BeginSafepoint(i) \/ EndSafepoint(i) \/ SpuriousWakeup(i)
  PROVE  /\ pc' \in [Isolates -> Positions] /\ KeptSlots'
         /\ waiters' \subseteq {j \in Isolates : pc'[j] = "wait"}
         /\ nested' \subseteq Isolates /\ safepoint' \in Isolates \cup {None}
  <1>0. Types /\ KeptSlots /\ None \notin Isolates
    BY SlotsAssumption DEF Inv
  <1>1. CASE IncreaseMutatorCount(i)
    BY <1>0, <1>1 DEF IncreaseMutatorCount, TakeSlot, Types, KeptSlots, Positions
  <1>2. CASE WaiterLooks(i)
    BY <1>0, <1>2 DEF WaiterLooks, TakeSlot, Types, KeptSlots, Positions
  <1>3. CASE PassSafepoint(i)
    BY <1>0, <1>3 DEF PassSafepoint, Types, KeptSlots, Positions
  <1>4. CASE GiveSlotBack(i)
    BY <1>0, <1>4 DEF GiveSlotBack, DecreaseMutatorCount, Types, KeptSlots, Positions
  <1>5. CASE EnterIsolate(i)
    BY <1>0, <1>5 DEF EnterIsolate, KeepsSlot, Types, KeptSlots, Positions
  <1>6. CASE ExitIsolate(i)
    BY <1>0, <1>6 DEF ExitIsolate, KeepsSlot, Types, KeptSlots, Positions
  <1>7. CASE BeginSafepoint(i) \/ EndSafepoint(i)
    BY <1>0, <1>7 DEF BeginSafepoint, EndSafepoint, Types, KeptSlots, Positions
  <1>8. CASE SpuriousWakeup(i)
    BY <1>0, <1>8 DEF SpuriousWakeup, Types, KeptSlots, Positions
  <1> QED BY <1>1, <1>2, <1>3, <1>4, <1>5, <1>6, <1>7, <1>8

-----------------------------------------------------------------------------
\* An isolate takes a slot, or queues because there is none.
LEMMA Takes ==
  ASSUME Inv, NEW i \in Isolates, HasSlot, TakeSlot(i), pc[i] \in {"enter", "wait"},
         UNCHANGED <<waiters, nested, safepoint>>, i \notin waiters,
         waiting' = IF pc[i] = "wait" THEN waiting - 1 ELSE waiting
  PROVE  Types' /\ SlotsAreCounted' /\ NoSlotForgotten'
  <1>0. /\ active = Cardinality(Slotted) /\ active <= MaxActive /\ waiting = Cardinality(Queue)
        /\ MaxActive \in Nat /\ active \in Nat /\ waiting \in Nat
    BY Counted, SlotsAssumption DEF Inv, Types
  <1>1. i \notin Slotted /\ Slotted' = Slotted \cup {i}
    BY DEF Inv, Types, KeptSlots, Slotted, HasTheSlot, TakeSlot
  <1>2. Cardinality(Slotted') = active + 1
    BY <1>0, <1>1, OneMore DEF Slotted
  <1>3. active' = active + 1 /\ active' <= MaxActive
    BY <1>0 DEF TakeSlot, HasSlot
  <1>4. Queue' = Queue \ {i}
    BY DEF Inv, Types, TakeSlot, Queue
  <1>5. waiting' = Cardinality(Queue') /\ waiting' \in Nat
    <2>1. CASE pc[i] = "wait"
      BY <1>0, <1>4, <2>1, OneLess DEF Queue
    <2>2. CASE pc[i] # "wait"
      <3>1. Queue' = Queue
        BY <1>4, <2>2 DEF Queue
      <3> QED BY <1>0, <2>2, <3>1
    <2> QED BY <2>1, <2>2
  <1>6. SlotsAreCounted'
    BY <1>2, <1>3, <1>5 DEF SlotsAreCounted, Slotted, Queue
  <1>7. NoSlotForgotten'
    <2> SUFFICES ASSUME waiters # {} PROVE Cardinality(Woken') >= MaxActive - active'
      BY DEF NoSlotForgotten, Woken, Queue
    <2>1. Cardinality(Woken) >= MaxActive - active
      BY DEF Inv, NoSlotForgotten, Woken, Queue
    <2>2. /\ Woken \in SUBSET Isolates /\ Cardinality(Woken) \in Nat
          /\ Woken' = Woken \ {i}
      BY <1>4, Sizes DEF Woken, Queue
    <2>3. Cardinality(Woken') >= Cardinality(Woken) - 1
      <3>1. CASE i \in Woken
        BY <2>2, <3>1, OneLess
      <3>2. CASE i \notin Woken
        <4>1. Woken' = Woken
          BY <2>2, <3>2
        <4> QED BY <2>2, <4>1
      <3> QED BY <3>1, <3>2
    <2>4. Cardinality(Woken') \in Nat
      BY <2>2, Sizes
    <2> QED BY <1>0, <1>3, <2>1, <2>2, <2>3, <2>4
  <1>8. Types'
    <2>1. /\ pc' \in [Isolates -> Positions]
          /\ waiters' \subseteq {j \in Isolates : pc'[j] = "wait"}
          /\ nested' \subseteq Isolates /\ safepoint' \in Isolates \cup {None}
      BY DEF Inv, Types, TakeSlot, Positions
    <2> QED BY <1>0, <1>3, <1>5, <2>1 DEF Types
  <1> QED BY <1>6, <1>7, <1>8

LEMMA Queues ==
  ASSUME Inv, NEW i \in Isolates, ~HasSlot, pc[i] \in {"enter", "wait"}, i \notin waiters,
         UNCHANGED <<active, nested, safepoint>>, waiters' = waiters \cup {i},
         pc' = [pc EXCEPT ![i] = "wait"],
         waiting' = IF pc[i] = "wait" THEN waiting ELSE waiting + 1
  PROVE  Types' /\ SlotsAreCounted' /\ NoSlotForgotten'
  <1>0. /\ active = Cardinality(Slotted) /\ active <= MaxActive /\ waiting = Cardinality(Queue)
        /\ MaxActive \in Nat /\ active \in Nat /\ waiting \in Nat
    BY Counted, SlotsAssumption DEF Inv, Types
  <1>1. Slotted' = Slotted
    BY DEF Inv, Types, Slotted, HasTheSlot
  <1>2. Queue' = Queue \cup {i}
    BY DEF Inv, Types, Queue
  <1>3. waiting' = Cardinality(Queue') /\ waiting' \in Nat
    <2>1. CASE pc[i] = "wait"
      <3>1. Queue' = Queue
        BY <1>2, <2>1 DEF Queue
      <3> QED BY <1>0, <2>1, <3>1
    <2>2. CASE pc[i] # "wait"
      BY <1>0, <1>2, <2>2, OneMore DEF Queue
    <2> QED BY <2>1, <2>2
  <1>4. SlotsAreCounted'
    BY <1>0, <1>1, <1>3 DEF SlotsAreCounted, Slotted, Queue
  <1>5. NoSlotForgotten'
    <2>1. Cardinality(Woken') \in Nat /\ active' = MaxActive
      BY Sizes DEF Woken, Queue, HasSlot
    <2> QED BY <1>0, <2>1 DEF NoSlotForgotten, Woken, Queue
  <1>6. Types'
    BY <1>0, <1>3 DEF Inv, Types, Positions
  <1> QED BY <1>4, <1>5, <1>6

\* A waiter is woken; nothing else changes.
LEMMA Wakes ==
  ASSUME Inv, NEW i \in waiters, waiters' = waiters \ {i}, Queue' = Queue
  PROVE  waiters' # {} => Cardinality(Woken') = Cardinality(Woken) + 1
  <1>1. i \in Queue /\ Woken' = Woken \cup {i} /\ i \notin Woken
    BY DEF Inv, Types, Woken, Queue
  <1> QED BY <1>1, OneMore DEF Woken, Queue

LEMMA GivesBack ==
  ASSUME Inv, NEW i \in Isolates, GiveSlotBack(i)
  PROVE  active' \in Nat /\ waiting' \in Nat /\ SlotsAreCounted' /\ NoSlotForgotten'
  <1>0. /\ active = Cardinality(Slotted) /\ active <= MaxActive /\ waiting = Cardinality(Queue)
        /\ MaxActive \in Nat /\ active \in Nat /\ waiting \in Nat
    BY Counted, SlotsAssumption DEF Inv, Types
  <1>1. /\ pc[i] = "leaving" /\ pc' = [pc EXCEPT ![i] = "out"] /\ active' = active - 1
        /\ UNCHANGED <<waiting, nested, safepoint>>
    BY DEF GiveSlotBack, DecreaseMutatorCount
  <1>2. i \in Slotted /\ Slotted' = Slotted \ {i}
    BY <1>1 DEF Inv, Types, KeptSlots, Slotted, HasTheSlot
  <1>3. Cardinality(Slotted') = active - 1 /\ active > 0
    BY <1>0, <1>2, OneLess DEF Slotted
  <1>4. Queue' = Queue
    BY <1>1 DEF Inv, Types, Queue
  <1>5. SlotsAreCounted'
    BY <1>0, <1>1, <1>3, <1>4 DEF SlotsAreCounted, Slotted, Queue
  <1>6. NoSlotForgotten'
    <2> SUFFICES ASSUME waiters' # {} PROVE Cardinality(Woken') >= MaxActive - active'
      BY DEF NoSlotForgotten, Woken, Queue
    <2>1. waiters # {}
      BY DEF GiveSlotBack, DecreaseMutatorCount
    <2>2. waiting > 0
      <3>1. PICK j \in waiters : TRUE
        BY <2>1
      <3>2. j \in Queue
        BY DEF Inv, Types, Queue
      <3> QED BY <1>0, <3>2, OneLess DEF Queue
    <2>3. PICK j \in waiters : waiters' = waiters \ {j}
      BY <2>1, <2>2 DEF GiveSlotBack, DecreaseMutatorCount, Notify
    <2>4. Cardinality(Woken') = Cardinality(Woken) + 1
      BY <1>4, <2>3, Wakes
    <2>5. Cardinality(Woken) >= MaxActive - active /\ Cardinality(Woken) \in Nat
      BY <2>1, Sizes DEF Inv, NoSlotForgotten, Woken, Queue
    <2> QED BY <1>0, <1>1, <2>4, <2>5
  <1> QED BY <1>0, <1>1, <1>3, <1>5, <1>6

LEMMA SpuriousKept ==
  ASSUME Inv, NEW i \in Isolates, SpuriousWakeup(i)
  PROVE  SlotsAreCounted' /\ NoSlotForgotten'
  <1>1. Slotted' = Slotted /\ Queue' = Queue
    BY DEF SpuriousWakeup, Slotted, HasTheSlot, Queue
  <1>2. SlotsAreCounted'
    BY <1>1 DEF Inv, SlotsAreCounted, Slotted, Queue, SpuriousWakeup
  <1>3. NoSlotForgotten'
    <2> SUFFICES ASSUME waiters' # {} PROVE Cardinality(Woken') >= MaxActive - active'
      BY DEF NoSlotForgotten, Woken, Queue
    <2>1. /\ i \in waiters /\ waiters' = waiters \ {i} /\ active' = active
      BY DEF SpuriousWakeup
    <2>2. Cardinality(Woken') = Cardinality(Woken) + 1
      BY <1>1, <2>1, Wakes
    <2>3. Cardinality(Woken) >= MaxActive - active /\ Cardinality(Woken) \in Nat
      BY <2>1, Sizes DEF Inv, NoSlotForgotten, Woken, Queue
    <2> QED BY <2>1, <2>2, <2>3, SlotsAssumption DEF Inv, Types
  <1> QED BY <1>2, <1>3

\* Entering and leaving an isolate up to the slot, and the safepoint operations:
\* the owner's slot is kept exactly while it has left with frames on its stack.
LEMMA OthersKept ==
  ASSUME Inv, NEW i \in Isolates,
         \/ PassSafepoint(i) \/ EnterIsolate(i) \/ ExitIsolate(i)
         \/ BeginSafepoint(i) \/ EndSafepoint(i)
  PROVE  UNCHANGED <<active, waiting>> /\ SlotsAreCounted' /\ NoSlotForgotten'
  <1>0. Types /\ KeptSlots /\ None \notin Isolates
    BY SlotsAssumption DEF Inv
  <1>1. UNCHANGED <<active, waiting, waiters>>
    BY DEF PassSafepoint, EnterIsolate, ExitIsolate, BeginSafepoint, EndSafepoint
  <1>2. Queue' = Queue
    BY <1>0 DEF PassSafepoint, EnterIsolate, ExitIsolate, BeginSafepoint, EndSafepoint,
                KeepsSlot, Types, Queue
  <1>3. Slotted' = Slotted
    <2>1. CASE PassSafepoint(i)
      BY <1>0, <2>1 DEF PassSafepoint, Types, Slotted, HasTheSlot
    <2>2. CASE EnterIsolate(i)
      BY <1>0, <2>2 DEF EnterIsolate, KeepsSlot, Types, Slotted, HasTheSlot
    <2>3. CASE ExitIsolate(i)
      BY <1>0, <2>3 DEF ExitIsolate, KeepsSlot, Types, KeptSlots, Slotted, HasTheSlot
    <2>4. CASE BeginSafepoint(i) \/ EndSafepoint(i)
      BY <1>0, <2>4 DEF BeginSafepoint, EndSafepoint, Types, Slotted, HasTheSlot
    <2> QED BY <2>1, <2>2, <2>3, <2>4
  <1> QED BY <1>1, <1>2, <1>3, NothingCounted

LEMMA InvNext == Inv /\ [Next]_vars => Inv'
  <1> SUFFICES ASSUME Inv, [Next]_vars PROVE Inv' OBVIOUS
  <1>1. CASE UNCHANGED vars
    BY <1>1 DEF vars, Inv, Types, KeptSlots, SlotsAreCounted, NoSlotForgotten, HasTheSlot
  <1>2. ASSUME NEW i \in Isolates, IncreaseMutatorCount(i) \/ WaiterLooks(i) PROVE Inv'
    <2>0. pc[i] = "enter" => i \notin waiters
      BY DEF Inv, Types
    <2>1. CASE HasSlot
      <3>1. /\ TakeSlot(i) /\ pc[i] \in {"enter", "wait"} /\ i \notin waiters
            /\ UNCHANGED <<waiters, nested, safepoint>>
            /\ waiting' = IF pc[i] = "wait" THEN waiting - 1 ELSE waiting
        BY <1>2, <2>0, <2>1 DEF IncreaseMutatorCount, WaiterLooks
      <3> QED BY <1>2, <2>1, <3>1, Takes, TypesKept DEF Inv
    <2>2. CASE ~HasSlot
      <3>1. /\ pc[i] \in {"enter", "wait"} /\ i \notin waiters
            /\ UNCHANGED <<active, nested, safepoint>> /\ waiters' = waiters \cup {i}
            /\ pc' = [pc EXCEPT ![i] = "wait"]
            /\ waiting' = IF pc[i] = "wait" THEN waiting ELSE waiting + 1
        BY <1>2, <2>0, <2>2 DEF IncreaseMutatorCount, WaiterLooks, Inv, Types
      <3> QED BY <1>2, <2>2, <3>1, Queues, TypesKept DEF Inv
    <2> QED BY <2>1, <2>2
  <1>3. ASSUME NEW i \in Isolates, GiveSlotBack(i) PROVE Inv'
    BY <1>3, GivesBack, TypesKept DEF Inv, Types
  <1>4. ASSUME NEW i \in Isolates, SpuriousWakeup(i) PROVE Inv'
    <2>1. UNCHANGED <<active, waiting>>
      BY <1>4 DEF SpuriousWakeup
    <2> QED BY <1>4, <2>1, SpuriousKept, TypesKept DEF Inv, Types
  <1>5. ASSUME NEW i \in Isolates,
               \/ PassSafepoint(i) \/ EnterIsolate(i) \/ ExitIsolate(i)
               \/ BeginSafepoint(i) \/ EndSafepoint(i)
        PROVE  Inv'
    BY <1>5, OthersKept, TypesKept DEF Inv, Types
  <1> QED BY <1>1, <1>2, <1>3, <1>4, <1>5 DEF Next, Step

LEMMA InvInit == Init => Inv
  <1> SUFFICES ASSUME Init PROVE Inv OBVIOUS
  <1>1. Types /\ KeptSlots
    BY SlotsAssumption DEF Init, Types, KeptSlots, Positions
  <1>2. {i \in Isolates : HasTheSlot(i)} = {} /\ {i \in Isolates : pc[i] = "wait"} = {}
    BY SlotsAssumption DEF Init, HasTheSlot
  <1>3. SlotsAreCounted
    BY <1>2, FS_EmptySet, SlotsAssumption DEF Init, SlotsAreCounted
  <1>4. NoSlotForgotten
    BY DEF Init, NoSlotForgotten
  <1> QED BY <1>1, <1>3, <1>4 DEF Inv

LEMMA Invariance == Spec => []Inv
  BY InvInit, InvNext, PTL DEF Spec

\* active_mutators_ of an isolate group counts the slots in use, the one that the
\* owner of a safepoint operation keeps across a nested exit included, and never
\* exceeds max_active_mutators_.
THEOREM CountsAreRight == Spec => []SlotsAreCounted
  BY Invariance, PTL DEF Inv

\* DecreaseMutatorCount's single Notify is enough: while a thread sleeps in
\* IncreaseMutatorCount, a woken thread is on its way to every free slot.
THEOREM FreeSlotsAreFound == Spec => []NoSlotForgotten
  BY Invariance, PTL DEF Inv

-----------------------------------------------------------------------------
(* The port map: markers and ports *)

Markers == {kFreePort, kDeletedPort}

-----------------------------------------------------------------------------
(* Maps from slots to ports *)

LiveIn(m, n) == {i \in 0 .. n - 1 : m[i] \notin Markers}
FreeIn(m, n) == {i \in 0 .. n - 1 : m[i] = kFreePort}
DeletedIn(m, n) == {i \in 0 .. n - 1 : m[i] = kDeletedPort}

PortsIn(m, n) == {m[i] : i \in LiveIn(m, n)}

\* No port is entered twice, and the probe for a port that is entered meets no free
\* slot before it.
Distinct(m, n) ==
  \A i \in LiveIn(m, n), k \in LiveIn(m, n) : m[i] = m[k] => i = k

Reached(m, n) ==
  \A i \in LiveIn(m, n), k \in 0 .. n - 1 :
    Distance(m[i] % n, k, n) < Distance(m[i] % n, i, n) => m[k] # kFreePort

MapOK(m, n) ==
  /\ n \in Nat /\ n >= 4 /\ m \in [0 .. n - 1 -> Nat]
  /\ Distinct(m, n) /\ Reached(m, n)

-----------------------------------------------------------------------------
(* Induction *)

USE ZenonT(30)

LEMMA LeastNat ==
  ASSUME NEW S, S \subseteq Nat, S # {}
  PROVE  \E x \in S : \A y \in S : x <= y
<1> DEFINE R == OpToRel(<, Nat)
<1>1. IsWellFoundedOn(R, Nat)
  BY NatLessThanWellFounded
<1> HIDE DEF R
<1>2. PICK x \in S : \A y \in S : ~(<<y, x>> \in R)
  BY <1>1, WFMin
<1>3. \A y \in S : ~(<<y, x>> \in R) => x <= y
  BY SMT DEF R, OpToRel
<1> QED BY <1>2, <1>3

LEMMA UpTo ==
  ASSUME NEW S, NEW n \in Nat, 0 \in S, \A k \in 0 .. n - 1 : k \in S => k + 1 \in S
  PROVE  n \in S
<1> DEFINE T == {k \in 0 .. n : k \notin S}
<1> SUFFICES ASSUME T # {} PROVE FALSE
  BY SMT
<1>1. T \subseteq Nat
  BY SMT
<1> HIDE DEF T
<1>2. PICK x \in T : \A y \in T : x <= y
  BY <1>1, LeastNat
<1> QED BY <1>2, SMT DEF T

-----------------------------------------------------------------------------
(* Probing *)

LEMMA Home ==
  ASSUME NEW p \in Nat, NEW n \in Nat, n >= 4
  PROVE  p % n \in 0 .. n - 1
  BY SMT

LEMMA Distances ==
  ASSUME NEW n \in Nat, n >= 4, NEW i \in 0 .. n - 1, NEW j \in 0 .. n - 1
  PROVE  Distance(i, j, n) = IF i <= j THEN j - i ELSE j + n - i
<1>1. CASE i <= j
  BY <1>1, SMT DEF Distance
<1>2. CASE ~(i <= j)
  BY <1>2, SMT DEF Distance
<1> QED BY <1>1, <1>2

LEMMA DistanceFacts ==
  ASSUME NEW n \in Nat, n >= 4, NEW i \in 0 .. n - 1, NEW j \in 0 .. n - 1,
         NEW k \in 0 .. n - 1
  PROVE  /\ Distance(i, j, n) \in Nat
         /\ Distance(i, j, n) = Distance(i, k, n) => j = k
<1>1. Distance(i, j, n) = IF i <= j THEN j - i ELSE j + n - i
  BY Distances
<1>2. Distance(i, k, n) = IF i <= k THEN k - i ELSE k + n - i
  BY Distances
<1> QED BY <1>1, <1>2, SMT

\* A probe finds the first slot of S.
LEMMA ProbeFinds ==
  ASSUME NEW n \in Nat, n >= 4, NEW i \in 0 .. n - 1, NEW S, S \subseteq 0 .. n - 1, S # {}
  PROVE  /\ FirstFrom(i, S, n) \in S
         /\ \A k \in S : k # FirstFrom(i, S, n) =>
              Distance(i, FirstFrom(i, S, n), n) < Distance(i, k, n)
<1> DEFINE D == {Distance(i, j, n) : j \in S}
           f == FirstFrom(i, S, n)
<1>1. \A j \in S : Distance(i, j, n) \in Nat
  BY DistanceFacts
<1>2. D \subseteq Nat /\ D # {}
  BY <1>1
<1>3. PICK d \in D : \A e \in D : d <= e
  BY <1>2, LeastNat
<1>4. \E j \in S : \A k \in S : Distance(i, j, n) <= Distance(i, k, n)
  BY <1>3
<1>5. f \in S /\ \A k \in S : Distance(i, f, n) <= Distance(i, k, n)
  BY <1>4 DEF FirstFrom
<1> HIDE DEF f
<1>6. ASSUME NEW k \in S, k # f PROVE Distance(i, f, n) < Distance(i, k, n)
  <2>1. /\ Distance(i, f, n) \in Nat /\ Distance(i, k, n) \in Nat
        /\ Distance(i, f, n) # Distance(i, k, n) /\ Distance(i, f, n) <= Distance(i, k, n)
    BY <1>5, <1>6, DistanceFacts
  <2> QED BY <2>1, SMT
<1> QED BY <1>5, <1>6 DEF f

-----------------------------------------------------------------------------
(* A port is entered in the first slot of S, where S has all free slots and *)
(* perhaps deleted ones.                                                    *)

Fits(m, n, p, S) ==
  /\ MapOK(m, n) /\ p \in Nat /\ p \notin Markers /\ p \notin PortsIn(m, n)
  /\ S # {} /\ FreeIn(m, n) \subseteq S /\ S \subseteq FreeIn(m, n) \cup DeletedIn(m, n)

SlotFor(p, n, S) == FirstFrom(p % n, S, n)

Put(m, i, p) == [m EXCEPT ![i] = p]

\* w is m with p in slot i.
Entered(w, m, n, i, p) ==
  /\ MapOK(w, n)
  /\ i \notin LiveIn(m, n) /\ LiveIn(w, n) = LiveIn(m, n) \cup {i}
  /\ FreeIn(w, n) = FreeIn(m, n) \ {i} /\ DeletedIn(w, n) = DeletedIn(m, n) \ {i}
  /\ PortsIn(w, n) = PortsIn(m, n) \cup {p}

LEMMA PutKeeps ==
  ASSUME NEW m, NEW n, NEW p, NEW S, Fits(m, n, p, S)
  PROVE  /\ SlotFor(p, n, S) \in S
         /\ Entered(Put(m, SlotFor(p, n, S), p), m, n, SlotFor(p, n, S), p)
<1> DEFINE i == SlotFor(p, n, S)
           w == Put(m, i, p)
<1>1. /\ n \in Nat /\ n >= 4 /\ m \in [0 .. n - 1 -> Nat]
      /\ Distinct(m, n) /\ Reached(m, n)
      /\ p \in Nat /\ p \notin Markers /\ p \notin PortsIn(m, n)
      /\ S # {} /\ FreeIn(m, n) \subseteq S /\ S \subseteq FreeIn(m, n) \cup DeletedIn(m, n)
  BY DEF Fits, MapOK
<1>2. p % n \in 0 .. n - 1 /\ S \subseteq 0 .. n - 1
  BY <1>1, Home DEF FreeIn, DeletedIn
<1>3. i \in S /\ \A k \in S : k # i => Distance(p % n, i, n) < Distance(p % n, k, n)
  BY <1>1, <1>2, ProbeFinds DEF SlotFor
<1> HIDE DEF i
<1>4. i \in 0 .. n - 1 /\ m[i] \in Markers
  BY <1>1, <1>2, <1>3 DEF FreeIn, DeletedIn, Markers
<1>5. /\ w \in [0 .. n - 1 -> Nat] /\ w[i] = p
      /\ \A k \in 0 .. n - 1 : k # i => w[k] = m[k]
  BY <1>1, <1>4 DEF Put
<1> HIDE DEF w
<1>6. /\ i \notin LiveIn(m, n) /\ LiveIn(w, n) = LiveIn(m, n) \cup {i}
      /\ FreeIn(w, n) = FreeIn(m, n) \ {i} /\ DeletedIn(w, n) = DeletedIn(m, n) \ {i}
  BY <1>1, <1>4, <1>5 DEF LiveIn, FreeIn, DeletedIn, Markers
<1>7. \A k \in LiveIn(m, n) : k \in 0 .. n - 1 /\ k # i /\ w[k] = m[k] /\ m[k] # p
  BY <1>1, <1>5, <1>6 DEF LiveIn, PortsIn
<1>8. PortsIn(w, n) = PortsIn(m, n) \cup {p}
  <2>1. ASSUME NEW q \in PortsIn(w, n) PROVE q \in PortsIn(m, n) \cup {p}
    <3>1. PICK k \in LiveIn(w, n) : q = w[k]
      BY DEF PortsIn
    <3> QED BY <1>5, <1>6, <1>7, <3>1 DEF PortsIn
  <2>2. ASSUME NEW q \in PortsIn(m, n) PROVE q \in PortsIn(w, n)
    <3>1. PICK k \in LiveIn(m, n) : q = m[k]
      BY DEF PortsIn
    <3>2. k \in LiveIn(w, n) /\ q = w[k]
      BY <1>6, <1>7, <3>1
    <3> QED BY <3>2 DEF PortsIn
  <2>3. p \in PortsIn(w, n)
    BY <1>5, <1>6 DEF PortsIn
  <2> QED BY <2>1, <2>2, <2>3
<1>9. ASSUME NEW j \in LiveIn(w, n), NEW k \in LiveIn(w, n), w[j] = w[k] PROVE j = k
  <2>1. CASE j = i \/ k = i
    BY <1>5, <1>6, <1>7, <1>9, <2>1
  <2>2. CASE j # i /\ k # i
    BY <1>1, <1>6, <1>7, <1>9, <2>2 DEF Distinct
  <2> QED BY <2>1, <2>2
<1>10. ASSUME NEW j \in LiveIn(w, n), NEW k \in 0 .. n - 1,
              Distance(w[j] % n, k, n) < Distance(w[j] % n, j, n)
       PROVE  w[k] # kFreePort
  <2>1. CASE k = i
    BY <1>1, <1>5, <2>1 DEF Markers
  <2>2. CASE k # i /\ j # i
    BY <1>1, <1>5, <1>6, <1>7, <1>10, <2>2 DEF Reached
  <2>3. CASE k # i /\ j = i
    <3>1. Distance(p % n, k, n) < Distance(p % n, i, n)
      BY <1>5, <1>10, <2>3
    <3>2. Distance(p % n, k, n) \in Nat /\ Distance(p % n, i, n) \in Nat
      BY <1>1, <1>2, <1>4, DistanceFacts
    <3>3. ~(Distance(p % n, i, n) < Distance(p % n, k, n))
      BY <3>1, <3>2, SMT
    <3>4. k \notin S
      BY <1>3, <2>3, <3>3
    <3> QED BY <1>1, <1>5, <2>3, <3>4 DEF FreeIn
  <2> QED BY <2>1, <2>2, <2>3
<1>11. MapOK(w, n)
  BY <1>1, <1>5, <1>9, <1>10 DEF MapOK, Distinct, Reached
<1>12. Entered(w, m, n, i, p)
  BY <1>6, <1>8, <1>11 DEF Entered
<1> QED BY <1>3, <1>12 DEF i, w

-----------------------------------------------------------------------------
(* Moving all entries to a new map, as Rehash does *)

\* What Rehash does for slot k - 1 of s, with the new map m.
MoveOne(s, n, m, k) ==
  IF k - 1 \in Live(s)
    THEN [m EXCEPT ![FirstFrom(s.map[k - 1] % n, FreeIn(m, n), n)] = s.map[k - 1]]
    ELSE m

NoPort(n) == [i \in 0 .. n - 1 |-> kFreePort]

\* g holds the new map after each slot up to c.
Moves(g, s, n, c) ==
  g = [k \in 0 .. c |-> IF k = 0 THEN NoPort(n) ELSE MoveOne(s, n, g[k - 1], k)]

LEMMA MovesExists ==
  ASSUME NEW s, NEW n, NEW c \in Nat
  PROVE  \E g : Moves(g, s, n, c)
<1> DEFINE S == {k \in Nat : \E g : Moves(g, s, n, k)}
<1>1. 0 \in S
  <2> DEFINE g == [k \in 0 .. 0 |-> NoPort(n)]
  <2>1. \A k \in 0 .. 0 : k = 0
    BY SMT
  <2>2. g = [k \in 0 .. 0 |-> IF k = 0 THEN NoPort(n) ELSE MoveOne(s, n, g[k - 1], k)]
    BY <2>1
  <2>3. 0 \in Nat
    BY SMT
  <2> QED BY <2>2, <2>3 DEF Moves
<1>2. ASSUME NEW c1 \in 0 .. c - 1, c1 \in S PROVE c1 + 1 \in S
  <2>1. PICK g : Moves(g, s, n, c1)
    BY <1>2
  <2> DEFINE d == c1 + 1
             h == [k \in 0 .. d |-> IF k = d THEN MoveOne(s, n, g[c1], d) ELSE g[k]]
  <2>2. /\ d \in Nat /\ d # 0 /\ d - 1 = c1 /\ c1 \in 0 .. d /\ c1 # d
        /\ \A k \in 0 .. d : k # d => k \in 0 .. c1
        /\ \A k \in 0 .. d : k # d /\ k # 0 => k - 1 \in 0 .. d /\ k - 1 # d
    BY SMT
  <2> HIDE DEF d
  <2>3. \A k \in 0 .. d : h[k] = IF k = d THEN MoveOne(s, n, g[c1], d) ELSE g[k]
    OBVIOUS
  <2>4. h = [k \in 0 .. d |-> h[k]]
    OBVIOUS
  <2> HIDE DEF h
  <2>5. \A k \in 0 .. c1 : g[k] = IF k = 0 THEN NoPort(n) ELSE MoveOne(s, n, g[k - 1], k)
    BY <2>1 DEF Moves
  <2>6. ASSUME NEW k \in 0 .. d
        PROVE  h[k] = IF k = 0 THEN NoPort(n) ELSE MoveOne(s, n, h[k - 1], k)
    <3>1. CASE k = d
      <4>1. h[c1] = g[c1]
        BY <2>2, <2>3
      <4> QED BY <2>2, <2>3, <3>1, <4>1
    <3>2. CASE k # d /\ k = 0
      BY <2>2, <2>3, <2>5, <3>2
    <3>3. CASE k # d /\ k # 0
      <4>1. h[k - 1] = g[k - 1]
        BY <2>2, <2>3, <3>3
      <4>2. g[k] = MoveOne(s, n, g[k - 1], k)
        BY <2>2, <2>5, <3>3
      <4> QED BY <2>3, <3>3, <4>1, <4>2
    <3> QED BY <3>1, <3>2, <3>3
  <2>7. h = [k \in 0 .. d |-> IF k = 0 THEN NoPort(n) ELSE MoveOne(s, n, h[k - 1], k)]
    BY <2>4, <2>6
  <2> QED BY <2>2, <2>7 DEF Moves, d
<1>3. c \in S
  <2> HIDE DEF S
  <2> QED BY <1>1, <1>2, UpTo
<1> QED BY <1>3

LEMMA RehashMoves ==
  ASSUME NEW s, NEW n, s.capacity \in Nat
  PROVE  \E g : /\ Moves(g, s, n, s.capacity)
               /\ Rehash(s, n) = [capacity |-> n, map |-> g[s.capacity], used |-> s.used,
                                   deleted |-> 0]
<1> DEFINE moved[k \in 0 .. s.capacity] ==
             IF k = 0 THEN [i \in 0 .. n - 1 |-> kFreePort]
             ELSE IF k - 1 \in Live(s)
               THEN LET m == moved[k - 1]
                        free == {i \in 0 .. n - 1 : m[i] = kFreePort}
                        port == s.map[k - 1]
                    IN  [m EXCEPT ![FirstFrom(port % n, free, n)] = port]
               ELSE moved[k - 1]
<1>1. Rehash(s, n) = [capacity |-> n, map |-> moved[s.capacity], used |-> s.used,
                      deleted |-> 0]
  BY DEF Rehash
<1>2. \E g : Moves(g, s, n, s.capacity)
  BY MovesExists
<1>3. \E g : g = [k \in 0 .. s.capacity |->
             IF k = 0 THEN [i \in 0 .. n - 1 |-> kFreePort]
             ELSE IF k - 1 \in Live(s)
               THEN LET m == g[k - 1]
                        free == {i \in 0 .. n - 1 : m[i] = kFreePort}
                        port == s.map[k - 1]
                    IN  [m EXCEPT ![FirstFrom(port % n, free, n)] = port]
               ELSE g[k - 1]]
  BY <1>2 DEF Moves, MoveOne, NoPort, FreeIn
<1>4. moved = [k \in 0 .. s.capacity |->
             IF k = 0 THEN [i \in 0 .. n - 1 |-> kFreePort]
             ELSE IF k - 1 \in Live(s)
               THEN LET m == moved[k - 1]
                        free == {i \in 0 .. n - 1 : m[i] = kFreePort}
                        port == s.map[k - 1]
                    IN  [m EXCEPT ![FirstFrom(port % n, free, n)] = port]
               ELSE moved[k - 1]]
  BY <1>3
<1> HIDE DEF moved
<1>5. Moves(moved, s, n, s.capacity)
  BY <1>4 DEF Moves, MoveOne, NoPort, FreeIn
<1> QED BY <1>1, <1>5

-----------------------------------------------------------------------------
(* Counting slots *)

LEMMA SlotCount ==
  ASSUME NEW n \in Nat, NEW S, S \subseteq 0 .. n - 1
  PROVE  /\ IsFiniteSet(0 .. n - 1) /\ Cardinality(0 .. n - 1) = n
         /\ IsFiniteSet(S) /\ Cardinality(S) \in Nat /\ Cardinality(S) <= n
<1>1. IsFiniteSet(0 .. n - 1) /\ Cardinality(0 .. n - 1) = n
  <2>1. 0 \in Int /\ n - 1 \in Int /\ (0 > n - 1 => n = 0) /\ (n - 1) - 0 + 1 = n
    BY SMT
  <2>2. Cardinality(0 .. n - 1) = IF 0 > n - 1 THEN 0 ELSE (n - 1) - 0 + 1
    BY <2>1, FS_Interval
  <2> QED BY <2>1, <2>2, FS_Interval
<1>2. IsFiniteSet(S) /\ Cardinality(S) <= Cardinality(0 .. n - 1)
  BY <1>1, FS_Subset
<1> QED BY <1>1, <1>2, FS_CardinalityType

LEMMA SlotsAddUp ==
  ASSUME NEW n \in Nat, NEW m
  PROVE  Cardinality(LiveIn(m, n)) + Cardinality(FreeIn(m, n)) + Cardinality(DeletedIn(m, n)) = n
<1> DEFINE L == LiveIn(m, n)
           F == FreeIn(m, n)
           D == DeletedIn(m, n)
<1>1. L \subseteq 0 .. n - 1 /\ F \subseteq 0 .. n - 1 /\ D \subseteq 0 .. n - 1
      /\ F \cup D \subseteq 0 .. n - 1
  BY DEF LiveIn, FreeIn, DeletedIn
<1>2. 0 .. n - 1 = L \cup (F \cup D) /\ L \cap (F \cup D) = {} /\ F \cap D = {}
  <2>1. kFreePort # kDeletedPort
    BY SMT DEF kFreePort, kDeletedPort
  <2> QED BY <2>1 DEF LiveIn, FreeIn, DeletedIn, Markers
<1> HIDE DEF L, F, D
<1>3. /\ IsFiniteSet(L) /\ IsFiniteSet(F) /\ IsFiniteSet(D) /\ IsFiniteSet(F \cup D)
      /\ Cardinality(L) \in Nat /\ Cardinality(F) \in Nat /\ Cardinality(D) \in Nat
      /\ Cardinality(F \cup D) \in Nat /\ Cardinality(0 .. n - 1) = n
  BY <1>1, SlotCount
<1>4. Cardinality({}) = 0
  BY FS_EmptySet
<1>5. Cardinality(F \cup D) = Cardinality(F) + Cardinality(D)
  <2>1. Cardinality(F \cup D) = Cardinality(F) + Cardinality(D) - Cardinality(F \cap D)
    BY <1>3, FS_Union
  <2>2. Cardinality(F \cap D) = 0
    BY <1>2, <1>4
  <2> QED BY <1>3, <2>1, <2>2, SMT
<1>6. n = Cardinality(L) + Cardinality(F \cup D)
  <2> DEFINE U == F \cup D
  <2>1. IsFiniteSet(L) /\ IsFiniteSet(U)
    BY <1>3
  <2>2. L \cup U = 0 .. n - 1 /\ L \cap U = {}
    BY <1>2
  <2> HIDE DEF U
  <2>3. Cardinality(L \cup U) = Cardinality(L) + Cardinality(U) - Cardinality(L \cap U)
    BY <2>1, FS_Union
  <2>4. Cardinality(L \cup U) = n /\ Cardinality(L \cap U) = 0
    BY <1>3, <1>4, <2>2
  <2>5. Cardinality(L) \in Nat /\ Cardinality(U) \in Nat
    BY <1>3 DEF U
  <2> QED BY <2>3, <2>4, <2>5, SMT DEF U
<1>7. Cardinality(L) + Cardinality(F) + Cardinality(D) = n
  BY <1>3, <1>5, <1>6, SMT
<1> QED BY <1>7 DEF L, F, D

\* A map with fewer than n live and deleted entries has a free slot.
LEMMA HasFree ==
  ASSUME NEW n \in Nat, NEW m, Cardinality(LiveIn(m, n)) + Cardinality(DeletedIn(m, n)) < n
  PROVE  FreeIn(m, n) # {}
<1>1. /\ LiveIn(m, n) \subseteq 0 .. n - 1 /\ FreeIn(m, n) \subseteq 0 .. n - 1
      /\ DeletedIn(m, n) \subseteq 0 .. n - 1
  BY DEF LiveIn, FreeIn, DeletedIn
<1>2. /\ Cardinality(LiveIn(m, n)) \in Nat /\ Cardinality(FreeIn(m, n)) \in Nat
      /\ Cardinality(DeletedIn(m, n)) \in Nat
  BY <1>1, SlotCount
<1>3. Cardinality(FreeIn(m, n)) # 0
  BY <1>2, SlotsAddUp, SMT
<1> QED BY <1>3, FS_EmptySet

-----------------------------------------------------------------------------
(* Tables *)

Maps == UNION {[0 .. n - 1 -> Nat] : n \in Nat}

Tables == [capacity : Nat, map : Maps, used : Nat, deleted : Nat]

\* The ports a table has entries for.
PortsOf(s) == {s.map[i] : i \in Live(s)}

\* A table whose counters are exact and whose entries are found.
TableOK(s) ==
  /\ s \in Tables /\ MapOK(s.map, s.capacity)
  /\ s.used = Cardinality(Live(s)) /\ s.deleted = Cardinality(Deleted(s))

LEMMA TableSlots ==
  ASSUME NEW s
  PROVE  /\ Live(s) = LiveIn(s.map, s.capacity) /\ Free(s) = FreeIn(s.map, s.capacity)
         /\ Deleted(s) = DeletedIn(s.map, s.capacity)
         /\ PortsOf(s) = PortsIn(s.map, s.capacity)
<1>1. Live(s) = LiveIn(s.map, s.capacity)
  BY DEF Live, LiveIn, Slots, Markers
<1>2. Free(s) = FreeIn(s.map, s.capacity) /\ Deleted(s) = DeletedIn(s.map, s.capacity)
  BY DEF Free, Deleted, Holding, Slots, FreeIn, DeletedIn
<1> QED BY <1>1, <1>2 DEF PortsOf, PortsIn

\* A table put together from a map and counters.
Table(n, m, u, d) == [capacity |-> n, map |-> m, used |-> u, deleted |-> d]

LEMMA TableFields ==
  ASSUME NEW n, NEW m, NEW u, NEW d
  PROVE  /\ Table(n, m, u, d).capacity = n /\ Table(n, m, u, d).map = m
         /\ Table(n, m, u, d).used = u /\ Table(n, m, u, d).deleted = d
  BY DEF Table

LEMMA TableMade ==
  ASSUME NEW n, NEW m, MapOK(m, n), NEW u, NEW d,
         u = Cardinality(LiveIn(m, n)), d = Cardinality(DeletedIn(m, n))
  PROVE  /\ TableOK(Table(n, m, u, d))
         /\ Free(Table(n, m, u, d)) = FreeIn(m, n)
         /\ PortsOf(Table(n, m, u, d)) = PortsIn(m, n)
<1> DEFINE s == Table(n, m, u, d)
<1>1. s.capacity = n /\ s.map = m /\ s.used = u /\ s.deleted = d
  BY DEF Table
<1>2. /\ Live(s) = LiveIn(m, n) /\ Free(s) = FreeIn(m, n) /\ Deleted(s) = DeletedIn(m, n)
      /\ PortsOf(s) = PortsIn(m, n)
  BY <1>1, TableSlots
<1>3. n \in Nat /\ m \in [0 .. n - 1 -> Nat]
  BY DEF MapOK
<1>4. u \in Nat /\ d \in Nat
  <2>1. LiveIn(m, n) \subseteq 0 .. n - 1 /\ DeletedIn(m, n) \subseteq 0 .. n - 1
    BY DEF LiveIn, DeletedIn
  <2> QED BY <1>3, <2>1, SlotCount
<1>5. m \in Maps
  BY <1>3 DEF Maps
<1>6. s \in Tables
  BY <1>3, <1>4, <1>5 DEF Tables, Table
<1> HIDE DEF s
<1>7. TableOK(s)
  BY <1>1, <1>2, <1>6 DEF TableOK
<1> QED BY <1>2, <1>7 DEF s

LEMMA TableFacts ==
  ASSUME NEW s, TableOK(s)
  PROVE  /\ s = Table(s.capacity, s.map, s.used, s.deleted)
         /\ s.capacity \in Nat /\ s.capacity >= 4 /\ s.used \in Nat /\ s.deleted \in Nat
         /\ s.map \in [0 .. s.capacity - 1 -> Nat]
         /\ MapOK(s.map, s.capacity)
         /\ s.used = Cardinality(LiveIn(s.map, s.capacity))
         /\ s.deleted = Cardinality(DeletedIn(s.map, s.capacity))
<1>1. s \in Tables /\ MapOK(s.map, s.capacity)
  BY DEF TableOK
<1>2. s = Table(s.capacity, s.map, s.used, s.deleted)
  BY <1>1 DEF Tables, Table
<1>3. s.used \in Nat /\ s.deleted \in Nat
  BY <1>1 DEF Tables
<1> QED BY <1>1, <1>2, <1>3, TableSlots DEF TableOK, MapOK

LEMMA NewTableOK ==
  ASSUME NEW n \in Nat, n >= 4
  PROVE  TableOK(NewTable(n)) /\ Free(NewTable(n)) # {} /\ PortsOf(NewTable(n)) = {}
<1> DEFINE m == NoPort(n)
<1>1. m \in [0 .. n - 1 -> Nat] /\ \A i \in 0 .. n - 1 : m[i] = kFreePort
  <2>1. kFreePort \in Nat
    BY SMT DEF kFreePort
  <2> QED BY <2>1 DEF NoPort
<1>2. NewTable(n) = Table(n, m, 0, 0)
  BY DEF NewTable, NoPort, Table
<1> HIDE DEF m
<1>3. kFreePort # kDeletedPort /\ 0 \in 0 .. n - 1
  BY SMT DEF kFreePort, kDeletedPort
<1>4. /\ LiveIn(m, n) = {} /\ DeletedIn(m, n) = {} /\ FreeIn(m, n) # {}
      /\ PortsIn(m, n) = {}
  BY <1>1, <1>3 DEF LiveIn, FreeIn, DeletedIn, PortsIn, Markers
<1>5. MapOK(m, n)
  BY <1>1, <1>4 DEF MapOK, Distinct, Reached
<1>6. Cardinality({}) = 0
  BY FS_EmptySet
<1> QED BY <1>2, <1>4, <1>5, <1>6, TableMade

-----------------------------------------------------------------------------
(* Rehash *)

\* The live slots of s before slot k.
Before(s, k) == {j \in Live(s) : j < k}

\* The map after the entries before slot k have been moved.
Moved(m, s, n, k) ==
  /\ MapOK(m, n) /\ DeletedIn(m, n) = {}
  /\ PortsIn(m, n) = {s.map[j] : j \in Before(s, k)}
  /\ Cardinality(LiveIn(m, n)) = Cardinality(Before(s, k))

LEMMA MoveOneKeeps ==
  ASSUME NEW s, TableOK(s), NEW n \in Nat, n >= 4, s.used < n,
         NEW k \in 0 .. s.capacity - 1, NEW m, Moved(m, s, n, k)
  PROVE  Moved(MoveOne(s, n, m, k + 1), s, n, k + 1)
<1>1. /\ s.capacity \in Nat /\ s.map \in [0 .. s.capacity - 1 -> Nat]
      /\ Distinct(s.map, s.capacity) /\ Live(s) = LiveIn(s.map, s.capacity)
      /\ s.used = Cardinality(Live(s)) /\ s.used \in Nat
      /\ Live(s) \subseteq 0 .. s.capacity - 1
  BY TableFacts, TableSlots DEF MapOK, LiveIn
<1>2. (k + 1) - 1 = k /\ k + 1 \in Nat /\ k \in Nat
  BY SMT
<1>3. CASE k \notin Live(s)
  <2>1. MoveOne(s, n, m, k + 1) = m
    BY <1>2, <1>3 DEF MoveOne
  <2>2. \A j \in 0 .. s.capacity - 1 : j # k => (j < k + 1 <=> j < k)
    BY SMT
  <2>3. Before(s, k + 1) = Before(s, k)
    BY <1>1, <1>3, <2>2 DEF Before
  <2> QED BY <2>1, <2>3 DEF Moved
<1>4. CASE k \in Live(s)
  <2> DEFINE p == s.map[k]
             i == SlotFor(p, n, FreeIn(m, n))
             w == Put(m, i, p)
  <2>1. w = MoveOne(s, n, m, k + 1)
    BY <1>2, <1>4 DEF MoveOne, Put, SlotFor
  <2>2. p \in Nat /\ p \notin Markers
    BY <1>1, <1>4 DEF LiveIn
  <2>3. /\ Before(s, k + 1) = Before(s, k) \cup {k} /\ k \notin Before(s, k)
        /\ Before(s, k) \subseteq Live(s) \ {k}
    <3>1. \A j \in 0 .. s.capacity - 1 : (j < k + 1 <=> j < k \/ j = k) /\ ~(k < k)
      BY SMT
    <3> QED BY <1>1, <1>4, <3>1 DEF Before
  <2>4. p \notin PortsIn(m, n)
    <3>1. \A j \in Before(s, k) : s.map[j] # p
      BY <1>1, <1>4, <2>3 DEF Distinct
    <3> QED BY <3>1 DEF Moved
  <2>5. /\ IsFiniteSet(Live(s)) /\ IsFiniteSet(Live(s) \ {k}) /\ IsFiniteSet(Before(s, k))
        /\ Cardinality(Before(s, k)) <= Cardinality(Live(s) \ {k})
        /\ Cardinality(Live(s) \ {k}) = Cardinality(Live(s)) - 1
        /\ Cardinality(Before(s, k)) \in Nat
        /\ Cardinality(Before(s, k + 1)) = Cardinality(Before(s, k)) + 1
    <3>1. IsFiniteSet(Live(s))
      BY <1>1, SlotCount
    <3>2. /\ IsFiniteSet(Live(s) \ {k})
          /\ Cardinality(Live(s) \ {k}) = Cardinality(Live(s)) - 1
      BY <1>4, <3>1, FS_RemoveElement
    <3>3. IsFiniteSet(Before(s, k)) /\ Cardinality(Before(s, k)) <= Cardinality(Live(s) \ {k})
      BY <2>3, <3>2, FS_Subset
    <3>4. Cardinality(Before(s, k + 1)) = Cardinality(Before(s, k)) + 1
      BY <2>3, <3>3, FS_AddElement
    <3> QED BY <3>1, <3>2, <3>3, <3>4, FS_CardinalityType
  <2>6. FreeIn(m, n) # {}
    <3>1. Cardinality(DeletedIn(m, n)) = 0
      BY FS_EmptySet DEF Moved
    <3>2. Cardinality(LiveIn(m, n)) = Cardinality(Before(s, k))
      BY DEF Moved
    <3>3. Cardinality(LiveIn(m, n)) + Cardinality(DeletedIn(m, n)) < n
      BY <1>1, <2>5, <3>1, <3>2, SMT
    <3> QED BY <3>3, HasFree
  <2> HIDE DEF p
  <2>7. /\ MapOK(w, n) /\ i \notin LiveIn(m, n) /\ LiveIn(w, n) = LiveIn(m, n) \cup {i}
        /\ DeletedIn(w, n) = DeletedIn(m, n) \ {i}
        /\ PortsIn(w, n) = PortsIn(m, n) \cup {p}
    <3>1. Fits(m, n, p, FreeIn(m, n))
      BY <2>2, <2>4, <2>6 DEF Fits, Moved
    <3>2. Entered(w, m, n, i, p)
      BY <3>1, PutKeeps
    <3> HIDE DEF i, w
    <3> QED BY <3>2 DEF Entered
  <2> HIDE DEF i, w
  <2>8. Cardinality(LiveIn(w, n)) = Cardinality(LiveIn(m, n)) + 1
    <3>1. IsFiniteSet(LiveIn(m, n))
      <4>1. LiveIn(m, n) \subseteq 0 .. n - 1
        BY DEF LiveIn
      <4> QED BY <4>1, SlotCount
    <3> QED BY <2>7, <3>1, FS_AddElement
  <2>9. PortsIn(w, n) = {s.map[j] : j \in Before(s, k + 1)}
    BY <2>3, <2>7 DEF Moved, p
  <2>10. DeletedIn(w, n) = {} /\ MapOK(w, n)
    BY <2>7 DEF Moved
  <2>11. Moved(w, s, n, k + 1)
    BY <2>5, <2>8, <2>9, <2>10 DEF Moved
  <2> QED BY <2>1, <2>11
<1> QED BY <1>3, <1>4

LEMMA RehashKeeps ==
  ASSUME NEW s, TableOK(s), NEW n \in Nat, n >= 4, s.used < n
  PROVE  /\ TableOK(Rehash(s, n)) /\ Free(Rehash(s, n)) # {}
         /\ PortsOf(Rehash(s, n)) = PortsOf(s)
<1> DEFINE c == s.capacity
<1>1. /\ c \in Nat /\ s.used \in Nat /\ s.used = Cardinality(Live(s))
      /\ Live(s) \subseteq 0 .. c - 1
  BY TableFacts, TableSlots DEF LiveIn
<1>2. PICK g : Moves(g, s, n, c) /\ Rehash(s, n) = Table(n, g[c], s.used, 0)
  BY <1>1, RehashMoves DEF Table
<1> HIDE DEF c
<1>3. /\ 0 \in 0 .. c /\ c \in 0 .. c
      /\ \A k \in 0 .. c - 1 : /\ k + 1 \in 0 .. c /\ k \in 0 .. c
                               /\ k + 1 # 0 /\ (k + 1) - 1 = k
  BY <1>1, SMT
<1>4. g[0] = NoPort(n) /\ \A k \in 0 .. c - 1 : g[k + 1] = MoveOne(s, n, g[k], k + 1)
  <2>1. \A k \in 0 .. c : g[k] = IF k = 0 THEN NoPort(n) ELSE MoveOne(s, n, g[k - 1], k)
    BY <1>2 DEF Moves
  <2>2. g[0] = NoPort(n)
    BY <1>3, <2>1
  <2>3. ASSUME NEW k \in 0 .. c - 1 PROVE g[k + 1] = MoveOne(s, n, g[k], k + 1)
    <3>1. k + 1 \in 0 .. c /\ k + 1 # 0 /\ (k + 1) - 1 = k
      BY <1>3
    <3>2. g[k + 1] = MoveOne(s, n, g[(k + 1) - 1], k + 1)
      BY <2>1, <3>1
    <3> QED BY <3>1, <3>2
  <2> QED BY <2>2, <2>3
<1> DEFINE S == {k \in Nat : Moved(g[k], s, n, k)}
<1>5. 0 \in S
  <2>1. Before(s, 0) = {}
    <3>1. \A j \in 0 .. c - 1 : ~(j < 0)
      BY SMT
    <3> QED BY <1>1, <3>1 DEF Before
  <2>2. /\ NewTable(n).map = NoPort(n) /\ NewTable(n).capacity = n
        /\ NewTable(n).used = 0 /\ NewTable(n).deleted = 0
    BY DEF NewTable, NoPort
  <2>3. /\ MapOK(NoPort(n), n) /\ PortsIn(NoPort(n), n) = {}
        /\ Cardinality(LiveIn(NoPort(n), n)) = 0 /\ Cardinality(DeletedIn(NoPort(n), n)) = 0
    BY <2>2, NewTableOK, TableFacts, TableSlots
  <2>4. DeletedIn(NoPort(n), n) = {} /\ Cardinality({}) = 0
    <3>1. IsFiniteSet(DeletedIn(NoPort(n), n))
      <4>1. DeletedIn(NoPort(n), n) \subseteq 0 .. n - 1
        BY DEF DeletedIn
      <4> QED BY <4>1, SlotCount
    <3> QED BY <2>3, <3>1, FS_EmptySet
  <2>5. 0 \in Nat
    BY SMT
  <2> QED BY <1>4, <2>1, <2>3, <2>4, <2>5 DEF Moved
<1>6. ASSUME NEW k \in 0 .. c - 1, k \in S PROVE k + 1 \in S
  <2>1. k + 1 \in Nat
    BY SMT
  <2> QED BY <1>4, <1>6, <2>1, MoveOneKeeps DEF c
<1>7. Moved(g[c], s, n, c)
  <2>1. c \in S
    <3> HIDE DEF S
    <3> QED BY <1>1, <1>5, <1>6, UpTo
  <2> QED BY <2>1
<1>8. Before(s, c) = Live(s)
  <2>1. \A j \in 0 .. c - 1 : j < c
    BY <1>1, SMT
  <2> QED BY <1>1, <2>1 DEF Before
<1>9. /\ MapOK(g[c], n) /\ s.used = Cardinality(LiveIn(g[c], n))
      /\ 0 = Cardinality(DeletedIn(g[c], n))
      /\ PortsIn(g[c], n) = PortsOf(s)
  BY <1>1, <1>7, <1>8, FS_EmptySet DEF Moved, PortsOf
<1>10. FreeIn(g[c], n) # {}
  <2>1. Cardinality(LiveIn(g[c], n)) + Cardinality(DeletedIn(g[c], n)) < n
    BY <1>1, <1>9, SMT
  <2> QED BY <2>1, HasFree
<1> QED BY <1>2, <1>9, <1>10, TableMade

\* Rehash or not, MaintainInvariants leaves a free slot and the same ports.
LEMMA MaintainKeeps ==
  ASSUME NEW s, TableOK(s)
  PROVE  /\ TableOK(MaintainInvariants(s)) /\ Free(MaintainInvariants(s)) # {}
         /\ PortsOf(MaintainInvariants(s)) = PortsOf(s)
<1> DEFINE c == s.capacity
<1>1. /\ c \in Nat /\ c >= 4 /\ s.used \in Nat /\ s.deleted \in Nat
      /\ s.used = Cardinality(LiveIn(s.map, c)) /\ s.deleted = Cardinality(DeletedIn(s.map, c))
  BY TableFacts
<1>2. s.used <= c
  <2>1. LiveIn(s.map, c) \subseteq 0 .. c - 1
    BY DEF LiveIn
  <2>2. c \in Nat
    BY <1>1
  <2> HIDE DEF c
  <2>3. Cardinality(LiveIn(s.map, c)) <= c
    BY <2>1, <2>2, SlotCount
  <2> QED BY <1>1, <2>3
<1>3. CASE s.used > (c \div 4) * 3
  <2>1. MaintainInvariants(s) = Rehash(s, 2 * c)
    BY <1>3 DEF MaintainInvariants
  <2>2. 2 * c \in Nat /\ 2 * c >= 4 /\ s.used < 2 * c
    BY <1>1, <1>2, SMT
  <2> QED BY <2>1, <2>2, RehashKeeps
<1>4. CASE ~(s.used > (c \div 4) * 3) /\ Empty(s) < s.deleted
  <2>1. MaintainInvariants(s) = Rehash(s, c)
    BY <1>4 DEF MaintainInvariants
  <2>2. s.used < c
    <3> HIDE DEF c
    <3> QED BY <1>1, <1>4, SMT
  <2> QED BY <1>1, <2>1, <2>2, RehashKeeps
<1>5. CASE ~(s.used > (c \div 4) * 3) /\ ~(Empty(s) < s.deleted)
  <2>1. MaintainInvariants(s) = s
    BY <1>5 DEF MaintainInvariants
  <2>2. Empty(s) = c - s.used - s.deleted
    BY DEF Empty
  <2>3. s.used + s.deleted < c
    <3>1. ~(c - s.used - s.deleted < s.deleted)
      BY <1>5, <2>2
    <3> HIDE DEF c
    <3> QED BY <1>1, <1>5, <3>1, SMT
  <2>4. FreeIn(s.map, c) # {}
    BY <1>1, <2>3, HasFree
  <2> QED BY <2>1, <2>4, TableSlots
<1> QED BY <1>3, <1>4, <1>5

-----------------------------------------------------------------------------
(* FindIndexOfPort, Insert and Delete *)

Good(s) == TableOK(s) /\ Free(s) # {}

\* The probe for a port ends at its entry, or at a free slot if it has none.
LEMMA Finds ==
  ASSUME NEW s, Good(s), NEW p \in Nat, p \notin Markers
  PROVE  /\ Contains(s, p) <=> p \in PortsOf(s)
         /\ p \in PortsOf(s) => /\ FindIndexOfPort(s, p) \in Live(s)
                                /\ s.map[FindIndexOfPort(s, p)] = p
<1> DEFINE c == s.capacity
           m == s.map
           stop == Holding(s, {p, kFreePort})
           f == FirstFrom(p % c, stop, c)
<1>1. /\ c \in Nat /\ c >= 4 /\ m \in [0 .. c - 1 -> Nat]
      /\ Distinct(m, c) /\ Reached(m, c) /\ Free(s) # {}
      /\ Live(s) = LiveIn(m, c) /\ PortsOf(s) = PortsIn(m, c)
  BY TableFacts, TableSlots DEF Good, MapOK
<1>2. stop = {i \in 0 .. c - 1 : m[i] \in {p, kFreePort}}
  BY DEF Holding, Slots
<1>3. stop # {}
  BY <1>1 DEF Free, Holding
<1>4. p % c \in 0 .. c - 1
  BY <1>1, Home
<1>5. FindIndexOfPort(s, p) = IF m[f] = p THEN f ELSE c
  BY DEF FindIndexOfPort
<1> HIDE DEF c, m, stop
<1>6. f \in stop /\ \A k \in stop : k # f => Distance(p % c, f, c) < Distance(p % c, k, c)
  <2>1. stop \subseteq 0 .. c - 1
    BY <1>2
  <2> QED BY <1>1, <1>3, <1>4, <2>1, ProbeFinds
<1> HIDE DEF f
<1>7. f \in 0 .. c - 1 /\ (m[f] = p \/ m[f] = kFreePort)
  BY <1>2, <1>6
<1>8. f < c /\ ~(c < c)
  BY <1>1, <1>7, SMT
<1>9. CASE m[f] = p
  <2>1. FindIndexOfPort(s, p) = f /\ f \in LiveIn(m, c)
    BY <1>5, <1>7, <1>9 DEF LiveIn
  <2>2. p \in PortsIn(m, c)
    BY <1>9, <2>1 DEF PortsIn
  <2> QED BY <1>1, <1>8, <1>9, <2>1, <2>2 DEF Contains, c, m
<1>10. CASE m[f] # p
  <2>1. FindIndexOfPort(s, p) = c /\ m[f] = kFreePort
    BY <1>5, <1>7, <1>10
  <2>2. p \notin PortsIn(m, c)
    <3> SUFFICES ASSUME p \in PortsIn(m, c) PROVE FALSE
      OBVIOUS
    <3>1. PICK k \in LiveIn(m, c) : m[k] = p
      BY DEF PortsIn
    <3>2. k \in stop /\ k # f
      BY <1>2, <1>10, <3>1 DEF LiveIn
    <3>3. Distance(m[k] % c, f, c) < Distance(m[k] % c, k, c)
      BY <1>6, <3>1, <3>2
    <3> QED BY <1>1, <1>7, <2>1, <3>3 DEF Reached
  <2> QED BY <1>1, <1>8, <2>1, <2>2 DEF Contains, c
<1> QED BY <1>9, <1>10

\* What the two EXCEPTs of PortSet make of a table.
EntryMade(s, i, p, a, e, t) == [s EXCEPT !.map[i] = p, !.used = a, !.deleted = e] = t
MapReplaced(s, w, a, e, t) == [s EXCEPT !.map = w, !.used = a, !.deleted = e] = t

LEMMA EnterEntry ==
  ASSUME NEW n, NEW m, NEW u, NEW d, NEW i, NEW p, NEW a, NEW e, NEW s, s = Table(n, m, u, d)
  PROVE  EntryMade(s, i, p, a, e, Table(n, Put(m, i, p), a, e))
<1> DEFINE r1 == [s EXCEPT !.map[i] = p]
           r2 == [r1 EXCEPT !.used = a]
           r3 == [r2 EXCEPT !.deleted = e]
<1>1. [s EXCEPT !.map[i] = p, !.used = a, !.deleted = e] = r3
  BY SMT
<1>2. r1 = Table(n, Put(m, i, p), u, d)
  BY SMT DEF Table, Put
<1> HIDE DEF r1
<1>3. r2 = Table(n, Put(m, i, p), a, d)
  BY <1>2, SMT DEF Table
<1> HIDE DEF r2
<1>4. r3 = Table(n, Put(m, i, p), a, e)
  BY <1>3, SMT DEF Table
<1> QED BY <1>1, <1>4 DEF EntryMade

LEMMA ReplaceMap ==
  ASSUME NEW n, NEW m, NEW u, NEW d, NEW w, NEW a, NEW e, NEW s, s = Table(n, m, u, d)
  PROVE  MapReplaced(s, w, a, e, Table(n, w, a, e))
<1> DEFINE r1 == [s EXCEPT !.map = w]
           r2 == [r1 EXCEPT !.used = a]
           r3 == [r2 EXCEPT !.deleted = e]
<1>1. [s EXCEPT !.map = w, !.used = a, !.deleted = e] = r3
  BY SMT
<1>2. r1 = Table(n, w, u, d)
  BY SMT DEF Table
<1> HIDE DEF r1
<1>3. r2 = Table(n, w, a, d)
  BY <1>2, SMT DEF Table
<1> HIDE DEF r2
<1>4. r3 = Table(n, w, a, e)
  BY <1>3, SMT DEF Table
<1> QED BY <1>1, <1>4 DEF MapReplaced

LEMMA InsertKeeps ==
  ASSUME NEW s, Good(s), NEW p \in Nat, p \notin Markers, p \notin PortsOf(s)
  PROVE  Good(Insert(s, p)) /\ PortsOf(Insert(s, p)) = PortsOf(s) \cup {p}
<1> DEFINE c == s.capacity
           m == s.map
           S == FreeIn(m, c) \cup DeletedIn(m, c)
           i == SlotFor(p, c, S)
           d == IF m[i] = kDeletedPort THEN s.deleted - 1 ELSE s.deleted
           w == Put(m, i, p)
           t == Table(c, w, s.used + 1, d)
<1>1. /\ s = Table(c, m, s.used, s.deleted) /\ c \in Nat /\ MapOK(m, c)
      /\ s.used = Cardinality(LiveIn(m, c)) /\ s.deleted = Cardinality(DeletedIn(m, c))
      /\ Free(s) = FreeIn(m, c) /\ Deleted(s) = DeletedIn(m, c) /\ FreeIn(m, c) # {}
      /\ PortsOf(s) = PortsIn(m, c)
  BY TableFacts, TableSlots DEF Good
<1>2. Insert(s, p) = MaintainInvariants(t)
  <2>1. i = FirstFrom(p % c, Free(s) \cup Deleted(s), c)
    BY <1>1 DEF SlotFor
  <2>2. [s EXCEPT !.map[i] = p, !.used = @ + 1,
                  !.deleted = IF m[i] = kDeletedPort THEN @ - 1 ELSE @] = t
    <3> HIDE DEF i
    <3>1. [s EXCEPT !.map[i] = p, !.used = @ + 1,
                    !.deleted = IF m[i] = kDeletedPort THEN @ - 1 ELSE @]
            = [s EXCEPT !.map[i] = p, !.used = s.used + 1, !.deleted = d]
      OBVIOUS
    <3> HIDE DEF c, m, d
    <3>2. s = Table(c, m, s.used, s.deleted)
      BY <1>1
    <3>3. EntryMade(s, i, p, s.used + 1, d, t)
      BY <3>2, EnterEntry
    <3> QED BY <3>1, <3>3 DEF EntryMade
  <2> HIDE DEF i, t
  <2> QED BY <2>1, <2>2 DEF Insert
<1>3. Fits(m, c, p, S)
  BY <1>1 DEF Fits
<1>4. i \in S /\ Entered(w, m, c, i, p)
  <2> HIDE DEF S
  <2> QED BY <1>3, PutKeeps
<1> HIDE DEF t
<1>5. /\ MapOK(w, c) /\ i \notin LiveIn(m, c) /\ LiveIn(w, c) = LiveIn(m, c) \cup {i}
      /\ DeletedIn(w, c) = DeletedIn(m, c) \ {i}
      /\ PortsIn(w, c) = PortsIn(m, c) \cup {p}
  <2> HIDE DEF w, i
  <2> QED BY <1>4 DEF Entered
<1> HIDE DEF w, i, m, c
<1>6. IsFiniteSet(LiveIn(m, c)) /\ IsFiniteSet(DeletedIn(m, c))
  <2>1. LiveIn(m, c) \subseteq 0 .. c - 1 /\ DeletedIn(m, c) \subseteq 0 .. c - 1
    BY DEF LiveIn, DeletedIn
  <2> QED BY <1>1, <2>1, SlotCount
<1>7. Cardinality(LiveIn(w, c)) = s.used + 1
  <2>1. Cardinality(LiveIn(m, c) \cup {i})
          = IF i \in LiveIn(m, c) THEN Cardinality(LiveIn(m, c)) ELSE Cardinality(LiveIn(m, c)) + 1
    <3> HIDE DEF S
    <3> QED BY <1>6, FS_AddElement
  <2> QED BY <1>1, <1>5, <2>1
<1>8. Cardinality(DeletedIn(w, c)) = d
  <2>1. i \in DeletedIn(m, c) <=> m[i] = kDeletedPort
    BY <1>4 DEF DeletedIn, FreeIn
  <2>2. Cardinality(DeletedIn(m, c) \ {i})
          = IF i \in DeletedIn(m, c) THEN s.deleted - 1 ELSE s.deleted
    BY <1>1, <1>6, FS_RemoveElement
  <2> QED BY <1>5, <2>1, <2>2
<1>9. TableOK(t) /\ PortsOf(t) = PortsOf(s) \cup {p}
  <2> HIDE DEF d
  <2> QED BY <1>1, <1>5, <1>7, <1>8, TableMade DEF t
<1> QED BY <1>2, <1>9, MaintainKeeps DEF Good

LEMMA DeleteKeeps ==
  ASSUME NEW s, Good(s), NEW L, L \subseteq Live(s)
  PROVE  Good(Delete(s, L)) /\ PortsOf(Delete(s, L)) = {s.map[i] : i \in Live(s) \ L}
<1> DEFINE c == s.capacity
           m == s.map
           w == [i \in 0 .. c - 1 |-> IF i \in L THEN kDeletedPort ELSE m[i]]
           t == Table(c, w, s.used - Cardinality(L), s.deleted + Cardinality(L))
<1>1. /\ c \in Nat /\ c >= 4 /\ m \in [0 .. c - 1 -> Nat] /\ Distinct(m, c) /\ Reached(m, c)
      /\ s.used = Cardinality(LiveIn(m, c)) /\ s.deleted = Cardinality(DeletedIn(m, c))
      /\ FreeIn(m, c) # {} /\ Live(s) = LiveIn(m, c) /\ L \subseteq LiveIn(m, c)
  BY TableFacts, TableSlots DEF Good, MapOK
<1>2. Delete(s, L) = t
  <2>1. s = Table(c, m, s.used, s.deleted)
    BY TableFacts DEF Good
  <2>2. Slots(s) = 0 .. c - 1
    BY DEF Slots
  <2>3. Delete(s, L) = [s EXCEPT !.map = w, !.used = s.used - Cardinality(L),
                                 !.deleted = s.deleted + Cardinality(L)]
    BY <2>2 DEF Delete
  <2> HIDE DEF c, m, w
  <2>4. MapReplaced(s, w, s.used - Cardinality(L), s.deleted + Cardinality(L), t)
    BY <2>1, ReplaceMap
  <2> QED BY <2>3, <2>4 DEF MapReplaced
<1> HIDE DEF t, c, m
<1>3. /\ w \in [0 .. c - 1 -> Nat]
      /\ \A i \in 0 .. c - 1 : w[i] = IF i \in L THEN kDeletedPort ELSE m[i]
  <2>1. kDeletedPort \in Nat
    BY SMT DEF kDeletedPort
  <2> QED BY <1>1, <2>1
<1> HIDE DEF w
<1>4. kFreePort # kDeletedPort
  BY SMT DEF kFreePort, kDeletedPort
<1>5. /\ LiveIn(w, c) = LiveIn(m, c) \ L /\ FreeIn(w, c) = FreeIn(m, c)
      /\ DeletedIn(w, c) = DeletedIn(m, c) \cup L
  BY <1>1, <1>3, <1>4 DEF LiveIn, FreeIn, DeletedIn, Markers
<1>6. \A i \in LiveIn(w, c) : i \in LiveIn(m, c) /\ w[i] = m[i] /\ i \in 0 .. c - 1
  BY <1>3, <1>5 DEF LiveIn
<1>7. Distinct(w, c)
  BY <1>1, <1>6 DEF Distinct
<1>8. ASSUME NEW i \in LiveIn(w, c), NEW k \in 0 .. c - 1,
             Distance(w[i] % c, k, c) < Distance(w[i] % c, i, c)
      PROVE  w[k] # kFreePort
  <2>1. m[k] # kFreePort
    BY <1>1, <1>6, <1>8 DEF Reached
  <2> QED BY <1>3, <1>4, <2>1
<1>9. MapOK(w, c)
  BY <1>1, <1>3, <1>7, <1>8 DEF MapOK, Reached
<1>10. /\ IsFiniteSet(LiveIn(m, c)) /\ IsFiniteSet(DeletedIn(m, c)) /\ IsFiniteSet(L)
       /\ Cardinality(LiveIn(m, c)) \in Nat /\ Cardinality(DeletedIn(m, c)) \in Nat
       /\ Cardinality(L) \in Nat
  <2>1. /\ LiveIn(m, c) \subseteq 0 .. c - 1 /\ DeletedIn(m, c) \subseteq 0 .. c - 1
        /\ L \subseteq 0 .. c - 1 /\ c \in Nat
    BY <1>1 DEF LiveIn, DeletedIn
  <2>2. IsFiniteSet(LiveIn(m, c)) /\ Cardinality(LiveIn(m, c)) \in Nat
    BY <2>1, SlotCount
  <2>3. IsFiniteSet(DeletedIn(m, c)) /\ Cardinality(DeletedIn(m, c)) \in Nat
    BY <2>1, SlotCount
  <2>4. IsFiniteSet(L) /\ Cardinality(L) \in Nat
    BY <2>1, SlotCount
  <2> QED BY <2>2, <2>3, <2>4
<1>11. s.used - Cardinality(L) = Cardinality(LiveIn(w, c))
  <2>1. LiveIn(m, c) \cap L = L
    BY <1>1
  <2>2. Cardinality(LiveIn(m, c) \ L) = Cardinality(LiveIn(m, c)) - Cardinality(L)
    BY <1>10, <2>1, FS_Difference
  <2> QED BY <1>1, <1>5, <2>2
<1>12. s.deleted + Cardinality(L) = Cardinality(DeletedIn(w, c))
  <2>1. DeletedIn(m, c) \cap L = {}
    BY <1>1 DEF DeletedIn, LiveIn, Markers
  <2>2. Cardinality(DeletedIn(m, c) \cup L)
          = Cardinality(DeletedIn(m, c)) + Cardinality(L) - Cardinality({})
    BY <1>10, <2>1, FS_Union
  <2>3. Cardinality({}) = 0
    BY FS_EmptySet
  <2>4. Cardinality(DeletedIn(m, c) \cup L) = Cardinality(DeletedIn(m, c)) + Cardinality(L)
    BY <1>10, <2>2, <2>3, SMT
  <2> QED BY <1>1, <1>5, <2>4
<1>13. TableOK(t) /\ Free(t) # {} /\ PortsOf(t) = PortsIn(w, c)
  BY <1>1, <1>5, <1>9, <1>11, <1>12, TableMade DEF t
<1>14. PortsIn(w, c) = {m[i] : i \in LiveIn(m, c) \ L}
  BY <1>5, <1>6 DEF PortsIn
<1> QED BY <1>1, <1>2, <1>13, <1>14 DEF Good, m

\* Deleting the slots of some of a table's ports takes out just these ports.
LEMMA LookupDelete ==
  ASSUME NEW s, Good(s), NEW ps, ps \subseteq PortsOf(s), ps \subseteq Nat, ps \cap Markers = {}
  PROVE  /\ Good(Delete(s, Lookup(s, ps)))
         /\ PortsOf(Delete(s, Lookup(s, ps))) = PortsOf(s) \ ps
<1> DEFINE L == Lookup(s, ps)
<1>1. \A p \in ps : FindIndexOfPort(s, p) \in Live(s) /\ s.map[FindIndexOfPort(s, p)] = p
  BY Finds
<1>2. L \subseteq Live(s) /\ \A i \in L : s.map[i] \in ps
  BY <1>1 DEF Lookup
<1>3. \A i \in Live(s) : s.map[i] \in ps => i \in L
  <2>1. Distinct(s.map, s.capacity) /\ Live(s) = LiveIn(s.map, s.capacity)
    BY TableFacts, TableSlots DEF Good, MapOK
  <2>2. ASSUME NEW i \in Live(s), s.map[i] \in ps PROVE i \in L
    <3>1. i = FindIndexOfPort(s, s.map[i])
      BY <1>1, <2>1, <2>2 DEF Distinct
    <3> QED BY <2>2, <3>1 DEF Lookup
  <2> QED BY <2>2
<1> HIDE DEF L
<1>4. Good(Delete(s, L)) /\ PortsOf(Delete(s, L)) = {s.map[i] : i \in Live(s) \ L}
  BY <1>2, DeleteKeeps
<1>5. {s.map[i] : i \in Live(s) \ L} = PortsOf(s) \ ps
  BY <1>2, <1>3 DEF PortsOf
<1> QED BY <1>4, <1>5 DEF L

LEMMA RebalanceKeeps ==
  ASSUME NEW s, Good(s)
  PROVE  Good(Rebalance(s)) /\ PortsOf(Rebalance(s)) = PortsOf(s)
  BY MaintainKeeps DEF Good, Rebalance

-----------------------------------------------------------------------------
(* The two levels of tables *)

\* The markers are no ports.
LEMMA PortsAreNumbers == Ports \subseteq Nat /\ Ports \cap Markers = {}
<1>1. \A d \in Draws : \A h \in Handlers : d[h] \subseteq Nat
  <2>1. Draws \subseteq [Handlers -> SUBSET Nat]
    BY PortMapAssumption
  <2> QED BY <2>1
<1>2. Ports \subseteq Nat
  <2>1. \A p \in Ports : \E d \in Draws : \E h \in Handlers : p \in d[h]
    BY SMT DEF Ports
  <2> QED BY <1>1, <2>1
<1>3. \A p \in Ports : p % 4 = 3 /\ p # kDeletedPort
  BY PortMapAssumption
<1>4. \A p \in Nat : p % 4 = 3 => p # kFreePort
  BY SMT DEF kFreePort
<1> QED BY <1>2, <1>3, <1>4 DEF Markers

\* The open ports of a handler.
OpenOf(h) == {p \in DOMAIN handler : handler[p] = h}

\* Every table is in order and has a free slot; ports_ has an entry for each open
\* port, and the table of a handler one for each of its own.
TablesInv ==
  /\ draws \in Draws
  /\ DOMAIN handler \subseteq Ports /\ \A p \in DOMAIN handler : handler[p] \in Handlers
  /\ own = [h \in Handlers |-> own[h]]
  /\ Good(ports) /\ PortsOf(ports) = DOMAIN handler
  /\ \A h \in Handlers : Good(own[h]) /\ PortsOf(own[h]) = OpenOf(h)

\* A step that changes the table of all ports and that of one handler.
LEMMA OneHandlerChanges ==
  ASSUME TablesInv, NEW h \in Handlers, NEW x, draws' = draws, own' = [own EXCEPT ![h] = x],
         DOMAIN handler' \subseteq Ports, \A q \in DOMAIN handler' : handler'[q] \in Handlers,
         Good(ports'), PortsOf(ports') = DOMAIN handler', Good(x), PortsOf(x) = OpenOf(h)',
         \A g \in Handlers \ {h} : OpenOf(g)' = OpenOf(g)
  PROVE  TablesInv'
<1>1. /\ draws \in Draws /\ own = [g \in Handlers |-> own[g]]
      /\ \A g \in Handlers : Good(own[g]) /\ PortsOf(own[g]) = OpenOf(g)
  BY DEF TablesInv
<1>2. own' = [g \in Handlers |-> IF g = h THEN x ELSE own[g]]
  BY <1>1
<1>3. own' = [g \in Handlers |-> own'[g]] /\ own'[h] = x
  BY <1>2
<1>4. ASSUME NEW g \in Handlers PROVE Good(own'[g]) /\ PortsOf(own'[g]) = OpenOf(g)'
  <2>1. CASE g = h
    BY <1>3, <2>1
  <2>2. CASE g # h
    <3>1. own'[g] = own[g] /\ OpenOf(g)' = OpenOf(g)
      BY <1>2, <2>2
    <3> QED BY <1>1, <3>1
  <2> QED BY <2>1, <2>2
<1>5. draws' \in Draws
  BY <1>1
<1>6. Good(ports)' /\ PortsOf(ports)' = DOMAIN handler'
  OBVIOUS
<1>7. \A g \in Handlers : Good(own[g])' /\ PortsOf(own[g])' = OpenOf(g)'
  BY <1>4
<1> QED BY <1>3, <1>5, <1>6, <1>7 DEF TablesInv

LEMMA CreatePortKeeps ==
  ASSUME TablesInv, NEW h \in Handlers, NEW p \in Ports, CreatePort(h, p)
  PROVE  TablesInv'
<1>1. /\ ~Contains(ports, p) /\ own' = [own EXCEPT ![h] = Insert(own[h], p)]
      /\ ports' = Insert(ports, p) /\ draws' = draws
      /\ handler' = [q \in DOMAIN handler \cup {p} |-> IF q = p THEN h ELSE handler[q]]
  BY DEF CreatePort
<1>2. /\ DOMAIN handler \subseteq Ports /\ \A q \in DOMAIN handler : handler[q] \in Handlers
      /\ Good(ports) /\ PortsOf(ports) = DOMAIN handler
      /\ Good(own[h]) /\ PortsOf(own[h]) = OpenOf(h)
  BY DEF TablesInv
<1>3. p \in Nat /\ p \notin Markers
  BY PortsAreNumbers
<1>4. p \notin DOMAIN handler
  BY <1>1, <1>2, <1>3, Finds
<1>5. Good(ports') /\ PortsOf(ports') = DOMAIN handler \cup {p}
  BY <1>1, <1>2, <1>3, <1>4, InsertKeeps
<1>6. Good(Insert(own[h], p)) /\ PortsOf(Insert(own[h], p)) = OpenOf(h) \cup {p}
  <2>1. p \notin PortsOf(own[h])
    BY <1>2, <1>4 DEF OpenOf
  <2> QED BY <1>2, <1>3, <2>1, InsertKeeps
<1>7. /\ DOMAIN handler' = DOMAIN handler \cup {p} /\ handler'[p] = h
      /\ \A q \in DOMAIN handler : handler'[q] = handler[q]
  BY <1>1, <1>4
<1>8. OpenOf(h)' = OpenOf(h) \cup {p} /\ \A g \in Handlers \ {h} : OpenOf(g)' = OpenOf(g)
  BY <1>7 DEF OpenOf
<1>9. DOMAIN handler' \subseteq Ports /\ \A q \in DOMAIN handler' : handler'[q] \in Handlers
  BY <1>2, <1>7
<1> QED
  <2> DEFINE x == Insert(own[h], p)
  <2>1. own' = [own EXCEPT ![h] = x] /\ Good(x) /\ PortsOf(x) = OpenOf(h)'
    BY <1>1, <1>6, <1>8
  <2> HIDE DEF x
  <2>2. draws' = draws /\ PortsOf(ports') = DOMAIN handler'
    BY <1>1, <1>5, <1>7
  <2> QED BY <1>5, <1>8, <1>9, <2>1, <2>2, OneHandlerChanges

\* What Forget leaves.
LEMMA Forgets ==
  ASSUME TablesInv, NEW ps, Forget(ps)
  PROVE  /\ draws' = draws /\ DOMAIN handler' = DOMAIN handler \ ps
         /\ DOMAIN handler' \subseteq Ports
         /\ \A q \in DOMAIN handler' : handler'[q] = handler[q] /\ handler'[q] \in Handlers
         /\ \A g : OpenOf(g)' = OpenOf(g) \ ps
<1>1. draws' = draws /\ handler' = [q \in DOMAIN handler \ ps |-> handler[q]]
  BY DEF Forget
<1>2. /\ DOMAIN handler' = DOMAIN handler \ ps
      /\ \A q \in DOMAIN handler' : handler'[q] = handler[q]
  BY <1>1
<1>3. DOMAIN handler \subseteq Ports /\ \A q \in DOMAIN handler : handler[q] \in Handlers
  BY DEF TablesInv
<1>4. \A g : OpenOf(g)' = OpenOf(g) \ ps
  BY <1>2 DEF OpenOf
<1> QED BY <1>1, <1>2, <1>3, <1>4

LEMMA ClosePortKeeps ==
  ASSUME TablesInv, NEW p \in Ports, ClosePort(p)
  PROVE  TablesInv'
<1>1. Contains(ports, p) /\ ports' = Rebalance(Delete(ports, Lookup(ports, {p})))
  BY DEF ClosePort
<1>2. {p} \subseteq Nat /\ {p} \cap Markers = {} /\ p \in Nat /\ p \notin Markers
  BY PortsAreNumbers
<1>3. Good(ports) /\ PortsOf(ports) = DOMAIN handler
  BY DEF TablesInv
<1>4. p \in DOMAIN handler
  BY <1>1, <1>2, <1>3, Finds
<1>5. PICK h \in Handlers : h = handler[p]
  BY <1>4 DEF TablesInv
<1> DEFINE x == Rebalance(Delete(own[h], Lookup(own[h], {p})))
<1>6. own' = [own EXCEPT ![h] = x] /\ Forget({p})
  BY <1>5 DEF ClosePort
<1>7. Good(own[h]) /\ PortsOf(own[h]) = OpenOf(h) /\ p \in OpenOf(h)
  BY <1>4, <1>5 DEF TablesInv, OpenOf
<1>8. Good(ports') /\ PortsOf(ports') = DOMAIN handler \ {p}
  <2>1. {p} \subseteq PortsOf(ports)
    BY <1>3, <1>4
  <2>2. /\ Good(Delete(ports, Lookup(ports, {p})))
        /\ PortsOf(Delete(ports, Lookup(ports, {p}))) = DOMAIN handler \ {p}
    BY <1>2, <1>3, <2>1, LookupDelete
  <2> QED BY <1>1, <2>2, RebalanceKeeps
<1>9. Good(x) /\ PortsOf(x) = OpenOf(h) \ {p}
  <2>1. {p} \subseteq PortsOf(own[h])
    BY <1>7
  <2>2. /\ Good(Delete(own[h], Lookup(own[h], {p})))
        /\ PortsOf(Delete(own[h], Lookup(own[h], {p}))) = OpenOf(h) \ {p}
    BY <1>2, <1>7, <2>1, LookupDelete
  <2> QED BY <2>2, RebalanceKeeps
<1>10. /\ draws' = draws /\ DOMAIN handler' = DOMAIN handler \ {p}
       /\ DOMAIN handler' \subseteq Ports
       /\ \A q \in DOMAIN handler' : handler'[q] \in Handlers
       /\ \A g : OpenOf(g)' = OpenOf(g) \ {p}
  BY <1>6, Forgets
<1>11. \A g \in Handlers \ {h} : OpenOf(g)' = OpenOf(g)
  <2>1. \A g \in Handlers \ {h} : p \notin OpenOf(g)
    BY <1>5 DEF OpenOf
  <2> QED BY <1>10, <2>1
<1>12. PortsOf(x) = OpenOf(h)' /\ PortsOf(ports') = DOMAIN handler'
  BY <1>8, <1>9, <1>10
<1> HIDE DEF x
<1> QED BY <1>6, <1>8, <1>9, <1>10, <1>11, <1>12, OneHandlerChanges

LEMMA ClosePortsKeeps ==
  ASSUME TablesInv, NEW h \in Handlers, ClosePorts(h)
  PROVE  TablesInv'
<1> DEFINE ps == PortsOf(own[h])
           x == Delete(own[h], Live(own[h]))
<1>1. /\ ports' = Rebalance(Delete(ports, Lookup(ports, ps)))
      /\ own' = [own EXCEPT ![h] = x] /\ Forget(ps)
  BY DEF ClosePorts, PortsOf
<1>2. /\ Good(ports) /\ PortsOf(ports) = DOMAIN handler /\ DOMAIN handler \subseteq Ports
      /\ Good(own[h]) /\ ps = OpenOf(h)
  BY DEF TablesInv
<1>3. Good(x) /\ PortsOf(x) = {}
  <2>1. Live(own[h]) \ Live(own[h]) = {}
    OBVIOUS
  <2>2. Good(x) /\ PortsOf(x) = {own[h].map[i] : i \in Live(own[h]) \ Live(own[h])}
    BY <1>2, DeleteKeeps
  <2> QED BY <2>1, <2>2
<1> HIDE DEF ps, x
<1>4. ps \subseteq DOMAIN handler
  BY <1>2 DEF OpenOf
<1>5. Good(ports') /\ PortsOf(ports') = DOMAIN handler \ ps
  <2>1. ps \subseteq PortsOf(ports) /\ ps \subseteq Nat /\ ps \cap Markers = {}
    BY <1>2, <1>4, PortsAreNumbers
  <2>2. /\ Good(Delete(ports, Lookup(ports, ps)))
        /\ PortsOf(Delete(ports, Lookup(ports, ps))) = DOMAIN handler \ ps
    BY <1>2, <2>1, LookupDelete
  <2> QED BY <1>1, <2>2, RebalanceKeeps
<1>6. /\ draws' = draws /\ DOMAIN handler' = DOMAIN handler \ ps
      /\ DOMAIN handler' \subseteq Ports /\ \A q \in DOMAIN handler' : handler'[q] \in Handlers
      /\ \A g : OpenOf(g)' = OpenOf(g) \ ps
  BY <1>1, Forgets
<1>7. \A g \in Handlers \ {h} : OpenOf(g)' = OpenOf(g)
  <2>1. \A g \in Handlers \ {h} : OpenOf(g) \cap OpenOf(h) = {}
    BY DEF OpenOf
  <2> QED BY <1>2, <1>6, <2>1
<1>8. PortsOf(x) = OpenOf(h)' /\ PortsOf(ports') = DOMAIN handler'
  BY <1>2, <1>3, <1>5, <1>6
<1> QED BY <1>1, <1>3, <1>5, <1>6, <1>7, <1>8, OneHandlerChanges

LEMMA TablesInit == PortMapInit => TablesInv
<1> SUFFICES ASSUME PortMapInit PROVE TablesInv
  OBVIOUS
<1> DEFINE t == NewTable(InitialCapacity)
<1>1. /\ draws \in Draws /\ ports = t /\ handler = [p \in {} |-> 0]
      /\ own = [h \in Handlers |-> t]
  BY DEF PortMapInit
<1>2. Good(t) /\ PortsOf(t) = {}
  BY PortMapAssumption, NewTableOK DEF Good
<1> HIDE DEF t
<1>3. DOMAIN handler = {}
  BY <1>1
<1>4. \A h : OpenOf(h) = {}
  BY <1>3 DEF OpenOf
<1>5. own = [h \in Handlers |-> own[h]] /\ \A h \in Handlers : own[h] = t
  BY <1>1
<1> QED BY <1>1, <1>2, <1>3, <1>4, <1>5 DEF TablesInv

LEMMA TablesNext == TablesInv /\ [PortMapNext]_map_vars => TablesInv'
<1> SUFFICES ASSUME TablesInv, [PortMapNext]_map_vars PROVE TablesInv'
  OBVIOUS
<1>1. ASSUME NEW h \in Handlers, ClosePorts(h) PROVE TablesInv'
  BY <1>1, ClosePortsKeeps
<1>2. ASSUME NEW h \in Handlers, NEW p \in Ports, CreatePort(h, p) PROVE TablesInv'
  BY <1>2, CreatePortKeeps
<1>3. ASSUME NEW p \in Ports, ClosePort(p) PROVE TablesInv'
  BY <1>3, ClosePortKeeps
<1>4. CASE UNCHANGED map_vars
  <2>1. draws' = draws /\ ports' = ports /\ handler' = handler /\ own' = own
    BY <1>4 DEF map_vars
  <2> QED BY <2>1 DEF TablesInv, OpenOf
<1> QED BY <1>1, <1>2, <1>3, <1>4 DEF PortMapNext

LEMMA TablesStay == PortMapSpec => []TablesInv
  BY TablesInit, TablesNext, PTL DEF PortMapSpec

\* Every lookup of port_set.h is exact: whatever ports are opened and closed, both levels
\* of tables find the open ports and no others.
THEOREM EveryPortIsFound == PortMapSpec => []LookupIsExact
<1>1. TablesInv => LookupIsExact
  <2> SUFFICES ASSUME TablesInv, NEW p \in Ports
               PROVE  /\ Contains(ports, p) <=> p \in DOMAIN handler
                      /\ \A h \in Handlers :
                           Contains(own[h], p) <=> p \in DOMAIN handler /\ handler[p] = h
    BY DEF LookupIsExact
  <2>1. p \in Nat /\ p \notin Markers
    BY PortsAreNumbers
  <2>2. Contains(ports, p) <=> p \in DOMAIN handler
    <3>1. Good(ports) /\ PortsOf(ports) = DOMAIN handler
      BY DEF TablesInv
    <3> QED BY <2>1, <3>1, Finds
  <2>3. ASSUME NEW h \in Handlers
        PROVE  Contains(own[h], p) <=> p \in DOMAIN handler /\ handler[p] = h
    <3>1. Good(own[h]) /\ PortsOf(own[h]) = OpenOf(h)
      BY DEF TablesInv
    <3>2. Contains(own[h], p) <=> p \in PortsOf(own[h])
      BY <2>1, <3>1, Finds
    <3> QED BY <3>1, <3>2 DEF OpenOf
  <2> QED BY <2>2, <2>3
<1> QED BY <1>1, TablesStay, PTL

\* Every probe ends: MaintainInvariants leaves a free slot in each table, and ClosePorts
\* does without it; the counters it goes by are exact.
THEOREM EveryProbeEnds == PortMapSpec => []ProbesEnd
<1>1. \A s : Good(s) => WellFilled(s)
  BY DEF Good, TableOK, WellFilled
<1>2. TablesInv => ProbesEnd
  BY <1>1 DEF TablesInv, ProbesEnd
<1> QED BY <1>2, TablesStay, PTL

=============================================================================
