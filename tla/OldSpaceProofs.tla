--------------------------- MODULE OldSpaceProofs ---------------------------
(***************************************************************************)
(* Safety of OldSpace for any set of mutators, any finite set of marker    *)
(* tasks and any number of pages.                                          *)
(*                                                                         *)
(* The four invariants rest on one fact about the counters of tasks_lock_: *)
(* they count exactly the tasks that exist and the operation that has      *)
(* counted itself.  The rest says what each thread may rely on where it    *)
(* is; only the owner of the safepoint relies on anything.                 *)
(***************************************************************************)
EXTENDS OldSpace, FiniteSetTheorems, TLAPS

USE ZenonT(30)

Assisting == {"assist_regular", "assist_large"}
Past == Assisting \cup {"assist_mark", "gc_wait", "collect"}
Gc == Past \cup {"gc", "spawn", "wait_roots", "gc_end"}
Iterates == {"iterate", "iterate_final", "iterate_wait", "iterating"}
Critical ==
  Gc \cup Iterates
     \cup {"scavenge", "pausing", "scavenging", "cards", "scavenged", "reload_wait",
           "reloading", "alloc_try", "alloc_retry", "alloc", "alloc_last"}
Outside == {"idle", "want", "check", "wait_sweeper"}
PCs == Critical \cup Outside
Counted == {"collect", "spawn", "wait_roots", "gc_end", "iterating"}
Kinds == {"none", "old", "finalize", "start", "scavenge", "evacuate", "iterate",
          "reload", "alloc"}
Rets == {"idle", "check", "alloc_retry", "alloc_last", "iterate_wait",
         "reload_wait", "reloading"}
Calls == [kind : Kinds, compact : BOOLEAN, ret : Rets]
Unfinalized == {kMarking, kAwaitingFinalization}

SpaceOK ==
  /\ phase \in Unfinalized \cup Sweeping \cup {kDone}
  /\ tasks \in Nat /\ marker_tasks \in Nat /\ active \in Nat
  /\ pause \in {0, 1} /\ enabled \in BOOLEAN /\ marker \in BOOLEAN
  /\ task \in [Markers -> {"none", "new", "queued", "roots", "marking", "paused", "left"}]
  /\ sweeper \in {"none", "queued", "large", "regular", "left"}
  /\ sweep_large \in Nat /\ sweep_regular \in Nat
  /\ page \in [Mutators \cup {Sweeper} -> {"none", "regular", "large"}]
  /\ group \in {"alive", "closing", "deleted"}

TypeOK ==
  /\ SpaceOK
  /\ safepoint \in Mutators \cup {None}
  /\ pc \in [Mutators -> PCs] /\ call \in [Mutators -> Calls]

\* A thread is inside an operation exactly while the safepoint operation is its.
OwnerInside == \A t \in Mutators : pc[t] \in Critical <=> safepoint = t

Live == {m \in Markers : task[m] # "none"}
Running == {m \in Markers : task[m] \notin {"none", "paused"}}

\* The three counters of tasks_lock_ are exact.
CountsExact ==
  /\ marker_tasks = Cardinality(Live) /\ active = Cardinality(Running)
  /\ tasks = marker_tasks + (IF sweeper = "none" THEN 0 ELSE 1)
               + (IF \E t \in Mutators : pc[t] \in Counted THEN 1 ELSE 0)

\* phase_ and marker_ say what the tasks are at.
PhaseExact ==
  /\ phase = kMarking <=> Live # {}
  /\ phase = kSweepingLarge <=> sweeper \in {"queued", "large"}
  /\ phase = kSweepingRegular <=> sweeper \in {"regular", "left"}
  /\ group # "deleted" => (marker <=> phase \in Unfinalized)
  /\ group = "deleted" => tasks = 0

\* Where pages to sweep can be.
ListsPlaced ==
  /\ sweep_large # 0 => sweeper \in {"queued", "large"}
  /\ sweep_regular # 0 => sweeper \in {"queued", "large", "regular"}
  /\ page[Sweeper] = "large" => sweeper = "large"
  /\ page[Sweeper] = "regular" => sweeper = "regular"

\* What holds for a thread at p, in an operation of this kind that goes back to
\* ret, with the page pg.
Fits(p, kind, ret, pg) ==
  /\ pg # "none" => p \in Assisting
  /\ ret \notin {"idle", "check"} => p \in Gc /\ kind # "iterate"
  /\ p \in Iterates => kind = "iterate"
  /\ p \in {"pausing", "scavenging", "cards"} => pause = 1
  /\ p \in {"scavenging", "cards"} => active = 0
  /\ p = "cards" => phase # kSweepingLarge
  /\ p \in {"collect", "iterating"} => tasks = 1
  /\ p = "iterating" => phase = kDone
  /\ p \in Past /\ kind = "start" => enabled /\ phase \notin Unfinalized
  /\ p = "reloading" \/ ret = "reloading" => ~enabled /\ phase \notin Unfinalized
  /\ p # "idle" => group = "alive"

ThreadFits(t) == Fits(pc[t], call[t].kind, call[t].ret, page[t])

IInv ==
  /\ TypeOK /\ OwnerInside /\ CountsExact /\ PhaseExact /\ ListsPlaced
  /\ \A t \in Mutators : ThreadFits(t)

\* A thread at q, in the operation c, keeps what it relies on while nobody writes
\* the variables of Fits.
LEMMA FitsStays ==
  ASSUME NEW t, NEW q, NEW c, pc'[t] = q, call'[t] = c, page'[t] = page[t],
         pause' = pause, active' = active, phase' = phase, tasks' = tasks,
         enabled' = enabled, group' = group, Fits(q, c.kind, c.ret, page[t])
  PROVE  ThreadFits(t)'
  <1>1. Fits(pc'[t], call'[t].kind, call'[t].ret, page'[t])
    OBVIOUS
  <1> QED BY <1>1
          DEF ThreadFits, Fits, kDone, kSweepingLarge, kMarking, kAwaitingFinalization, Unfinalized

USE DEF space, helpers, pages, mutators, kDone, kMarking, kAwaitingFinalization,
        kSweepingLarge, kSweepingRegular, Sweeping, Unfinalized

-----------------------------------------------------------------------------
(* Where threads are *)

LEMMA Places ==
  /\ Counted \subseteq Critical /\ Gc \subseteq Critical /\ Past \subseteq Gc
  /\ Assisting \subseteq Past
  /\ Iterates \subseteq Critical
  /\ {"pausing", "scavenging", "cards", "collect", "iterating", "reloading"} \subseteq Critical
  /\ Critical \subseteq PCs /\ Outside \subseteq PCs /\ Critical \cap Outside = {}
  /\ \A kind : Entry(kind) \in {"gc", "scavenge", "iterate", "reload_wait", "alloc_try"}
  /\ Rets \subseteq PCs /\ Rets \cap Outside = {"idle", "check"}
  BY SMT DEF Counted, Critical, Iterates, Gc, Past, Assisting, PCs, Outside, Entry, Rets

\* A thread in an operation owns the safepoint; all others are outside.
LEMMA Alone ==
  ASSUME IInv, NEW t \in Mutators, pc[t] \in Critical
  PROVE  /\ safepoint = t
         /\ \A u \in Mutators \ {t} : pc[u] \notin Critical
  BY DEF IInv, OwnerInside

\* A thread outside relies on nothing but the group.
LEMMA OutsideFits ==
  ASSUME IInv, NEW t \in Mutators, pc[t] \notin Critical,
         pc'[t] = pc[t], call'[t] = call[t], page'[t] = page[t], group' = group
  PROVE  ThreadFits(t)'
  <1>1. ThreadFits(t)
    BY DEF IInv
  <1>2. /\ pc[t] \notin Gc /\ pc[t] \notin Past /\ pc[t] \notin Assisting
        /\ pc[t] \notin Iterates
        /\ pc[t] \notin {"pausing", "scavenging", "cards", "collect", "iterating", "reloading"}
    BY Places
  <1>3. page[t] = "none" /\ call[t].ret \in {"idle", "check"} /\ (pc[t] # "idle" => group = "alive")
    BY <1>1, <1>2 DEF ThreadFits, Fits
  <1> QED BY <1>2, <1>3 DEF ThreadFits, Fits

\* Subsets of Markers, counted.
LEMMA Counting ==
  \A S \in SUBSET Markers :
    /\ Cardinality(S) \in Nat /\ (Cardinality(S) = 0 <=> S = {})
    /\ \A m \in Markers \ S : Cardinality(S \cup {m}) = Cardinality(S) + 1
    /\ \A m \in S : Cardinality(S \ {m}) = Cardinality(S) - 1
  <1> TAKE S \in SUBSET Markers
  <1>1. IsFiniteSet(S)
    BY OldSpaceAssumption, FS_Subset
  <1>2. Cardinality(S) \in Nat /\ (Cardinality(S) = 0 <=> S = {})
    BY <1>1, FS_CardinalityType, FS_EmptySet
  <1>3. \A m \in Markers \ S : Cardinality(S \cup {m}) = Cardinality(S) + 1
    BY <1>1, FS_AddElement
  <1>4. \A m \in S : Cardinality(S \ {m}) = Cardinality(S) - 1
    BY <1>1, FS_RemoveElement
  <1> QED BY <1>2, <1>3, <1>4

LEMMA LiveCounted ==
  ASSUME IInv
  PROVE  /\ marker_tasks = Cardinality(Live) /\ active = Cardinality(Running)
         /\ Live \subseteq Markers /\ Running \subseteq Live
         /\ marker_tasks = 0 <=> Live = {}
         /\ active = 0 <=> Running = {}
         /\ phase = kMarking <=> marker_tasks # 0
  <1>1. /\ marker_tasks = Cardinality(Live) /\ active = Cardinality(Running)
        /\ phase = kMarking <=> Live # {}
    BY DEF IInv, CountsExact, PhaseExact
  <1>2. Live \in SUBSET Markers /\ Running \in SUBSET Markers /\ Running \subseteq Live
    BY DEF Live, Running
  <1> QED BY <1>1, <1>2, Counting

\* Nobody else is counted while a thread has counted itself as the only task.
LEMMA OnlyTask ==
  ASSUME IInv, NEW t \in Mutators, pc[t] \in Counted, tasks = 1
  PROVE  Live = {} /\ sweeper = "none" /\ marker_tasks = 0 /\ active = 0
  <1>1. \E u \in Mutators : pc[u] \in Counted
    OBVIOUS
  <1>2. tasks = marker_tasks + (IF sweeper = "none" THEN 0 ELSE 1) + 1 /\ marker_tasks \in Nat
    BY <1>1 DEF IInv, CountsExact, TypeOK, SpaceOK
  <1>3. marker_tasks = 0 /\ sweeper = "none"
    BY SMT, <1>2
  <1>4. Live = {} /\ Running = {}
    BY <1>3, LiveCounted
  <1> QED BY <1>3, <1>4, LiveCounted

LEMMA NoTasks ==
  ASSUME IInv, tasks = 0
  PROVE  /\ Live = {} /\ sweeper = "none" /\ marker_tasks = 0 /\ active = 0
         /\ \A t \in Mutators : pc[t] \notin Counted
  <1> DEFINE c == \E t \in Mutators : pc[t] \in Counted
  <1>1. /\ tasks = marker_tasks + (IF sweeper = "none" THEN 0 ELSE 1) + (IF c THEN 1 ELSE 0)
        /\ marker_tasks \in Nat
    BY DEF IInv, CountsExact, TypeOK, SpaceOK
  <1>2. marker_tasks = 0 /\ sweeper = "none" /\ ~c
    <2> HIDE DEF c
    <2> QED BY SMT, <1>1
  <1>3. Live = {} /\ Running = {}
    BY <1>2, LiveCounted
  <1> QED BY <1>2, <1>3, LiveCounted

\* A group in which some thread does something is alive.
LEMMA Busy ==
  ASSUME IInv, NEW t \in Mutators, pc[t] # "idle"
  PROVE  group = "alive"
  BY DEF IInv, ThreadFits, Fits

-----------------------------------------------------------------------------
(* Steps of a mutator that leave old space alone *)

\* A thread goes to q, for the operation c, and owns the safepoint if q is inside.
LEMMA MutatorMoves ==
  ASSUME IInv, NEW t \in Mutators, safepoint \in {None, t},
         UNCHANGED <<space, helpers, pages, group>>,
         NEW q \in PCs, pc' = [pc EXCEPT ![t] = q],
         NEW c \in Calls, call' = [call EXCEPT ![t] = c],
         safepoint' = IF q \in Critical THEN t ELSE None,
         pc[t] \notin Counted, q \notin Counted,
         Fits(q, c.kind, c.ret, page[t])
  PROVE  IInv'
  <1>1. TypeOK /\ OwnerInside /\ CountsExact /\ PhaseExact /\ ListsPlaced
    BY DEF IInv
  <1>2. /\ pc'[t] = q /\ call'[t] = c
        /\ \A u \in Mutators \ {t} : pc'[u] = pc[u] /\ call'[u] = call[u]
    BY <1>1 DEF TypeOK
  <1>3. TypeOK'
    <2>1. pc' \in [Mutators -> PCs] /\ call' \in [Mutators -> Calls]
      BY <1>1 DEF TypeOK
    <2>2. safepoint' \in Mutators \cup {None}
      OBVIOUS
    <2> QED BY <1>1, <2>1, <2>2 DEF TypeOK, SpaceOK
  <1>4. OwnerInside'
    <2>1. ASSUME NEW u \in Mutators \ {t} PROVE pc'[u] \notin Critical /\ safepoint' # u
      BY <1>1, <1>2, OldSpaceAssumption DEF OwnerInside
    <2>2. pc'[t] \in Critical <=> safepoint' = t
      BY <1>2, OldSpaceAssumption
    <2> QED BY <2>1, <2>2 DEF OwnerInside
  <1>5. CountsExact'
    <2>1. (\E u \in Mutators : pc'[u] \in Counted) <=> (\E u \in Mutators : pc[u] \in Counted)
      BY <1>2
    <2> QED BY <1>1, <2>1 DEF CountsExact, Live, Running
  <1>6. PhaseExact' /\ ListsPlaced'
    BY <1>1 DEF PhaseExact, ListsPlaced, Live
  <1>7. ASSUME NEW u \in Mutators PROVE ThreadFits(u)'
    <2>0. /\ page'[u] = page[u] /\ pause' = pause /\ active' = active /\ phase' = phase
          /\ tasks' = tasks /\ enabled' = enabled /\ group' = group
      OBVIOUS
    <2>1. CASE u = t
      BY <1>2, <2>0, <2>1, FitsStays
    <2>2. CASE u # t
      <3>1. Fits(pc[u], call[u].kind, call[u].ret, page[u])
        BY DEF IInv, ThreadFits
      <3>2. pc'[u] = pc[u] /\ call'[u] = call[u]
        BY <1>2, <2>2
      <3> QED BY <2>0, <3>1, <3>2, FitsStays
    <2> QED BY <2>1, <2>2
  <1> QED BY <1>3, <1>4, <1>5, <1>6, <1>7 DEF IInv

\* The places inside an operation where a thread is not counted and has no page.
Calm == {"gc", "assist_mark", "gc_wait", "scavenge", "pausing", "scavenging", "cards",
         "scavenged", "iterate", "iterate_final", "iterate_wait", "reload_wait",
         "reloading", "alloc_try", "alloc_retry", "alloc", "alloc_last"}

LEMMA CalmPlaces ==
  /\ Calm \subseteq Critical /\ Calm \cap Counted = {} /\ Calm \cap Assisting = {}
  /\ Calm \subseteq PCs /\ "idle" \notin Calm
  /\ Outside \cap Counted = {} /\ Outside \cap Assisting = {}
  BY SMT DEF Calm, Critical, Iterates, Gc, Past, Assisting, Counted, PCs, Outside

\* Only the wait set, the interrupts, the root slice or the bound on operations change.
LEMMA Stutters ==
  ASSUME IInv, UNCHANGED <<space, task, sweeper, pages, safepoint, pc, call, group>>
  PROVE  IInv'
  <1>1. TypeOK'
    <2>1. SpaceOK /\ TypeOK
      BY DEF IInv, TypeOK
    <2>2. SpaceOK'
      BY <2>1 DEF SpaceOK
    <2> QED BY <2>1, <2>2 DEF TypeOK
  <1>2. OwnerInside'
    BY DEF IInv, OwnerInside
  <1>3. CountsExact'
    BY DEF IInv, CountsExact, Live, Running
  <1>4. PhaseExact' /\ ListsPlaced'
    BY DEF IInv, PhaseExact, ListsPlaced, Live
  <1>5. ASSUME NEW t \in Mutators PROVE ThreadFits(t)'
    <2>1. /\ pc'[t] = pc[t] /\ call'[t] = call[t] /\ page'[t] = page[t]
          /\ pause' = pause /\ active' = active /\ phase' = phase
          /\ tasks' = tasks /\ enabled' = enabled /\ group' = group
      OBVIOUS
    <2>2. Fits(pc[t], call[t].kind, call[t].ret, page[t])
      BY DEF IInv, ThreadFits
    <2> QED BY <2>1, <2>2, FitsStays
  <1> QED BY <1>1, <1>2, <1>3, <1>4, <1>5 DEF IInv

LEMMA Waits ==
  ASSUME IInv, NEW x, Wait(x)
  PROVE  IInv'
  BY Stutters DEF Wait

LEMMA NoPage ==
  ASSUME IInv, NEW t \in Mutators, pc[t] \notin Assisting
  PROVE  page[t] = "none"
  BY DEF IInv, ThreadFits, Fits

LEMMA GotoMove ==
  ASSUME IInv, NEW t \in Mutators, Runs(t), NEW q \in PCs, Goto(t, q),
         UNCHANGED <<space, helpers, pages, group, call, safepoint>>,
         q \in Critical <=> pc[t] \in Critical,
         pc[t] \notin Counted, q \notin Counted,
         Fits(q, call[t].kind, call[t].ret, page[t])
  PROVE  IInv'
  <1>1. call \in [Mutators -> Calls] /\ OwnerInside /\ safepoint \in {None, t}
    BY DEF IInv, TypeOK, Runs
  <1>2. call' = [call EXCEPT ![t] = call[t]] /\ call[t] \in Calls
    BY <1>1
  <1>3. safepoint' = IF q \in Critical THEN t ELSE None
    BY <1>1 DEF OwnerInside
  <1> QED BY <1>1, <1>2, <1>3, MutatorMoves DEF Goto

LEMMA BeginMove ==
  ASSUME IInv, NEW t \in Mutators, Runs(t),
         NEW kind \in Kinds, NEW compact \in BOOLEAN, NEW ret \in Rets,
         Begin(t, kind, compact, ret),
         UNCHANGED <<space, helpers, pages, group, safepoint>>,
         pc[t] \notin Counted, page[t] = "none", group = "alive",
         ret \in {"idle", "check"} \/ (safepoint = t /\ kind \in {"old", "finalize", "start"}),
         ret = "reloading" => ~enabled /\ phase \notin Unfinalized
  PROVE  IInv'
  <1> DEFINE q == IF safepoint = t THEN Entry(kind) ELSE "want"
             c == [kind |-> kind, compact |-> compact, ret |-> ret]
  <1>1. pc' = [pc EXCEPT ![t] = q] /\ call' = [call EXCEPT ![t] = c]
    BY DEF Begin, Goto
  <1>2. c \in Calls /\ c.kind = kind /\ c.ret = ret
    BY DEF Calls
  <1>3. /\ q \in {"gc", "scavenge", "iterate", "reload_wait", "alloc_try", "want"}
        /\ q = "want" <=> safepoint # t
    BY Places
  <1>4. kind \in {"old", "finalize", "start"} => Entry(kind) = "gc"
    BY SMT DEF Entry
  <1>5. /\ ret \notin {"idle", "check"} => q = "gc" /\ kind # "iterate"
        /\ q = "iterate" => kind = "iterate"
    <2>1. Entry(kind) = "iterate" => kind = "iterate"
      BY SMT DEF Entry
    <2> QED BY <1>4, <2>1
  <1> HIDE DEF q, c
  <1>6. /\ q \in PCs /\ q \notin Counted /\ q \notin Past /\ (q \in Critical <=> q # "want")
        /\ "gc" \in Gc /\ (q \in Iterates => q = "iterate")
    BY SMT, <1>3 DEF PCs, Counted, Critical, Iterates, Past, Assisting, Gc, Outside
  <1>7. Fits(q, c.kind, c.ret, page[t])
    BY <1>2, <1>3, <1>5, <1>6 DEF Fits
  <1>8. safepoint \in {None, t} /\ safepoint' = IF q \in Critical THEN t ELSE None
    BY <1>3, <1>6 DEF Runs
  <1> QED BY <1>1, <1>2, <1>6, <1>7, <1>8, MutatorMoves

LEMMA ReturnMove ==
  ASSUME IInv, NEW t \in Mutators, Runs(t), Return(t), pc[t] \in Calm,
         UNCHANGED <<space, helpers, pages, group>>
  PROVE  IInv'
  <1> DEFINE q == call[t].ret
             k == IF call[t].ret = "iterate_wait" THEN "iterate" ELSE "none"
             c == [kind |-> k, compact |-> FALSE, ret |-> "idle"]
  <1>1. pc' = [pc EXCEPT ![t] = q] /\ call' = [call EXCEPT ![t] = c]
    BY DEF Return, Goto
  <1>2. q \in Rets /\ ThreadFits(t)
    BY DEF IInv, TypeOK, Calls
  <1>3. /\ c \in Calls /\ c.kind = k /\ c.ret = "idle" /\ k # "start"
        /\ q = "iterate_wait" => k = "iterate"
    BY DEF Calls, Kinds, Rets
  <1>4. /\ q \in PCs /\ q \notin Counted /\ (q \in Critical <=> q \notin {"idle", "check"})
        /\ q \notin {"pausing", "scavenging", "cards", "collect", "iterating"}
        /\ q \in Iterates => q = "iterate_wait"
    BY SMT, <1>2 DEF Rets, PCs, Counted, Critical, Iterates, Past, Assisting, Gc, Outside
  <1>5. /\ pc[t] \in Critical /\ pc[t] \notin Counted /\ pc[t] \notin Assisting
        /\ pc[t] # "idle"
    BY CalmPlaces
  <1>6. page[t] = "none" /\ group = "alive"
    BY <1>5, NoPage, Busy
  <1>7. q = "reloading" => ~enabled /\ phase \notin Unfinalized
    BY <1>2 DEF ThreadFits, Fits
  <1>8. safepoint' = IF q \in Critical THEN t ELSE None
    BY <1>4 DEF Return
  <1> HIDE DEF q, c, k
  <1>9. Fits(q, c.kind, c.ret, page[t])
    BY <1>3, <1>4, <1>6, <1>7 DEF Fits
  <1> QED BY <1>1, <1>3, <1>4, <1>5, <1>8, <1>9, MutatorMoves DEF Runs

\* Where a thread stays calm, only a few places ask for anything.
LEMMA CalmMove ==
  ASSUME IInv, NEW t \in Mutators, Runs(t), pc[t] \in Calm,
         NEW q \in Calm \cup {"assist_regular", "assist_large"}, Goto(t, q),
         UNCHANGED <<space, helpers, pages, group, call, safepoint>>,
         q \in {"pausing", "scavenging", "cards"} => pause = 1,
         q \in {"scavenging", "cards"} => active = 0,
         q = "cards" => phase # kSweepingLarge,
         q \in Iterates => call[t].kind = "iterate",
         q \in Past /\ call[t].kind = "start" => enabled /\ phase \notin Unfinalized,
         q = "reloading" => ~enabled /\ phase \notin Unfinalized,
         q \in Gc \/ call[t].ret \in {"idle", "check"}
  PROVE  IInv'
  <1>1. /\ pc[t] \in Critical /\ pc[t] \notin Counted /\ pc[t] \notin Assisting
        /\ pc[t] # "idle"
    BY CalmPlaces
  <1>2. q \in Critical /\ q \notin Counted /\ q \in PCs /\ q \notin {"collect", "iterating"}
    BY CalmPlaces, Places DEF Assisting, Counted
  <1>3. page[t] = "none" /\ group = "alive" /\ ThreadFits(t)
    BY <1>1, NoPage, Busy DEF IInv
  <1>4. /\ call[t].ret \notin {"idle", "check"} => call[t].kind # "iterate"
        /\ call[t].ret = "reloading" => ~enabled /\ phase \notin Unfinalized
    BY <1>3 DEF ThreadFits, Fits
  <1>5. Fits(q, call[t].kind, call[t].ret, page[t])
    BY <1>2, <1>3, <1>4 DEF Fits
  <1> QED BY <1>1, <1>2, <1>5, GotoMove

LEMMA OutsideMove ==
  ASSUME IInv, NEW t \in Mutators, Runs(t), pc[t] \in Outside,
         NEW q \in Outside, Goto(t, q), q # "idle" => group = "alive",
         UNCHANGED <<space, helpers, pages, group, call, safepoint>>
  PROVE  IInv'
  <1>1. /\ pc[t] \notin Critical /\ q \notin Critical /\ q \in PCs
        /\ pc[t] \notin Counted /\ q \notin Counted
        /\ pc[t] \notin Gc /\ q \notin Past /\ pc[t] \notin Assisting /\ q \notin Iterates
        /\ q \notin {"pausing", "scavenging", "cards", "collect", "iterating", "reloading"}
    BY Places, CalmPlaces
  <1>2. page[t] = "none" /\ ThreadFits(t)
    BY <1>1, NoPage DEF IInv
  <1>3. call[t].ret \in {"idle", "check"}
    BY <1>1, <1>2 DEF ThreadFits, Fits
  <1>4. Fits(q, call[t].kind, call[t].ret, page[t])
    BY <1>1, <1>2, <1>3 DEF Fits
  <1> QED BY <1>1, <1>4, GotoMove

\* What a thread outside an operation begins goes back to Dart code.
LEMMA OutsideBegin ==
  ASSUME IInv, NEW t \in Mutators, Runs(t), pc[t] \in Outside, group = "alive",
         NEW kind \in Kinds, NEW compact \in BOOLEAN, NEW ret \in {"idle", "check"},
         Begin(t, kind, compact, ret),
         UNCHANGED <<space, helpers, pages, group, safepoint>>
  PROVE  IInv'
  <1>1. pc[t] \notin Counted /\ page[t] = "none" /\ ret \in Rets
    BY CalmPlaces, NoPage DEF Rets
  <1>2. ret # "reloading"
    OBVIOUS
  <1> QED BY <1>1, <1>2, BeginMove

LEMMA KindsAre ==
  {"old", "finalize", "start", "scavenge", "evacuate", "iterate", "reload", "alloc"}
    \subseteq Kinds
  BY DEF Kinds

LEMMA OutsideAre == {"idle", "want", "check", "wait_sweeper"} \subseteq Outside
  BY DEF Outside

LEMMA AtSafepointInv ==
  ASSUME IInv, NEW t \in Mutators, AtSafepoint(t)
  PROVE  IInv'
  <1> DEFINE q == Entry(call[t].kind)
  <1>1. /\ pc[t] = "want" /\ safepoint \in {None, t} /\ safepoint' = t
        /\ pc' = [pc EXCEPT ![t] = q] /\ call \in [Mutators -> Calls]
        /\ UNCHANGED <<space, helpers, pages, call, group>>
    BY DEF AtSafepoint, Runs, Goto, IInv, TypeOK
  <1>2. /\ pc[t] \notin Counted /\ pc[t] \notin Gc /\ pc[t] \notin Assisting
        /\ group = "alive" /\ page[t] = "none" /\ ThreadFits(t)
    BY <1>1, OutsideAre, Places, CalmPlaces, Busy, NoPage DEF IInv
  <1>3. call[t].ret \in {"idle", "check"}
    BY <1>2 DEF ThreadFits, Fits
  <1>4. q \in {"gc", "scavenge", "iterate", "reload_wait", "alloc_try"}
    BY Places
  <1>5. q = "iterate" => call[t].kind = "iterate"
    BY SMT DEF Entry
  <1> HIDE DEF q
  <1>6. /\ q \in PCs /\ q \in Critical /\ q \notin Counted /\ q \notin Past
        /\ q \in Iterates => q = "iterate"
    BY SMT, <1>4 DEF PCs, Counted, Critical, Iterates, Past, Assisting, Gc, Outside
  <1>7. Fits(q, call[t].kind, call[t].ret, page[t])
    BY <1>2, <1>3, <1>4, <1>5, <1>6 DEF Fits
  <1>8. call' = [call EXCEPT ![t] = call[t]] /\ call[t] \in Calls
    BY <1>1
  <1>9. safepoint' = IF q \in Critical THEN t ELSE None
    BY <1>1, <1>6
  <1> QED BY <1>1, <1>2, <1>6, <1>7, <1>8, <1>9, MutatorMoves

LEMMA OutsideSteps ==
  ASSUME IInv, NEW t \in Mutators,
         \/ StartOperation(t) \/ CheckConcurrentMarking(t) \/ HandleInterrupts(t)
         \/ CheckFinalizeMarking(t) \/ AllocateOld(t) \/ WaitForSweeperTasks(t)
  PROVE  IInv'
  <1>1. CASE StartOperation(t)
    <2>1. /\ Runs(t) /\ pc[t] \in Outside /\ group = "alive"
          /\ UNCHANGED <<space, helpers, pages, group, safepoint>>
      BY <1>1, OutsideAre DEF StartOperation, Start
    <2>2. PICK kind \in Kinds, compact \in BOOLEAN : Begin(t, kind, compact, "idle")
      BY <1>1, KindsAre DEF StartOperation
    <2> QED BY <2>1, <2>2, OutsideBegin
  <1>2. CASE CheckConcurrentMarking(t)
    <2>1. /\ Runs(t) /\ pc[t] \in Outside /\ group = "alive"
          /\ UNCHANGED <<space, helpers, pages, group, safepoint>>
      BY <1>2, OutsideAre DEF CheckConcurrentMarking, Start
    <2>2. PICK kind \in Kinds : Begin(t, kind, FALSE, "idle")
      BY <1>2, KindsAre DEF CheckConcurrentMarking, Check
    <2> QED BY <2>1, <2>2, OutsideBegin
  <1>3. CASE HandleInterrupts(t)
    <2>1. /\ Runs(t) /\ pc[t] \in Outside /\ group = "alive"
          /\ UNCHANGED <<space, helpers, pages, group, safepoint>>
      BY <1>3, OutsideAre DEF HandleInterrupts
    <2>2. CASE Goto(t, "check") /\ UNCHANGED call
      BY <2>1, <2>2, OutsideAre, OutsideMove
    <2>3. CASE Begin(t, "evacuate", FALSE, "check")
      BY <2>1, <2>3, KindsAre, OutsideBegin
    <2> QED BY <1>3, <2>2, <2>3 DEF HandleInterrupts
  <1>4. CASE CheckFinalizeMarking(t)
    <2>1. /\ Runs(t) /\ pc[t] = "check"
          /\ UNCHANGED <<space, helpers, pages, group, safepoint>>
      BY <1>4 DEF CheckFinalizeMarking
    <2>2. pc[t] \in Outside /\ group = "alive"
      BY <2>1, OutsideAre, Busy
    <2>3. CASE Begin(t, "finalize", FALSE, "idle")
      BY <2>1, <2>2, <2>3, KindsAre, OutsideBegin
    <2>4. CASE Goto(t, "idle") /\ UNCHANGED call
      BY <2>1, <2>2, <2>4, OutsideAre, OutsideMove
    <2> QED BY <1>4, <2>3, <2>4 DEF CheckFinalizeMarking
  <1>5. CASE AllocateOld(t)
    <2>1. /\ Runs(t) /\ pc[t] \in Outside /\ group = "alive" /\ Goto(t, "wait_sweeper")
          /\ UNCHANGED <<space, helpers, pages, group, safepoint, call>>
      BY <1>5, OutsideAre DEF AllocateOld, Start
    <2> QED BY <2>1, OutsideAre, OutsideMove
  <1>6. CASE WaitForSweeperTasks(t)
    <2>1. /\ Runs(t) /\ pc[t] = "wait_sweeper"
      BY <1>6 DEF WaitForSweeperTasks
    <2>2. pc[t] \in Outside /\ group = "alive"
      BY <2>1, OutsideAre, Busy
    <2>3. CASE Wait(t)
      BY <2>3, Waits
    <2>4. CASE Goto(t, "idle") /\ UNCHANGED <<call, space, helpers, pages, safepoint, group>>
      BY <2>1, <2>2, <2>4, OutsideAre, OutsideMove
    <2>5. CASE Begin(t, "alloc", FALSE, "idle") /\ UNCHANGED <<space, helpers, pages, safepoint, group>>
      BY <2>1, <2>2, <2>5, KindsAre, OutsideBegin
    <2> QED BY <1>6, <2>3, <2>4, <2>5 DEF WaitForSweeperTasks
  <1> QED BY <1>1, <1>2, <1>3, <1>4, <1>5, <1>6

\* An operation begun inside another one, by the owner of the safepoint.
LEMMA CalmBegin ==
  ASSUME IInv, NEW t \in Mutators, Runs(t), pc[t] \in Calm,
         NEW kind \in Kinds, NEW compact \in BOOLEAN, NEW ret \in Rets,
         Begin(t, kind, compact, ret),
         UNCHANGED <<space, helpers, pages, group, safepoint>>,
         ret \in {"idle", "check"} \/ kind \in {"old", "finalize", "start"},
         ret = "reloading" => pc[t] = "reloading"
  PROVE  IInv'
  <1>1. /\ pc[t] \in Critical /\ pc[t] \notin Counted /\ pc[t] \notin Assisting
        /\ pc[t] # "idle"
    BY CalmPlaces
  <1>2. page[t] = "none" /\ group = "alive" /\ safepoint = t /\ ThreadFits(t)
    BY <1>1, NoPage, Busy, Alone DEF IInv
  <1>3. ret = "reloading" => ~enabled /\ phase \notin Unfinalized
    BY <1>2 DEF ThreadFits, Fits
  <1> QED BY <1>1, <1>2, <1>3, BeginMove

\* A call that is not of the collector goes back to Dart code.
LEMMA CalmReturns ==
  ASSUME IInv, NEW t \in Mutators, pc[t] \notin Gc
  PROVE  call[t].ret \in {"idle", "check"}
  BY DEF IInv, ThreadFits, Fits

LEMMA RetsAre ==
  {"idle", "check", "alloc_retry", "alloc_last", "iterate_wait", "reload_wait", "reloading"}
    \subseteq Rets
  BY DEF Rets

LEMMA GcAre ==
  /\ {"assist_mark", "assist_regular", "assist_large", "gc_wait"} \subseteq Past
  /\ {"gc", "gc_wait", "assist_mark"} \subseteq Gc /\ Past \cap Iterates = {}
  /\ {"scavenge", "pausing", "scavenging", "cards", "scavenged", "iterate", "iterate_final",
      "iterate_wait", "reload_wait", "reloading", "alloc_try", "alloc_retry", "alloc",
      "alloc_last"} \cap Gc = {}
  /\ {"pausing", "scavenging", "cards", "scavenged", "reloading", "alloc", "iterate",
      "iterate_final", "iterate_wait"} \cap Past = {}
  /\ {"pausing", "scavenging", "cards", "scavenged", "reloading", "alloc"} \cap Iterates = {}
  BY SMT DEF Past, Assisting, Gc, Iterates

LEMMA AllocationSteps ==
  ASSUME IInv, NEW t \in Mutators,
         \/ RetryAllocation(t) \/ AllocateAfterCollection(t)
         \/ WaitForSweeperTasksAtSafepoint(t) \/ NothingToCollect(t)
  PROVE  IInv'
  <1>1. CASE RetryAllocation(t)
    <2>1. /\ Runs(t) /\ pc[t] \in Calm
          /\ UNCHANGED <<space, helpers, pages, group>>
      BY <1>1 DEF RetryAllocation, Calm
    <2>2. CASE Return(t)
      BY <2>1, <2>2, ReturnMove
    <2>3. CASE Begin(t, "old", FALSE, "alloc_retry") /\ UNCHANGED safepoint
      BY <2>1, <2>3, KindsAre, RetsAre, CalmBegin
    <2> QED BY <1>1, <2>2, <2>3 DEF RetryAllocation
  <1>2. CASE AllocateAfterCollection(t)
    <2>1. /\ Runs(t) /\ pc[t] \in Calm /\ pc[t] = "alloc_retry"
          /\ UNCHANGED <<space, helpers, pages, group>>
      BY <1>2 DEF AllocateAfterCollection, Calm
    <2>2. CASE Return(t)
      BY <2>1, <2>2, ReturnMove
    <2>3. CASE Goto(t, "alloc") /\ UNCHANGED <<safepoint, call>>
      <3>1. /\ "alloc" \in Calm /\ "alloc" \notin Past /\ "alloc" \notin Iterates
            /\ call[t].ret \in {"idle", "check"}
        BY <2>1, GcAre, CalmReturns DEF Calm
      <3> QED BY <2>1, <2>3, <3>1, CalmMove
    <2> QED BY <1>2, <2>2, <2>3 DEF AllocateAfterCollection
  <1>3. CASE WaitForSweeperTasksAtSafepoint(t)
    <2>1. Runs(t) /\ pc[t] \in Calm
      BY <1>3 DEF WaitForSweeperTasksAtSafepoint, Calm
    <2>2. CASE Wait(t)
      BY <2>2, Waits
    <2>3. CASE Return(t) /\ UNCHANGED <<space, helpers, pages, group>>
      BY <2>1, <2>3, ReturnMove
    <2>4. CASE Begin(t, "old", TRUE, "alloc_last") /\ UNCHANGED <<space, helpers, pages, group, safepoint>>
      BY <2>1, <2>4, KindsAre, RetsAre, CalmBegin
    <2> QED BY <1>3, <2>2, <2>3, <2>4 DEF WaitForSweeperTasksAtSafepoint
  <1>4. CASE NothingToCollect(t)
    <2>1. /\ Runs(t) /\ pc[t] \in Calm /\ Return(t)
          /\ UNCHANGED <<space, helpers, pages, group>>
      BY <1>4 DEF NothingToCollect, Calm
    <2> QED BY <2>1, ReturnMove
  <1> QED BY <1>1, <1>2, <1>3, <1>4

LEMMA AssistGoes ==
  ASSUME NEW t \in Mutators, NEW next, AssistTasks(t, next)
  PROVE  \E q \in {"assist_mark", "assist_regular", next} : Goto(t, q)
  <1> DEFINE q == CASE phase = kMarking -> "assist_mark"
                    [] phase \in Sweeping -> "assist_regular"
                    [] OTHER -> next
  <1>1. q \in {"assist_mark", "assist_regular", next}
    BY SMT
  <1>2. Goto(t, q)
    BY DEF AssistTasks
  <1> HIDE DEF q
  <1> QED BY <1>1, <1>2

\* Steps to the code that assists or waits for the tasks.
LEMMA AssistSteps ==
  ASSUME IInv, NEW t \in Mutators,
         CollectGarbage(t) \/ AssistMarking(t) \/ IterationAssists(t)
  PROVE  IInv'
  <1>1. CASE CollectGarbage(t)
    <2>1. /\ Runs(t) /\ pc[t] \in Calm /\ UNCHANGED <<space, helpers, pages, group, call, safepoint>>
          /\ call[t].kind = "start" => enabled /\ phase \notin Unfinalized
          /\ AssistTasks(t, "gc_wait")
      BY <1>1 DEF CollectGarbage, Calm
    <2>2. PICK q \in {"assist_mark", "assist_regular", "gc_wait"} : Goto(t, q)
      BY <2>1, AssistGoes
    <2>3. /\ q \in Calm \cup {"assist_regular", "assist_large"} /\ q \in Gc /\ q \notin Iterates
          /\ q \notin {"pausing", "scavenging", "cards", "reloading"}
      BY GcAre, Places DEF Calm
    <2> QED BY <2>1, <2>2, <2>3, CalmMove
  <1>2. CASE IterationAssists(t)
    <2>1. /\ Runs(t) /\ pc[t] \in Calm /\ pc[t] = "iterate"
          /\ UNCHANGED <<space, helpers, pages, group, call, safepoint>>
          /\ AssistTasks(t, "iterate_final")
      BY <1>2 DEF IterationAssists, Calm
    <2>2. PICK q \in {"assist_mark", "assist_regular", "iterate_final"} : Goto(t, q)
      BY <2>1, AssistGoes
    <2>3. call[t].ret \in {"idle", "check"} /\ call[t].kind = "iterate"
      BY <2>1, CalmReturns, GcAre DEF IInv, ThreadFits, Fits, Iterates
    <2>4. /\ q \in Calm \cup {"assist_regular", "assist_large"}
          /\ q \notin {"pausing", "scavenging", "cards", "reloading"}
      BY DEF Calm
    <2> QED BY <2>1, <2>2, <2>3, <2>4, CalmMove
  <1>3. CASE AssistMarking(t)
    <2> DEFINE q == IF phase \in Sweeping THEN "assist_regular" ELSE AfterAssist(t)
    <2>1. /\ Runs(t) /\ pc[t] \in Calm /\ pc[t] = "assist_mark" /\ Goto(t, q)
          /\ UNCHANGED <<space, helpers, pages, group, call, safepoint>>
      BY <1>3 DEF AssistMarking, Calm
    <2>2. /\ q \in {"assist_regular", "gc_wait", "iterate_final"}
          /\ q = "iterate_final" => call[t].kind = "iterate"
      BY DEF AfterAssist
    <2> HIDE DEF q
    <2>3. /\ call[t].ret \notin {"idle", "check"} => call[t].kind # "iterate"
          /\ call[t].kind = "start" => enabled /\ phase \notin Unfinalized
      BY <2>1, GcAre DEF IInv, ThreadFits, Fits
    <2>4. /\ q \in Calm \cup {"assist_regular", "assist_large"}
          /\ q \notin {"pausing", "scavenging", "cards", "reloading"}
          /\ q \notin Gc => q = "iterate_final"
          /\ q \in Iterates => q = "iterate_final"
      BY <2>2, GcAre, Places DEF Calm
    <2> QED BY <2>1, <2>2, <2>3, <2>4, CalmMove
  <1> QED BY <1>1, <1>2, <1>3

LEMMA ScavengeSteps ==
  ASSUME IInv, NEW t \in Mutators,
         WaitForPause(t) \/ VisitRememberedCards(t) \/ AfterScavenge(t)
  PROVE  IInv'
  <1>1. CASE WaitForPause(t)
    <2>1. Runs(t) /\ pc[t] \in Calm /\ pc[t] = "pausing"
      BY <1>1 DEF WaitForPause, Calm
    <2>2. CASE Wait(t)
      BY <2>2, Waits
    <2>3. CASE /\ active = 0 /\ Goto(t, "scavenging")
               /\ UNCHANGED <<space, helpers, pages, safepoint, call, group>>
      <3>1. call[t].ret \in {"idle", "check"} /\ pause = 1
        BY <2>1, CalmReturns, GcAre DEF IInv, ThreadFits, Fits
      <3>2. "scavenging" \in Calm /\ "scavenging" \notin Past /\ "scavenging" \notin Iterates
        BY GcAre DEF Calm
      <3> QED BY <2>1, <2>3, <3>1, <3>2, CalmMove
    <2> QED BY <1>1, <2>2, <2>3 DEF WaitForPause
  <1>2. CASE VisitRememberedCards(t)
    <2>1. Runs(t) /\ pc[t] \in Calm /\ pc[t] = "scavenging"
      BY <1>2 DEF VisitRememberedCards, Calm
    <2>2. CASE Wait(t)
      BY <2>2, Waits
    <2>3. CASE /\ phase # kSweepingLarge /\ Goto(t, "cards")
               /\ UNCHANGED <<space, helpers, pages, safepoint, call, group>>
      <3>1. call[t].ret \in {"idle", "check"} /\ pause = 1 /\ active = 0
        BY <2>1, CalmReturns, GcAre DEF IInv, ThreadFits, Fits
      <3>2. "cards" \in Calm /\ "cards" \notin Past /\ "cards" \notin Iterates
        BY GcAre DEF Calm
      <3> QED BY <2>1, <2>3, <3>1, <3>2, CalmMove
    <2> QED BY <1>2, <2>2, <2>3 DEF VisitRememberedCards
  <1>3. CASE AfterScavenge(t)
    <2>1. /\ Runs(t) /\ pc[t] \in Calm /\ pc[t] = "scavenged"
          /\ UNCHANGED <<space, helpers, pages, group>>
      BY <1>3 DEF AfterScavenge, Calm
    <2>2. CASE Return(t)
      BY <2>1, <2>2, ReturnMove
    <2>3. CASE UNCHANGED safepoint /\ (Begin(t, "old", FALSE, call[t].ret) \/ Check(t, call[t].ret))
      <3>1. PICK kind \in Kinds : Begin(t, kind, FALSE, call[t].ret)
        BY <2>3, KindsAre DEF Check
      <3>2. call[t].ret \in {"idle", "check"} /\ call[t].ret \in Rets
        BY <2>1, CalmReturns, GcAre, RetsAre
      <3> QED BY <2>1, <2>3, <3>1, <3>2, CalmBegin
    <2> QED BY <1>3, <2>2, <2>3 DEF AfterScavenge
  <1> QED BY <1>1, <1>2, <1>3

LEMMA IterationSteps ==
  ASSUME IInv, NEW t \in Mutators, IterationFinalizes(t) \/ IterationWaits(t)
  PROVE  IInv'
  <1>1. ASSUME pc[t] \in {"iterate_final", "iterate_wait"}
        PROVE  call[t].ret \in {"idle", "check"} /\ call[t].kind = "iterate"
    <2>1. pc[t] \notin Gc /\ pc[t] \in Iterates
      BY <1>1, GcAre DEF Iterates
    <2> QED BY <2>1, CalmReturns DEF IInv, ThreadFits, Fits
  <1>2. /\ {"iterate_wait", "iterate"} \subseteq Calm
        /\ "iterate_wait" \notin Past /\ "iterate" \notin Past
    BY GcAre DEF Calm
  <1>3. CASE IterationFinalizes(t)
    <2>1. Runs(t) /\ pc[t] \in Calm /\ pc[t] = "iterate_final"
      BY <1>3 DEF IterationFinalizes, Calm
    <2>2. CASE /\ Begin(t, "finalize", FALSE, "iterate_wait")
               /\ UNCHANGED <<space, helpers, pages, safepoint, group>>
      BY <2>1, <2>2, KindsAre, RetsAre, CalmBegin
    <2>3. CASE /\ Goto(t, "iterate_wait")
               /\ UNCHANGED <<space, helpers, pages, safepoint, call, group>>
      BY <1>1, <1>2, <2>1, <2>3, CalmMove
    <2> QED BY <1>3, <2>2, <2>3 DEF IterationFinalizes
  <1>4. CASE IterationWaits(t)
    <2>1. Runs(t) /\ pc[t] \in Calm /\ pc[t] = "iterate_wait"
      BY <1>4 DEF IterationWaits, Calm
    <2>2. CASE Wait(t)
      BY <2>2, Waits
    <2>3. CASE /\ Goto(t, "iterate")
               /\ UNCHANGED <<space, helpers, pages, safepoint, call, group>>
      BY <1>1, <1>2, <2>1, <2>3, CalmMove
    <2> QED BY <1>4, <2>2, <2>3 DEF IterationWaits
  <1> QED BY <1>3, <1>4

LEMMA ReloadAllocatesInv ==
  ASSUME IInv, NEW t \in Mutators, ReloadAllocates(t)
  PROVE  IInv'
  <1>1. /\ Runs(t) /\ pc[t] \in Calm /\ pc[t] = "reloading"
        /\ UNCHANGED <<space, helpers, pages, safepoint, group>>
    BY DEF ReloadAllocates, Calm
  <1>2. PICK kind \in {"old", "finalize", "start"} : Begin(t, kind, FALSE, "reloading")
    BY DEF ReloadAllocates, Check
  <1> QED BY <1>1, <1>2, KindsAre, RetsAre, CalmBegin

-----------------------------------------------------------------------------
(* Steps of the owner of the safepoint that change old space *)

LEMMA OwnerMoves ==
  ASSUME IInv, NEW t \in Mutators, pc[t] \in Critical,
         NEW q \in PCs, pc' = [pc EXCEPT ![t] = q],
         NEW c \in Calls, call' = [call EXCEPT ![t] = c],
         safepoint' = IF q \in Critical THEN t ELSE None,
         \A u \in Mutators \ {t} : page'[u] = page[u],
         group' = group,
         SpaceOK', CountsExact', PhaseExact', ListsPlaced', ThreadFits(t)'
  PROVE  IInv'
  <1>1. TypeOK /\ OwnerInside
    BY DEF IInv
  <1>2. /\ pc'[t] = q /\ call'[t] = c
        /\ \A u \in Mutators \ {t} : pc'[u] = pc[u] /\ call'[u] = call[u]
    BY <1>1 DEF TypeOK
  <1>3. TypeOK'
    <2>1. pc' \in [Mutators -> PCs] /\ call' \in [Mutators -> Calls]
      BY <1>1 DEF TypeOK
    <2>2. safepoint' \in Mutators \cup {None}
      OBVIOUS
    <2> QED BY <2>1, <2>2 DEF TypeOK
  <1>4. \A u \in Mutators \ {t} : pc[u] \notin Critical
    BY Alone
  <1>5. OwnerInside'
    <2>1. ASSUME NEW u \in Mutators \ {t} PROVE pc'[u] \notin Critical /\ safepoint' # u
      BY <1>2, <1>4, OldSpaceAssumption
    <2>2. pc'[t] \in Critical <=> safepoint' = t
      BY <1>2, OldSpaceAssumption
    <2> QED BY <2>1, <2>2 DEF OwnerInside
  <1>6. ASSUME NEW u \in Mutators \ {t} PROVE ThreadFits(u)'
    BY <1>2, <1>4, OutsideFits
  <1> QED BY <1>3, <1>5, <1>6 DEF IInv

\* The owner is the only thread that can be counted.
LEMMA OwnerCounted ==
  ASSUME IInv, NEW t \in Mutators, pc[t] \in Critical, NEW q, pc' = [pc EXCEPT ![t] = q]
  PROVE  /\ (\E u \in Mutators : pc[u] \in Counted) <=> pc[t] \in Counted
         /\ (\E u \in Mutators : pc'[u] \in Counted) <=> q \in Counted
         /\ tasks = marker_tasks + (IF sweeper = "none" THEN 0 ELSE 1)
                      + (IF pc[t] \in Counted THEN 1 ELSE 0)
         /\ pc'[t] = q /\ \A u \in Mutators \ {t} : pc'[u] = pc[u]
  <1>1. \A u \in Mutators \ {t} : pc[u] \notin Counted
    BY Alone, Places
  <1>2. pc'[t] = q /\ \A u \in Mutators \ {t} : pc'[u] = pc[u]
    BY DEF IInv, TypeOK
  <1>3. (\E u \in Mutators : pc[u] \in Counted) <=> pc[t] \in Counted
    BY <1>1
  <1>4. (\E u \in Mutators : pc'[u] \in Counted) <=> q \in Counted
    BY <1>1, <1>2
  <1>5. tasks = marker_tasks + (IF sweeper = "none" THEN 0 ELSE 1)
                 + (IF \E u \in Mutators : pc[u] \in Counted THEN 1 ELSE 0)
    BY DEF IInv, CountsExact
  <1>6. tasks = marker_tasks + (IF sweeper = "none" THEN 0 ELSE 1)
                 + (IF pc[t] \in Counted THEN 1 ELSE 0)
    BY <1>3, <1>5
  <1> QED BY <1>2, <1>3, <1>4, <1>6

\* The counters, for the new place of the owner.
LEMMA OwnerCounts ==
  ASSUME IInv, NEW t \in Mutators, pc[t] \in Critical, NEW q, pc' = [pc EXCEPT ![t] = q],
         marker_tasks' = Cardinality(Live'), active' = Cardinality(Running'),
         tasks' = marker_tasks' + (IF sweeper' = "none" THEN 0 ELSE 1)
                    + (IF q \in Counted THEN 1 ELSE 0)
  PROVE  CountsExact'
  <1> DEFINE c == \E u \in Mutators : pc'[u] \in Counted
  <1>1. c <=> q \in Counted
    BY OwnerCounted
  <1>2. tasks' = marker_tasks' + (IF sweeper' = "none" THEN 0 ELSE 1) + (IF c THEN 1 ELSE 0)
    BY <1>1
  <1> QED BY <1>2 DEF CountsExact

\* While the tasks and their counters stay as they are.
LEMMA SameCounts ==
  ASSUME IInv, NEW t \in Mutators, pc[t] \in Critical, NEW q, pc' = [pc EXCEPT ![t] = q],
         q \in Counted <=> pc[t] \in Counted,
         UNCHANGED <<task, sweeper, tasks, marker_tasks, active>>
  PROVE  CountsExact' /\ Live' = Live /\ Running' = Running
  <1>1. Live' = Live /\ Running' = Running
    BY DEF Live, Running
  <1>2. marker_tasks' = Cardinality(Live') /\ active' = Cardinality(Running')
    BY <1>1, LiveCounted
  <1>3. tasks' = marker_tasks' + (IF sweeper' = "none" THEN 0 ELSE 1)
                  + (IF q \in Counted THEN 1 ELSE 0)
    BY OwnerCounted
  <1> QED BY <1>1, <1>2, <1>3, OwnerCounts

LEMMA CallKept ==
  ASSUME IInv, NEW t \in Mutators
  PROVE  /\ call[t] \in Calls /\ call = [call EXCEPT ![t] = call[t]]
         /\ pc[t] \in PCs /\ pc = [pc EXCEPT ![t] = pc[t]]
         /\ SpaceOK /\ PhaseExact /\ ListsPlaced /\ ThreadFits(t)
  BY DEF IInv, TypeOK

LEMMA SweeperOther ==
  ASSUME IInv, NEW a \in Mutators
  PROVE  a # Sweeper /\ a \in Mutators \cup {Sweeper}
  BY OldSpaceAssumption

LEMMA AssistSweepingInv ==
  ASSUME IInv, NEW t \in Mutators, AssistSweeping(t)
  PROVE  IInv'
  <1>1. /\ pc[t] \in {"assist_regular", "assist_large"} /\ Runs(t)
        /\ UNCHANGED <<space, helpers, safepoint, call, group>>
    BY DEF AssistSweeping
  <1>2. pc[t] \in Critical /\ pc[t] \in Past /\ pc[t] \notin Counted /\ pc[t] # "idle"
    BY <1>1, GcAre, Places DEF Counted, Outside
  <1>3. PICK q \in {"assist_regular", "assist_large", "gc_wait", "iterate_final"} :
          /\ pc' = [pc EXCEPT ![t] = q]
          /\ q \in Assisting \/ (q = AfterAssist(t) /\ page[t] = "none" /\ UNCHANGED pages)
    BY <1>1, CallKept DEF AssistSweeping, Assisting, Goto, AfterAssist
  <1>4. /\ q \in PCs /\ q \in Critical /\ q \notin Counted
        /\ q \notin Gc => q = "iterate_final"
        /\ q \in Iterates => q = "iterate_final"
    BY SMT DEF PCs, Critical, Gc, Past, Assisting, Iterates, Counted, Outside
  <1>5. safepoint' = IF q \in Critical THEN t ELSE None
    BY <1>1, <1>2, <1>4, Alone
  <1>6. /\ page' \in [Mutators \cup {Sweeper} -> {"none", "regular", "large"}]
        /\ \A u \in (Mutators \cup {Sweeper}) \ {t} : page'[u] = page[u]
        /\ sweep_large' \in Nat /\ sweep_regular' \in Nat
        /\ sweep_large' # 0 => sweep_large # 0
        /\ sweep_regular' # 0 => sweep_regular # 0
    <2>1. SpaceOK
      BY CallKept
    <2>2. CASE UNCHANGED pages
      BY <2>1, <2>2 DEF SpaceOK
    <2>3. CASE TakeRegular(t)
      <3>1. sweep_regular' \in Nat /\ sweep_regular # 0
        BY SMT, <2>1, <2>3 DEF SpaceOK, TakeRegular
      <3> QED BY <2>1, <2>3, <3>1 DEF SpaceOK, TakeRegular
    <2>4. CASE TakeLarge(t)
      <3>1. sweep_large' \in Nat /\ sweep_large # 0
        BY SMT, <2>1, <2>4 DEF SpaceOK, TakeLarge
      <3> QED BY <2>1, <2>4, <3>1 DEF SpaceOK, TakeLarge
    <2>5. CASE PutPage(t)
      BY <2>1, <2>5 DEF SpaceOK, PutPage
    <2> QED BY <2>2, <2>3, <2>4, <2>5 DEF AssistSweeping
  <1>7. SpaceOK'
    BY <1>1, <1>6, CallKept DEF SpaceOK
  <1>8. CountsExact' /\ Live' = Live
    BY <1>1, <1>2, <1>3, <1>4, SameCounts
  <1>9. PhaseExact' /\ ListsPlaced'
    BY <1>1, <1>6, <1>8, CallKept, SweeperOther DEF PhaseExact, ListsPlaced
  <1>10. ThreadFits(t)'
    <2>1. /\ ThreadFits(t) /\ group = "alive"
      BY <1>2, CallKept, Busy
    <2>2. /\ call[t].ret \notin {"idle", "check"} => call[t].kind # "iterate"
          /\ call[t].ret = "reloading" => ~enabled /\ phase \notin Unfinalized
          /\ call[t].kind = "start" => enabled /\ phase \notin Unfinalized
      BY <1>2, <2>1 DEF ThreadFits, Fits
    <2>3. q = "iterate_final" => call[t].kind = "iterate"
      BY <1>3 DEF AfterAssist, Assisting
    <2>4. page'[t] # "none" => q \in Assisting
      BY <1>3
    <2>5. pc'[t] = q /\ q \notin {"pausing", "scavenging", "cards", "collect", "iterating", "reloading"}
      BY <1>2, <1>3, OwnerCounted
    <2>6. Fits(q, call[t].kind, call[t].ret, page'[t])
      BY <1>1, <1>4, <2>1, <2>2, <2>3, <2>4, <2>5 DEF Fits
    <2> QED BY <1>1, <2>5, <2>6 DEF ThreadFits, Fits
  <1>11. /\ call[t] \in Calls /\ call' = [call EXCEPT ![t] = call[t]] /\ group' = group
         /\ pc[t] \in Critical /\ q \in PCs /\ pc' = [pc EXCEPT ![t] = q]
    BY <1>1, <1>2, <1>3, <1>4, CallKept
  <1>12. /\ \A u \in Mutators \ {t} : page'[u] = page[u]
         /\ SpaceOK' /\ CountsExact' /\ PhaseExact' /\ ListsPlaced' /\ ThreadFits(t)'
    BY <1>6, <1>7, <1>8, <1>9, <1>10
  <1> QED BY <1>5, <1>11, <1>12, OwnerMoves

LEMMA CountedAre ==
  /\ {"collect", "spawn", "wait_roots", "gc_end"} \subseteq Counted \cap Gc
  /\ "iterating" \in Counted /\ "iterating" \in Iterates /\ "collect" \in Past
  /\ {"spawn", "wait_roots", "gc_end", "iterating"} \cap Past = {}
  /\ {"collect", "spawn", "wait_roots", "gc_end"} \cap Iterates = {}
  /\ Counted \cap Assisting = {} /\ "idle" \notin Counted
  /\ "iterating" \notin Gc
  BY SMT DEF Counted, Gc, Past, Assisting, Iterates

LEMMA WaitForTasksInv ==
  ASSUME IInv, NEW t \in Mutators, WaitForTasks(t)
  PROVE  IInv'
  <1>1. CASE Wait(t)
    BY <1>1, Waits
  <1>2. CASE ~Wait(t)
    <2>1. /\ tasks = 0 /\ tasks' = 1 /\ pc' = [pc EXCEPT ![t] = "collect"] /\ pc[t] = "gc_wait"
          /\ UNCHANGED <<phase, marker_tasks, active, pause, enabled, marker, helpers,
                         pages, safepoint, call, group>>
      BY <1>2 DEF WaitForTasks, Goto
    <2>2. /\ pc[t] \in Critical /\ pc[t] \in Past /\ pc[t] # "idle" /\ pc[t] \notin Assisting
          /\ "collect" \in PCs /\ "collect" \in Critical /\ "collect" \in Counted
      BY <2>1, GcAre, CountedAre, Places, CalmPlaces DEF Calm
    <2>3. safepoint = t /\ group = "alive" /\ page[t] = "none"
      BY <2>2, Alone, Busy, NoPage
    <2>4. marker_tasks = 0 /\ sweeper = "none" /\ Live' = Live /\ Running' = Running
      BY <2>1, NoTasks DEF Live, Running
    <2>5. CountsExact'
      <3>1. marker_tasks' = Cardinality(Live') /\ active' = Cardinality(Running')
        BY <2>1, <2>4, LiveCounted
      <3>2. tasks' = marker_tasks' + (IF sweeper' = "none" THEN 0 ELSE 1)
                      + (IF "collect" \in Counted THEN 1 ELSE 0)
        BY SMT, <2>1, <2>2, <2>4
      <3> QED BY <2>1, <2>2, <3>1, <3>2, OwnerCounts
    <2>6. SpaceOK' /\ PhaseExact' /\ ListsPlaced'
      <3>1. tasks' \in Nat
        BY SMT, <2>1
      <3> QED BY <2>1, <2>3, <2>4, <3>1, CallKept DEF SpaceOK, PhaseExact, ListsPlaced
    <2>7. ThreadFits(t)'
      <3>1. pc'[t] = "collect"
        BY <2>1, <2>2, OwnerCounted
      <3>2. ThreadFits(t)
        BY CallKept
      <3> QED BY <2>1, <2>2, <2>3, <3>1, <3>2, CountedAre DEF ThreadFits, Fits
    <2>8. safepoint' = IF "collect" \in Critical THEN t ELSE None
      BY <2>1, <2>2, <2>3
    <2> QED BY <2>1, <2>2, <2>5, <2>6, <2>7, <2>8, CallKept, OwnerMoves
  <1> QED BY <1>1, <1>2

\* What the collector knows when it is the only task.
LEMMA Collecting ==
  ASSUME IInv, NEW t \in Mutators, pc[t] = "collect"
  PROVE  /\ pc[t] \in Critical /\ safepoint = t /\ group = "alive" /\ page[t] = "none"
         /\ tasks = 1 /\ marker_tasks = 0 /\ active = 0
         /\ Live = {} /\ Running = {} /\ sweeper = "none"
         /\ call[t].kind = "start" => enabled /\ phase \notin Unfinalized
         /\ call[t].ret \notin {"idle", "check"} => call[t].kind # "iterate"
         /\ call[t].ret = "reloading" => ~enabled
  <1>1. /\ pc[t] \in Counted /\ pc[t] \in Critical /\ pc[t] \in Past /\ pc[t] \notin Assisting
        /\ pc[t] # "idle"
    BY CountedAre, Places
  <1>2. /\ tasks = 1 /\ page[t] = "none"
        /\ call[t].kind = "start" => enabled /\ phase \notin Unfinalized
        /\ call[t].ret \notin {"idle", "check"} => call[t].kind # "iterate"
        /\ call[t].ret = "reloading" => ~enabled
    BY <1>1, CallKept DEF ThreadFits, Fits
  <1>3. Live = {} /\ sweeper = "none" /\ marker_tasks = 0 /\ active = 0
    BY <1>1, <1>2, OnlyTask
  <1>4. safepoint = t /\ group = "alive" /\ Running = {}
    BY <1>1, <1>3, Alone, Busy, LiveCounted
  <1> QED BY <1>1, <1>2, <1>3, <1>4

LEMMA CollectGarbageHelperInv ==
  ASSUME IInv, NEW t \in Mutators, CollectGarbageHelper(t)
  PROVE  IInv'
  <1>1. /\ pc[t] = "collect" /\ marker' = FALSE /\ pc' = [pc EXCEPT ![t] = "gc_end"]
        /\ UNCHANGED <<marker_tasks, active, pause, enabled, task, roots, page, safepoint,
                       call, group>>
    BY DEF CollectGarbageHelper, Goto
  <1>2. /\ pc[t] \in Critical /\ safepoint = t /\ group = "alive" /\ page[t] = "none"
        /\ tasks = 1 /\ marker_tasks = 0 /\ active = 0 /\ Live = {} /\ Running = {}
        /\ sweeper = "none"
        /\ call[t].ret \notin {"idle", "check"} => call[t].kind # "iterate"
        /\ call[t].ret = "reloading" => ~enabled
    BY <1>1, Collecting
  <1>3. /\ \/ phase' = kDone /\ UNCHANGED <<tasks, sweeper, sweep_large, sweep_regular>>
           \/ /\ phase' = kSweepingLarge /\ tasks' = tasks + 1 /\ sweeper' = "queued"
              /\ sweep_large' = LargePages /\ sweep_regular' = RegularPages
    BY DEF CollectGarbageHelper
  <1>4. Live' = {} /\ Running' = {} /\ Live' = Live /\ Running' = Running
    BY <1>1, <1>2 DEF Live, Running
  <1>5. "gc_end" \in Counted /\ "gc_end" \in Critical /\ "gc_end" \in PCs
    BY CountedAre, Places
  <1>6. CountsExact'
    <2>1. marker_tasks' = Cardinality(Live') /\ active' = Cardinality(Running')
      BY <1>1, <1>4, LiveCounted
    <2>2. tasks' = marker_tasks' + (IF sweeper' = "none" THEN 0 ELSE 1)
                    + (IF "gc_end" \in Counted THEN 1 ELSE 0)
      BY SMT, <1>1, <1>2, <1>3, <1>5
    <2> QED BY <1>1, <1>2, <2>1, <2>2, OwnerCounts
  <1>7. SpaceOK'
    <2>1. tasks' \in Nat /\ sweep_large' \in Nat /\ sweep_regular' \in Nat
      BY SMT, <1>2, <1>3, CallKept, OldSpaceAssumption DEF SpaceOK
    <2> QED BY <1>1, <1>3, <2>1, CallKept DEF SpaceOK
  <1>8. PhaseExact'
    BY <1>1, <1>2, <1>3, <1>4 DEF PhaseExact
  <1>9. ListsPlaced'
    BY <1>1, <1>2, <1>3, CallKept DEF ListsPlaced
  <1>10. ThreadFits(t)'
    <2>1. pc'[t] = "gc_end"
      BY <1>1, <1>2, OwnerCounted
    <2>2. phase' \notin Unfinalized
      BY <1>3
    <2> QED BY <1>1, <1>2, <2>1, <2>2, CountedAre DEF ThreadFits, Fits
  <1>11. safepoint' = IF "gc_end" \in Critical THEN t ELSE None
    BY <1>1, <1>2, <1>5
  <1> QED BY <1>1, <1>2, <1>5, <1>6, <1>7, <1>8, <1>9, <1>10, <1>11, CallKept, OwnerMoves

LEMMA StartConcurrentMarkInv ==
  ASSUME IInv, NEW t \in Mutators, StartConcurrentMark(t)
  PROVE  IInv'
  <1> DEFINE n == Cardinality(Markers)
  <1>1. /\ pc[t] = "collect" /\ marker' = TRUE /\ phase' = kMarking
        /\ tasks' = tasks + n /\ marker_tasks' = marker_tasks + n /\ active' = active + n
        /\ task' = [m \in Markers |-> "new"] /\ pc' = [pc EXCEPT ![t] = "spawn"]
        /\ call[t].kind = "start"
        /\ UNCHANGED <<pause, enabled, sweeper, pages, safepoint, call, group>>
    BY DEF StartConcurrentMark, Goto
  <1>2. /\ pc[t] \in Critical /\ safepoint = t /\ group = "alive" /\ page[t] = "none"
        /\ tasks = 1 /\ marker_tasks = 0 /\ active = 0 /\ sweeper = "none"
        /\ call[t].ret # "reloading"
    BY <1>1, Collecting
  <1>3. Live' = Markers /\ Running' = Markers /\ Markers # {}
    BY <1>1, OldSpaceAssumption DEF Live, Running
  <1>4. n \in Nat
    BY Counting
  <1>5. "spawn" \in Counted /\ "spawn" \in Critical /\ "spawn" \in PCs /\ "spawn" \in Gc
    BY CountedAre, Places
  <1> HIDE DEF n
  <1>6. tasks' = 1 + n /\ marker_tasks' = n /\ active' = n /\ tasks' \in Nat
    BY SMT, <1>1, <1>2, <1>4
  <1>7. CountsExact'
    <2>1. marker_tasks' = Cardinality(Live') /\ active' = Cardinality(Running')
      BY <1>3, <1>6 DEF n
    <2>2. tasks' = marker_tasks' + (IF sweeper' = "none" THEN 0 ELSE 1)
                    + (IF "spawn" \in Counted THEN 1 ELSE 0)
      BY SMT, <1>1, <1>2, <1>4, <1>5, <1>6
    <2> QED BY <1>1, <1>2, <2>1, <2>2, OwnerCounts
  <1>8. SpaceOK'
    BY <1>1, <1>4, <1>6, CallKept DEF SpaceOK
  <1>9. PhaseExact' /\ ListsPlaced'
    BY <1>1, <1>2, <1>3, CallKept DEF PhaseExact, ListsPlaced
  <1>10. ThreadFits(t)'
    <2>1. pc'[t] = "spawn"
      BY <1>1, <1>2, OwnerCounted
    <2> QED BY <1>1, <1>2, <1>5, <2>1, CountedAre DEF ThreadFits, Fits
  <1>11. safepoint' = IF "spawn" \in Critical THEN t ELSE None
    BY <1>1, <1>2, <1>5
  <1> QED BY <1>1, <1>2, <1>5, <1>7, <1>8, <1>9, <1>10, <1>11, CallKept, OwnerMoves

\* The rest of StartConcurrentMark.
LEMMA SpawnSteps ==
  ASSUME IInv, NEW t \in Mutators,
         (\E m \in Markers : SpawnMarker(t, m)) \/ WaitForRoots(t)
  PROVE  IInv'
  <1>1. PICK q \in {"spawn", "wait_roots", "gc_end"} :
          /\ pc' = [pc EXCEPT ![t] = q] /\ pc[t] \in {"spawn", "wait_roots"}
          /\ UNCHANGED <<space, sweeper, pages, safepoint, call, group>>
    BY CallKept DEF SpawnMarker, WaitForRoots, Goto
  <1>2. /\ task' \in [Markers -> {"none", "new", "queued", "roots", "marking", "paused", "left"}]
        /\ Live' = Live /\ Running' = Running
    <2>1. task \in [Markers -> {"none", "new", "queued", "roots", "marking", "paused", "left"}]
      BY CallKept DEF SpaceOK
    <2>2. CASE WaitForRoots(t)
      BY <2>1, <2>2 DEF WaitForRoots, Live, Running
    <2>3. ASSUME NEW m \in Markers, SpawnMarker(t, m)
          PROVE  /\ task' \in [Markers -> {"none", "new", "queued", "roots", "marking", "paused", "left"}]
                 /\ Live' = Live /\ Running' = Running
      <3>1. task[m] = "new" /\ task' = [task EXCEPT ![m] = "queued"]
        BY <2>3 DEF SpawnMarker
      <3>2. task'[m] = "queued" /\ \A n \in Markers \ {m} : task'[n] = task[n]
        BY <2>1, <3>1
      <3> QED BY <2>1, <3>1, <3>2 DEF Live, Running
    <2> QED BY <2>2, <2>3
  <1>3. /\ pc[t] \in Critical /\ pc[t] \in Counted /\ pc[t] \in Gc /\ pc[t] # "idle"
        /\ pc[t] \notin Assisting
        /\ q \in Counted /\ q \in Critical /\ q \in PCs /\ q \in Gc /\ q \notin Past
        /\ q \notin Iterates
    BY <1>1, CountedAre, Places
  <1>4. safepoint = t /\ group = "alive" /\ page[t] = "none" /\ ThreadFits(t)
    BY <1>3, Alone, Busy, NoPage, CallKept
  <1>5. CountsExact'
    <2>1. marker_tasks' = Cardinality(Live') /\ active' = Cardinality(Running')
      BY <1>1, <1>2, LiveCounted
    <2>2. tasks' = marker_tasks' + (IF sweeper' = "none" THEN 0 ELSE 1)
                    + (IF q \in Counted THEN 1 ELSE 0)
      BY <1>1, <1>3, OwnerCounted
    <2> QED BY <1>1, <1>3, <2>1, <2>2, OwnerCounts
  <1>6. SpaceOK' /\ PhaseExact' /\ ListsPlaced'
    BY <1>1, <1>2, CallKept DEF SpaceOK, PhaseExact, ListsPlaced
  <1>7. ThreadFits(t)'
    <2>1. pc'[t] = q
      BY <1>1, <1>3, OwnerCounted
    <2> QED BY <1>1, <1>3, <1>4, <2>1 DEF ThreadFits, Fits
  <1>8. safepoint' = IF q \in Critical THEN t ELSE None
    BY <1>1, <1>3, <1>4
  <1> QED BY <1>1, <1>3, <1>5, <1>6, <1>7, <1>8, CallKept, OwnerMoves

\* The end of a call, whatever it does to the counters.
LEMMA ReturnFits ==
  ASSUME IInv, NEW t \in Mutators, Return(t), pc[t] \in Critical \ Assisting,
         UNCHANGED <<page, phase, enabled, group>>
  PROVE  \E q \in PCs, c \in Calls :
           /\ pc' = [pc EXCEPT ![t] = q] /\ call' = [call EXCEPT ![t] = c]
           /\ safepoint' = (IF q \in Critical THEN t ELSE None)
           /\ q \notin Counted /\ ThreadFits(t)'
  <1> DEFINE q == call[t].ret
             k == IF call[t].ret = "iterate_wait" THEN "iterate" ELSE "none"
             c == [kind |-> k, compact |-> FALSE, ret |-> "idle"]
  <1>1. pc' = [pc EXCEPT ![t] = q] /\ call' = [call EXCEPT ![t] = c]
    BY DEF Return, Goto
  <1>2. q \in Rets /\ ThreadFits(t) /\ call \in [Mutators -> Calls]
    BY DEF IInv, TypeOK, Calls
  <1>3. /\ c \in Calls /\ c.kind = k /\ c.ret = "idle" /\ k # "start"
        /\ q = "iterate_wait" => k = "iterate"
    BY DEF Calls, Kinds, Rets
  <1>4. /\ q \in PCs /\ q \notin Counted /\ (q \in Critical <=> q \notin {"idle", "check"})
        /\ q \notin {"pausing", "scavenging", "cards", "collect", "iterating"}
        /\ q \in Iterates => q = "iterate_wait"
    BY SMT, <1>2 DEF Rets, PCs, Counted, Critical, Iterates, Past, Assisting, Gc, Outside
  <1>5. page[t] = "none" /\ group = "alive"
    <2>1. "idle" \notin Critical
      BY Places, OutsideAre
    <2> QED BY <2>1, NoPage, Busy
  <1>6. q = "reloading" => ~enabled /\ phase \notin Unfinalized
    BY <1>2 DEF ThreadFits, Fits
  <1>7. safepoint' = IF q \in Critical THEN t ELSE None
    BY <1>4 DEF Return
  <1>8. pc'[t] = q /\ call'[t] = c
    BY <1>1, <1>2, OwnerCounted
  <1> HIDE DEF q, c, k
  <1>9. ThreadFits(t)'
    BY <1>3, <1>4, <1>5, <1>6, <1>8 DEF ThreadFits, Fits
  <1> QED BY <1>1, <1>3, <1>4, <1>7, <1>9

LEMMA CollectGarbageEndsInv ==
  ASSUME IInv, NEW t \in Mutators, CollectGarbageEnds(t)
  PROVE  IInv'
  <1>1. /\ pc[t] = "gc_end" /\ tasks' = tasks - 1 /\ Return(t)
        /\ UNCHANGED <<phase, marker_tasks, active, pause, enabled, marker, helpers, pages, group>>
    BY DEF CollectGarbageEnds
  <1>2. pc[t] \in Critical \ Assisting /\ pc[t] \in Counted /\ pc[t] # "idle"
    BY <1>1, CountedAre, Places
  <1>3. PICK q \in PCs, c \in Calls :
          /\ pc' = [pc EXCEPT ![t] = q] /\ call' = [call EXCEPT ![t] = c]
          /\ safepoint' = (IF q \in Critical THEN t ELSE None)
          /\ q \notin Counted /\ ThreadFits(t)'
    BY <1>1, <1>2, ReturnFits
  <1>4. tasks = marker_tasks + (IF sweeper = "none" THEN 0 ELSE 1) + 1 /\ marker_tasks \in Nat
    BY <1>2, <1>3, OwnerCounted, CallKept DEF SpaceOK
  <1>5. /\ tasks' = marker_tasks + (IF sweeper = "none" THEN 0 ELSE 1)
        /\ marker_tasks + (IF sweeper = "none" THEN 0 ELSE 1)
             = marker_tasks + (IF sweeper = "none" THEN 0 ELSE 1) + 0
        /\ tasks' \in Nat
    BY SMT, <1>1, <1>4
  <1>6. Live' = Live /\ Running' = Running
    BY <1>1 DEF Live, Running
  <1>7. CountsExact'
    <2>1. marker_tasks' = Cardinality(Live') /\ active' = Cardinality(Running')
      BY <1>1, <1>6, LiveCounted
    <2>2. tasks' = marker_tasks' + (IF sweeper' = "none" THEN 0 ELSE 1)
                    + (IF q \in Counted THEN 1 ELSE 0)
      BY <1>1, <1>3, <1>5
    <2> QED BY <1>2, <1>3, <2>1, <2>2, OwnerCounts
  <1>8. group = "alive"
    BY <1>2, Busy
  <1>9. SpaceOK' /\ PhaseExact' /\ ListsPlaced'
    BY <1>1, <1>5, <1>6, <1>8, CallKept DEF SpaceOK, PhaseExact, ListsPlaced
  <1> QED BY <1>1, <1>2, <1>3, <1>7, <1>9, OwnerMoves

LEMMA IterationBeginsInv ==
  ASSUME IInv, NEW t \in Mutators, IterationBegins(t)
  PROVE  IInv'
  <1>1. /\ pc[t] = "iterate" /\ tasks = 0 /\ phase = kDone /\ tasks' = 1
        /\ pc' = [pc EXCEPT ![t] = "iterating"]
        /\ UNCHANGED <<phase, marker_tasks, active, pause, enabled, marker, helpers, pages,
                       safepoint, call, group>>
    BY DEF IterationBegins, Goto
  <1>2. /\ pc[t] \in Critical /\ pc[t] # "idle" /\ pc[t] \notin Assisting /\ pc[t] \in Iterates
        /\ pc[t] \notin Gc
        /\ "iterating" \in PCs /\ "iterating" \in Critical /\ "iterating" \in Counted
    BY <1>1, GcAre, CountedAre, Places, CalmPlaces DEF Calm, Iterates
  <1>3. safepoint = t /\ group = "alive" /\ page[t] = "none" /\ call[t].ret \in {"idle", "check"}
    BY <1>2, Alone, Busy, NoPage, CalmReturns
  <1>4. marker_tasks = 0 /\ sweeper = "none" /\ Live' = Live /\ Running' = Running
    BY <1>1, NoTasks DEF Live, Running
  <1>5. CountsExact'
    <2>1. marker_tasks' = Cardinality(Live') /\ active' = Cardinality(Running')
      BY <1>1, <1>4, LiveCounted
    <2>2. tasks' = marker_tasks' + (IF sweeper' = "none" THEN 0 ELSE 1)
                    + (IF "iterating" \in Counted THEN 1 ELSE 0)
      BY SMT, <1>1, <1>2, <1>4
    <2> QED BY <1>1, <1>2, <2>1, <2>2, OwnerCounts
  <1>6. SpaceOK' /\ PhaseExact' /\ ListsPlaced'
    <2>1. tasks' \in Nat
      BY SMT, <1>1
    <2> QED BY <1>1, <1>3, <1>4, <2>1, CallKept DEF SpaceOK, PhaseExact, ListsPlaced
  <1>7. ThreadFits(t)'
    <2>1. pc'[t] = "iterating"
      BY <1>1, <1>2, OwnerCounted
    <2>2. call[t].kind = "iterate"
      BY <1>2, CallKept DEF ThreadFits, Fits
    <2> QED BY <1>1, <1>3, <2>1, <2>2, CountedAre DEF ThreadFits, Fits
  <1>8. safepoint' = IF "iterating" \in Critical THEN t ELSE None
    BY <1>1, <1>2, <1>3
  <1> QED BY <1>1, <1>2, <1>5, <1>6, <1>7, <1>8, CallKept, OwnerMoves

LEMMA IterationEndsInv ==
  ASSUME IInv, NEW t \in Mutators, IterationEnds(t)
  PROVE  IInv'
  <1>1. /\ pc[t] = "iterating" /\ tasks' = 0 /\ Return(t)
        /\ UNCHANGED <<phase, marker_tasks, active, pause, enabled, marker, helpers, pages, group>>
    BY DEF IterationEnds
  <1>2. pc[t] \in Critical \ Assisting /\ pc[t] \in Counted /\ pc[t] # "idle"
    BY <1>1, CountedAre, Places
  <1>3. PICK q \in PCs, c \in Calls :
          /\ pc' = [pc EXCEPT ![t] = q] /\ call' = [call EXCEPT ![t] = c]
          /\ safepoint' = (IF q \in Critical THEN t ELSE None)
          /\ q \notin Counted /\ ThreadFits(t)'
    BY <1>1, <1>2, ReturnFits
  <1>4. tasks = 1
    BY <1>1, CallKept DEF ThreadFits, Fits
  <1>5. marker_tasks = 0 /\ sweeper = "none" /\ Live' = Live /\ Running' = Running
    BY <1>1, <1>2, <1>4, OnlyTask DEF Live, Running
  <1>6. CountsExact'
    <2>1. marker_tasks' = Cardinality(Live') /\ active' = Cardinality(Running')
      BY <1>1, <1>5, LiveCounted
    <2>2. tasks' = marker_tasks' + (IF sweeper' = "none" THEN 0 ELSE 1)
                    + (IF q \in Counted THEN 1 ELSE 0)
      BY SMT, <1>1, <1>3, <1>5
    <2> QED BY <1>2, <1>3, <2>1, <2>2, OwnerCounts
  <1>7. group = "alive"
    BY <1>2, Busy
  <1>8. SpaceOK' /\ PhaseExact' /\ ListsPlaced'
    <2>1. tasks' \in Nat
      BY SMT, <1>1
    <2> QED BY <1>1, <1>5, <1>7, <2>1, CallKept DEF SpaceOK, PhaseExact, ListsPlaced
  <1> QED BY <1>1, <1>2, <1>3, <1>6, <1>8, OwnerMoves

\* PauseConcurrentMarking and ResumeConcurrentMarking.
LEMMA PauseSteps ==
  ASSUME IInv, NEW t \in Mutators, PauseConcurrentMarking(t) \/ ResumeConcurrentMarking(t)
  PROVE  IInv'
  <1>1. PICK q \in {"pausing", "scavenged"} :
          /\ pc' = [pc EXCEPT ![t] = q] /\ pc[t] \in {"scavenge", "cards"}
          /\ pause' = IF q = "pausing" THEN 1 ELSE 0
          /\ UNCHANGED <<phase, tasks, marker_tasks, active, enabled, marker, helpers, pages,
                         safepoint, call, group>>
    BY DEF PauseConcurrentMarking, ResumeConcurrentMarking, Goto
  <1>2. /\ pc[t] \in Calm /\ q \in Calm /\ q \notin Gc /\ q \notin Past /\ q \notin Iterates
        /\ pc[t] \notin Gc
    BY <1>1, GcAre DEF Calm
  <1>3. /\ pc[t] \in Critical /\ pc[t] \notin Counted /\ pc[t] \notin Assisting /\ pc[t] # "idle"
        /\ q \in Critical /\ q \notin Counted /\ q \in PCs
    BY <1>2, CalmPlaces
  <1>4. safepoint = t /\ group = "alive" /\ page[t] = "none" /\ call[t].ret \in {"idle", "check"}
    BY <1>2, <1>3, Alone, Busy, NoPage, CalmReturns
  <1>5. CountsExact' /\ Live' = Live
    BY <1>1, <1>3, SameCounts
  <1>6. SpaceOK' /\ PhaseExact' /\ ListsPlaced'
    BY <1>1, <1>5, CallKept DEF SpaceOK, PhaseExact, ListsPlaced
  <1>7. ThreadFits(t)'
    <2>1. pc'[t] = q
      BY <1>1, <1>3, OwnerCounted
    <2> QED BY <1>1, <1>2, <1>4, <2>1 DEF ThreadFits, Fits
  <1>8. safepoint' = IF q \in Critical THEN t ELSE None
    BY <1>1, <1>3, <1>4
  <1> QED BY <1>1, <1>3, <1>5, <1>6, <1>7, <1>8, CallKept, OwnerMoves

\* A reload, which turns concurrent marking off and on again.
LEMMA ReloadSteps ==
  ASSUME IInv, NEW t \in Mutators, WaitForMarkerTasks(t) \/ ReloadEnds(t)
  PROVE  IInv'
  <1>1. CASE Wait(t)
    BY <1>1, Waits
  <1>2. CASE /\ pc[t] = "reload_wait" /\ Runs(t) /\ Begin(t, "finalize", FALSE, "reload_wait")
             /\ UNCHANGED <<space, helpers, pages, safepoint, group>>
    BY <1>2, KindsAre, RetsAre, CalmBegin DEF Calm
  <1>3. CASE \E q \in {"reloading", "idle"} :
               /\ pc' = [pc EXCEPT ![t] = q] /\ pc[t] \in {"reload_wait", "reloading"}
               /\ enabled' = (q = "idle") /\ phase \notin Unfinalized
               /\ safepoint' = IF q = "idle" THEN None ELSE safepoint
               /\ UNCHANGED <<phase, tasks, marker_tasks, active, pause, marker, helpers, pages,
                              call, group>>
    <2>1. PICK q \in {"reloading", "idle"} :
               /\ pc' = [pc EXCEPT ![t] = q] /\ pc[t] \in {"reload_wait", "reloading"}
               /\ enabled' = (q = "idle") /\ phase \notin Unfinalized
               /\ safepoint' = IF q = "idle" THEN None ELSE safepoint
               /\ UNCHANGED <<phase, tasks, marker_tasks, active, pause, marker, helpers, pages,
                              call, group>>
      BY <1>3
    <2>2. /\ pc[t] \in Critical /\ pc[t] \notin Counted /\ pc[t] \notin Assisting /\ pc[t] # "idle"
          /\ pc[t] \notin Gc
      BY <2>1, CalmPlaces, GcAre DEF Calm
    <2>3. /\ q \in PCs /\ q \notin Counted /\ (q \in Critical <=> q # "idle") /\ q \notin Past
          /\ q \notin Iterates
      BY CalmPlaces, OutsideAre, GcAre, Places DEF Calm
    <2>4. safepoint = t /\ group = "alive" /\ page[t] = "none" /\ call[t].ret \in {"idle", "check"}
      BY <2>2, Alone, Busy, NoPage, CalmReturns
    <2>5. CountsExact' /\ Live' = Live
      BY <2>1, <2>2, <2>3, SameCounts
    <2>6. SpaceOK' /\ PhaseExact' /\ ListsPlaced'
      BY <2>1, <2>5, CallKept DEF SpaceOK, PhaseExact, ListsPlaced
    <2>7. ThreadFits(t)'
      <3>1. pc'[t] = q
        BY <2>1, <2>2, OwnerCounted
      <3> QED BY <2>1, <2>3, <2>4, <3>1 DEF ThreadFits, Fits
    <2>8. safepoint' = IF q \in Critical THEN t ELSE None
      BY <2>1, <2>3, <2>4
    <2> QED BY <2>1, <2>2, <2>3, <2>5, <2>6, <2>7, <2>8, CallKept, OwnerMoves
  <1>4. CASE ReloadEnds(t)
    <2>1. phase \notin Unfinalized
      BY <1>4, CallKept DEF ReloadEnds, ThreadFits, Fits
    <2> QED BY <1>3, <1>4, <2>1 DEF ReloadEnds, Goto
  <1>5. CASE WaitForMarkerTasks(t)
    BY <1>1, <1>2, <1>3, <1>5 DEF WaitForMarkerTasks, Goto
  <1> QED BY <1>4, <1>5

-----------------------------------------------------------------------------
(* Steps of the marker tasks and of the sweeper task *)

\* A thread that does not move keeps what it relies on when a task only lowers it.
LEMMA FitsHelped ==
  ASSUME NEW t, Fits(pc'[t], call'[t].kind, call'[t].ret, page'[t]),
         pause' = pause, enabled' = enabled, group' = group,
         (active = 0 => active' = 0) \/ pc'[t] \notin {"scavenging", "cards"},
         tasks' = tasks \/ pc'[t] \notin {"collect", "iterating"},
         phase' = kSweepingLarge => phase = kSweepingLarge,
         phase' \in Unfinalized => phase \in Unfinalized,
         phase = kDone => phase' = kDone
  PROVE  ThreadFits(t)'
  <1>1. pc'[t] \in {"scavenging", "cards"} => active' = 0
    BY DEF Fits
  <1>2. pc'[t] \in {"collect", "iterating"} => tasks' = 1
    BY DEF Fits
  <1>3. (pc'[t] = "cards" => phase' # kSweepingLarge) /\ (pc'[t] = "iterating" => phase' = kDone)
    BY DEF Fits
  <1>4. pc'[t] \in Past /\ call'[t].kind = "start" => enabled' /\ phase' \notin Unfinalized
    BY DEF Fits
  <1>5. pc'[t] = "reloading" \/ call'[t].ret = "reloading" => ~enabled' /\ phase' \notin Unfinalized
    BY DEF Fits
  <1>6. /\ page'[t] # "none" => pc'[t] \in Assisting
        /\ call'[t].ret \notin {"idle", "check"} => pc'[t] \in Gc /\ call'[t].kind # "iterate"
        /\ pc'[t] \in Iterates => call'[t].kind = "iterate"
        /\ pc'[t] \in {"pausing", "scavenging", "cards"} => pause' = 1
        /\ pc'[t] # "idle" => group' = "alive"
    BY DEF Fits
  <1> QED BY <1>1, <1>2, <1>3, <1>4, <1>5, <1>6 DEF ThreadFits, Fits

\* What a task may do to what the threads rely on.
LEMMA HelperMoves ==
  ASSUME IInv, UNCHANGED <<pc, call, safepoint, pause, enabled, group>>,
         \A t \in Mutators : page'[t] = page[t],
         SpaceOK', CountsExact', PhaseExact', ListsPlaced',
         tasks' = tasks \/ \A t \in Mutators : pc[t] \notin {"collect", "iterating"},
         (active = 0 => active' = 0) \/ pause = 0,
         phase' = kSweepingLarge => phase = kSweepingLarge,
         phase' \in Unfinalized => phase \in Unfinalized,
         phase = kDone => phase' = kDone
  PROVE  IInv'
  <1>1. TypeOK' /\ OwnerInside'
    BY DEF IInv, TypeOK, OwnerInside
  <1>2. ASSUME NEW t \in Mutators PROVE ThreadFits(t)'
    <2>1. ThreadFits(t)
      BY DEF IInv
    <2>2. (active = 0 => active' = 0) \/ pc[t] \notin {"scavenging", "cards"}
      <3>1. CASE pause = 0
        <4>1. 0 # 1
          BY SMT
        <4> QED BY <2>1, <3>1, <4>1 DEF ThreadFits, Fits
      <3> QED BY <3>1
    <2>3. /\ pc'[t] = pc[t] /\ call'[t] = call[t] /\ page'[t] = page[t]
          /\ pause' = pause /\ enabled' = enabled /\ group' = group
          /\ tasks' = tasks \/ pc[t] \notin {"collect", "iterating"}
      OBVIOUS
    <2>4. Fits(pc'[t], call'[t].kind, call'[t].ret, page'[t])
      BY <2>1, <2>3 DEF ThreadFits
    <2>5. (active = 0 => active' = 0) \/ pc'[t] \notin {"scavenging", "cards"}
      BY <2>2, <2>3
    <2>6. tasks' = tasks \/ pc'[t] \notin {"collect", "iterating"}
      BY <2>3
    <2> QED BY <2>3, <2>4, <2>5, <2>6, FitsHelped
  <1> QED BY <1>1, <1>2 DEF IInv

\* The counters when a task moves, and d of them are new or gone.
LEMMA HelperCounts ==
  ASSUME IInv, UNCHANGED pc, NEW d \in {-1, 0},
         marker_tasks' = Cardinality(Live'), active' = Cardinality(Running'),
         tasks' = tasks + d,
         marker_tasks' + (IF sweeper' = "none" THEN 0 ELSE 1)
           = marker_tasks + (IF sweeper = "none" THEN 0 ELSE 1) + d,
         marker_tasks' \in Nat
  PROVE  CountsExact' /\ tasks' \in Nat
  <1> DEFINE c == \E t \in Mutators : pc[t] \in Counted
  <1>1. /\ tasks = marker_tasks + (IF sweeper = "none" THEN 0 ELSE 1) + (IF c THEN 1 ELSE 0)
        /\ marker_tasks \in Nat
    BY DEF IInv, CountsExact, TypeOK, SpaceOK
  <1> HIDE DEF c
  <1>2. /\ tasks' = marker_tasks' + (IF sweeper' = "none" THEN 0 ELSE 1) + (IF c THEN 1 ELSE 0)
        /\ tasks' \in Nat
    BY SMT, <1>1
  <1> QED BY <1>2 DEF CountsExact, c

LEMMA NobodyCollects ==
  ASSUME IInv, Live # {} \/ sweeper # "none"
  PROVE  \A t \in Mutators : pc[t] \notin {"collect", "iterating"}
  <1> SUFFICES ASSUME NEW t \in Mutators, pc[t] \in {"collect", "iterating"} PROVE FALSE
    OBVIOUS
  <1>1. pc[t] \in Counted /\ tasks = 1
    BY CountedAre DEF IInv, ThreadFits, Fits
  <1> QED BY <1>1, OnlyTask

TaskStates == {"none", "new", "queued", "roots", "marking", "paused", "left"}

LEMMA TaskMoves ==
  ASSUME IInv, NEW m \in Markers, NEW q \in TaskStates, task' = [task EXCEPT ![m] = q]
  PROVE  /\ task' \in [Markers -> TaskStates]
         /\ q = "none" => Live' = Live \ {m}
         /\ q # "none" /\ m \in Live => Live' = Live
         /\ q = "none" \/ q = "paused" => Running' = Running \ {m}
         /\ q # "none" /\ q # "paused" => Running' = Running \cup {m}
         /\ q # "none" /\ q # "paused" /\ m \in Running => Running' = Running
         /\ Live \in SUBSET Markers /\ Running \in SUBSET Markers
  <1>1. task \in [Markers -> TaskStates]
    BY DEF IInv, TypeOK, SpaceOK, TaskStates
  <1>2. task'[m] = q /\ \A n \in Markers \ {m} : task'[n] = task[n]
    BY <1>1
  <1>3. task' \in [Markers -> TaskStates]
    BY <1>1
  <1> QED BY <1>2, <1>3 DEF Live, Running

\* A task that goes on, without the lock.
LEMMA MarkerGoesOn ==
  ASSUME IInv, NEW m \in Markers, MarkerStarts(m) \/ RootsMarked(m) \/ MarkerLeaves(m)
  PROVE  IInv'
  <1>1. PICK q \in {"roots", "marking", "left"} :
          /\ task' = [task EXCEPT ![m] = q] /\ task[m] \in {"queued", "roots", "marking"}
          /\ UNCHANGED <<space, sweeper, pages, pc, call, safepoint, group>>
    BY DEF MarkerStarts, RootsMarked, MarkerLeaves
  <1>2. m \in Live /\ m \in Running /\ q \in TaskStates /\ q # "none" /\ q # "paused"
    BY <1>1 DEF Live, Running, TaskStates
  <1>3. /\ task' \in [Markers -> TaskStates] /\ Live' = Live /\ Running' = Running
    BY <1>1, <1>2, TaskMoves
  <1>4. SpaceOK /\ PhaseExact /\ ListsPlaced /\ CountsExact
    BY DEF IInv, TypeOK
  <1>5. SpaceOK' /\ PhaseExact' /\ ListsPlaced' /\ CountsExact'
    BY <1>1, <1>3, <1>4 DEF SpaceOK, PhaseExact, ListsPlaced, CountsExact, TaskStates
  <1> QED BY <1>1, <1>5, HelperMoves

LEMMA YieldConcurrentMarkingInv ==
  ASSUME IInv, NEW m \in Markers, YieldConcurrentMarking(m)
  PROVE  IInv'
  <1>1. /\ task' = [task EXCEPT ![m] = "paused"] /\ task[m] = "marking" /\ active' = active - 1
        /\ UNCHANGED <<phase, tasks, marker_tasks, pause, enabled, marker, sweeper, pages,
                       pc, call, safepoint, group>>
    BY DEF YieldConcurrentMarking
  <1>2. m \in Live /\ m \in Running /\ "paused" \in TaskStates
    BY <1>1 DEF Live, Running, TaskStates
  <1>3. /\ task' \in [Markers -> TaskStates] /\ Live' = Live /\ Running' = Running \ {m}
        /\ Running \in SUBSET Markers
    BY <1>1, <1>2, TaskMoves
  <1>4. /\ SpaceOK /\ PhaseExact /\ ListsPlaced /\ CountsExact
    BY DEF IInv, TypeOK
  <1>5. active' = Cardinality(Running') /\ active # 0
    BY <1>1, <1>2, <1>3, <1>4, LiveCounted, Counting DEF CountsExact
  <1>6. active' \in Nat
    BY SMT, <1>1, <1>4, <1>5 DEF SpaceOK
  <1>7. SpaceOK' /\ PhaseExact' /\ ListsPlaced' /\ CountsExact'
    BY <1>1, <1>3, <1>4, <1>5, <1>6 DEF SpaceOK, PhaseExact, ListsPlaced, CountsExact, TaskStates
  <1> QED BY <1>1, <1>5, <1>7, HelperMoves

LEMMA MarkerResumesInv ==
  ASSUME IInv, NEW m \in Markers, MarkerResumes(m)
  PROVE  IInv'
  <1>1. CASE Wait(m)
    BY <1>1, Waits
  <1>2. CASE ~Wait(m)
    <2>1. /\ task' = [task EXCEPT ![m] = "marking"] /\ task[m] = "paused" /\ pause = 0
          /\ active' = active + 1
          /\ UNCHANGED <<phase, tasks, marker_tasks, pause, enabled, marker, sweeper, pages,
                         pc, call, safepoint, group>>
      BY <1>2 DEF MarkerResumes
    <2>2. /\ m \in Live /\ m \notin Running /\ "marking" \in TaskStates
          /\ "marking" # "none" /\ "marking" # "paused"
      BY <2>1 DEF Live, Running, TaskStates
    <2>3. /\ task' \in [Markers -> TaskStates] /\ Live' = Live /\ Running' = Running \cup {m}
          /\ Running \in SUBSET Markers
      BY <2>1, <2>2, TaskMoves
    <2>4. /\ SpaceOK /\ PhaseExact /\ ListsPlaced /\ CountsExact
      BY DEF IInv, TypeOK
    <2>5. active' = Cardinality(Running')
      BY <2>1, <2>2, <2>3, <2>4, Counting DEF CountsExact
    <2>6. active' \in Nat
      BY SMT, <2>1, <2>4 DEF SpaceOK
    <2>7. SpaceOK' /\ PhaseExact' /\ ListsPlaced' /\ CountsExact'
      BY <2>1, <2>3, <2>4, <2>5, <2>6 DEF SpaceOK, PhaseExact, ListsPlaced, CountsExact, TaskStates
    <2> QED BY <2>1, <2>7, HelperMoves
  <1> QED BY <1>1, <1>2

LEMMA MarkerEndsInv ==
  ASSUME IInv, NEW m \in Markers, MarkerEnds(m)
  PROVE  IInv'
  <1>1. /\ task' = [task EXCEPT ![m] = "none"] /\ task[m] = "left"
        /\ tasks' = tasks - 1 /\ marker_tasks' = marker_tasks - 1 /\ active' = active - 1
        /\ phase' = IF marker_tasks = 1 THEN kAwaitingFinalization ELSE phase
        /\ UNCHANGED <<pause, enabled, marker, sweeper, pages, pc, call, safepoint, group>>
    BY DEF MarkerEnds
  <1>2. m \in Live /\ m \in Running /\ "none" \in TaskStates
    BY <1>1 DEF Live, Running, TaskStates
  <1>3. /\ task' \in [Markers -> TaskStates] /\ Live' = Live \ {m} /\ Running' = Running \ {m}
        /\ Live \in SUBSET Markers /\ Running \in SUBSET Markers
    BY <1>1, <1>2, TaskMoves
  <1>4. /\ SpaceOK /\ PhaseExact /\ ListsPlaced /\ CountsExact
    BY DEF IInv, TypeOK
  <1>5. /\ active' = Cardinality(Running') /\ active # 0
        /\ marker_tasks' = Cardinality(Live') /\ marker_tasks # 0
        /\ Live' \in SUBSET Markers
    BY <1>1, <1>2, <1>3, <1>4, LiveCounted, Counting DEF CountsExact
  <1>6. /\ active' \in Nat /\ marker_tasks' \in Nat
        /\ marker_tasks = 1 <=> marker_tasks' = 0
        /\ tasks' = tasks + -1
        /\ marker_tasks' + (IF sweeper' = "none" THEN 0 ELSE 1)
             = marker_tasks + (IF sweeper = "none" THEN 0 ELSE 1) + -1
    BY SMT, <1>1, <1>4, <1>5 DEF SpaceOK
  <1>7. CountsExact' /\ tasks' \in Nat
    BY <1>1, <1>5, <1>6, HelperCounts
  <1>8. phase = kMarking /\ (marker_tasks = 1 <=> Live' = {})
    BY <1>2, <1>4, <1>5, <1>6, Counting DEF PhaseExact
  <1>9. group # "deleted"
    <2>1. tasks # 0
      BY <1>2, NoTasks
    <2> QED BY <1>4, <2>1 DEF PhaseExact
  <1>10. PhaseExact'
    BY <1>1, <1>4, <1>8, <1>9 DEF PhaseExact
  <1>11. SpaceOK' /\ ListsPlaced'
    BY <1>1, <1>3, <1>4, <1>6, <1>7 DEF SpaceOK, ListsPlaced, TaskStates
  <1>12. \A t \in Mutators : pc[t] \notin {"collect", "iterating"}
    BY <1>2, NobodyCollects
  <1> QED BY <1>1, <1>5, <1>7, <1>8, <1>10, <1>11, <1>12, HelperMoves

\* The sweeper goes on with its lists, without the lock.
LEMMA SweeperGoesOn ==
  ASSUME IInv, SweeperStarts \/ SweeperSweeps \/ SweeperLeaves
  PROVE  IInv'
  <1>1. UNCHANGED <<space, task, pc, call, safepoint, group>>
    BY DEF SweeperStarts, SweeperSweeps, SweeperLeaves
  <1>2. SpaceOK /\ PhaseExact /\ ListsPlaced /\ CountsExact
    BY DEF IInv, TypeOK
  <1>3. Live' = Live /\ Running' = Running
    BY <1>1 DEF Live, Running
  <1>4. CASE SweeperStarts
    <2>1. sweeper = "queued" /\ sweeper' = "large" /\ UNCHANGED pages
      BY <1>4 DEF SweeperStarts
    <2>2. SpaceOK' /\ PhaseExact' /\ ListsPlaced' /\ CountsExact'
      BY <1>1, <1>2, <1>3, <2>1 DEF SpaceOK, PhaseExact, ListsPlaced, CountsExact
    <2> QED BY <1>1, <2>1, <2>2, HelperMoves
  <1>5. CASE SweeperLeaves
    <2>1. /\ sweeper = "regular" /\ sweeper' = "left" /\ UNCHANGED pages
          /\ page[Sweeper] = "none" /\ sweep_regular = 0
      BY <1>5 DEF SweeperLeaves
    <2>2. SpaceOK' /\ PhaseExact' /\ ListsPlaced' /\ CountsExact'
      BY <1>1, <1>2, <1>3, <2>1 DEF SpaceOK, PhaseExact, ListsPlaced, CountsExact
    <2> QED BY <1>1, <2>1, <2>2, HelperMoves
  <1>6. CASE SweeperSweeps
    <2>1. /\ UNCHANGED sweeper
          /\ \/ sweeper = "large" /\ TakeLarge(Sweeper)
             \/ sweeper = "regular" /\ TakeRegular(Sweeper)
             \/ PutPage(Sweeper)
      BY <1>6 DEF SweeperSweeps
    <2>2. PICK g \in {"none", "large", "regular"} : page' = [page EXCEPT ![Sweeper] = g]
      BY <2>1 DEF TakeLarge, TakeRegular, PutPage
    <2>3. /\ page \in [Mutators \cup {Sweeper} -> {"none", "regular", "large"}]
          /\ Sweeper \in Mutators \cup {Sweeper} /\ Sweeper \notin Mutators
          /\ sweep_large \in Nat /\ sweep_regular \in Nat
      BY <1>2, OldSpaceAssumption DEF SpaceOK
    <2>4. /\ page' \in [Mutators \cup {Sweeper} -> {"none", "regular", "large"}]
          /\ page'[Sweeper] = g /\ \A t \in Mutators : page'[t] = page[t]
      BY <2>2, <2>3
    <2>5. /\ sweep_large' \in Nat /\ sweep_regular' \in Nat
          /\ sweep_large' # 0 => sweep_large # 0
          /\ sweep_regular' # 0 => sweep_regular # 0
      <3>1. CASE TakeLarge(Sweeper)
        <4>1. sweep_large' \in Nat /\ sweep_large # 0 /\ sweep_regular' = sweep_regular
          BY SMT, <2>3, <3>1 DEF TakeLarge
        <4> QED BY <2>3, <4>1
      <3>2. CASE TakeRegular(Sweeper)
        <4>1. sweep_regular' \in Nat /\ sweep_regular # 0 /\ sweep_large' = sweep_large
          BY SMT, <2>3, <3>2 DEF TakeRegular
        <4> QED BY <2>3, <4>1
      <3>3. CASE PutPage(Sweeper)
        BY <2>3, <3>3 DEF PutPage
      <3> QED BY <2>1, <3>1, <3>2, <3>3
    <2>6. SpaceOK' /\ PhaseExact' /\ CountsExact'
      BY <1>1, <1>2, <1>3, <2>1, <2>4, <2>5 DEF SpaceOK, PhaseExact, CountsExact
    <2>7. ListsPlaced'
      <3>1. (g = "large" => sweeper = "large") /\ (g = "regular" => sweeper = "regular")
        BY <2>1, <2>2, <2>4 DEF TakeLarge, TakeRegular, PutPage
      <3> QED BY <1>2, <2>1, <2>4, <2>5, <3>1 DEF ListsPlaced
    <2> QED BY <1>1, <2>1, <2>4, <2>6, <2>7, HelperMoves
  <1> QED BY <1>4, <1>5, <1>6

LEMMA LargePagesSweptInv ==
  ASSUME IInv, LargePagesSwept
  PROVE  IInv'
  <1>1. /\ sweeper = "large" /\ sweeper' = "regular" /\ page[Sweeper] = "none" /\ sweep_large = 0
        /\ phase' = kSweepingRegular
        /\ UNCHANGED <<tasks, marker_tasks, active, pause, enabled, marker, task, pages, pc,
                       call, safepoint, group>>
    BY DEF LargePagesSwept
  <1>2. SpaceOK /\ PhaseExact /\ ListsPlaced /\ CountsExact
    BY DEF IInv, TypeOK
  <1>3. Live' = Live /\ Running' = Running
    BY <1>1 DEF Live, Running
  <1>4. phase = kSweepingLarge
    BY <1>1, <1>2 DEF PhaseExact
  <1>5. SpaceOK' /\ ListsPlaced' /\ CountsExact'
    BY <1>1, <1>2, <1>3 DEF SpaceOK, ListsPlaced, CountsExact
  <1>6. PhaseExact'
    BY <1>1, <1>2, <1>3, <1>4 DEF PhaseExact
  <1> QED BY <1>1, <1>4, <1>5, <1>6, HelperMoves

LEMMA SweeperEndsInv ==
  ASSUME IInv, SweeperEnds
  PROVE  IInv'
  <1>1. /\ sweeper = "left" /\ sweeper' = "none" /\ tasks' = tasks - 1 /\ phase' = kDone
        /\ UNCHANGED <<marker_tasks, active, pause, enabled, marker, task, pages, pc,
                       call, safepoint, group>>
    BY DEF SweeperEnds
  <1>2. SpaceOK /\ PhaseExact /\ ListsPlaced /\ CountsExact
    BY DEF IInv, TypeOK
  <1>3. Live' = Live /\ Running' = Running
    BY <1>1 DEF Live, Running
  <1>4. /\ tasks' = tasks + -1 /\ marker_tasks' \in Nat
        /\ marker_tasks' + (IF sweeper' = "none" THEN 0 ELSE 1)
             = marker_tasks + (IF sweeper = "none" THEN 0 ELSE 1) + -1
    BY SMT, <1>1, <1>2 DEF SpaceOK
  <1>5. marker_tasks' = Cardinality(Live') /\ active' = Cardinality(Running')
    BY <1>1, <1>3, LiveCounted
  <1>6. CountsExact' /\ tasks' \in Nat
    BY <1>1, <1>4, <1>5, HelperCounts
  <1>7. SpaceOK' /\ ListsPlaced'
    BY <1>1, <1>2, <1>6 DEF SpaceOK, ListsPlaced
  <1>8. phase = kSweepingRegular /\ group # "deleted" /\ Live = {}
    <2>1. tasks # 0
      BY <1>1, NoTasks
    <2> QED BY <1>1, <1>2, <2>1 DEF PhaseExact
  <1>9. PhaseExact'
    BY <1>1, <1>2, <1>3, <1>8 DEF PhaseExact
  <1>10. \A t \in Mutators : pc[t] \notin {"collect", "iterating"}
    BY <1>1, NobodyCollects
  <1> QED BY <1>1, <1>6, <1>7, <1>9, <1>10, HelperMoves

LEMMA ShutdownSteps ==
  ASSUME IInv, ShutdownBegins \/ ShutdownWaits
  PROVE  IInv'
  <1>1. CASE Wait(Shutdown)
    BY <1>1, Waits
  <1>2. CASE ~Wait(Shutdown)
    <2>1. /\ UNCHANGED <<phase, tasks, marker_tasks, active, pause, enabled, helpers, pages,
                         safepoint, pc, call>>
          /\ \/ group' = "closing" /\ group = "alive" /\ UNCHANGED marker
             \/ group' = "deleted" /\ tasks = 0 /\ marker' = FALSE
      BY <1>2 DEF ShutdownBegins, ShutdownWaits
    <2>2. \A t \in Mutators : pc[t] = "idle"
      <3>1. CASE ShutdownBegins
        BY <3>1 DEF ShutdownBegins
      <3>2. CASE ShutdownWaits
        <4>1. group # "alive"
          BY <3>2 DEF ShutdownWaits
        <4> QED BY <4>1, Busy
      <3> QED BY <3>1, <3>2
    <2>3. SpaceOK /\ PhaseExact /\ ListsPlaced /\ CountsExact /\ OwnerInside
      BY DEF IInv, TypeOK
    <2>4. Live' = Live /\ Running' = Running
      BY <2>1 DEF Live, Running
    <2>5. SpaceOK' /\ PhaseExact' /\ ListsPlaced' /\ CountsExact' /\ OwnerInside'
      <3>1. marker' \in BOOLEAN /\ group' \in {"alive", "closing", "deleted"}
        BY <2>1, <2>3 DEF SpaceOK
      <3>2. SpaceOK' /\ ListsPlaced' /\ CountsExact' /\ OwnerInside'
        BY <2>1, <2>3, <2>4, <3>1 DEF SpaceOK, ListsPlaced, CountsExact, OwnerInside
      <3>3. CASE group' = "closing" /\ group = "alive" /\ UNCHANGED marker
        BY <2>1, <2>3, <2>4, <3>2, <3>3 DEF PhaseExact, helpers
      <3>4. CASE group' = "deleted" /\ tasks = 0
        BY <2>1, <2>3, <2>4, <3>2, <3>4 DEF PhaseExact, helpers
      <3> QED BY <2>1, <3>3, <3>4
    <2>6. TypeOK'
      BY <2>1, <2>5 DEF IInv, TypeOK
    <2>7. ASSUME NEW t \in Mutators PROVE ThreadFits(t)'
      <3>1. ThreadFits(t) /\ pc'[t] = "idle"
        BY <2>1, <2>2 DEF IInv
      <3> QED BY <2>1, <2>2, <3>1 DEF ThreadFits, Fits
    <2> QED BY <2>5, <2>6, <2>7 DEF IInv
  <1> QED BY <1>1, <1>2

-----------------------------------------------------------------------------
LEMMA InitInv == Init => IInv
  <1> SUFFICES ASSUME Init PROVE IInv
    OBVIOUS
  <1>1. SpaceOK
    <2>1. 0 \in Nat /\ 0 \in {0, 1}
      BY SMT
    <2>2. phase \in Unfinalized \cup Sweeping \cup {kDone}
      BY DEF Init
    <2> QED BY <2>1, <2>2 DEF Init, SpaceOK
  <1>2. TypeOK
    <2>1. "idle" \in PCs /\ NoCall \in Calls
      BY DEF PCs, Outside, NoCall, Calls, Kinds, Rets
    <2> QED BY <1>1, <2>1 DEF Init, TypeOK
  <1>3. "idle" \notin Critical /\ "idle" \notin Counted /\ NoCall.ret = "idle"
    BY OutsideAre, Places, CountedAre DEF NoCall
  <1>4. OwnerInside
    BY <1>3, OldSpaceAssumption DEF Init, OwnerInside
  <1>5. Live = {} /\ Running = {}
    BY DEF Init, Live, Running
  <1>6. CountsExact
    <2>1. marker_tasks = Cardinality(Live) /\ active = Cardinality(Running)
      BY <1>5, Counting DEF Init
    <2>2. ~\E t \in Mutators : pc[t] \in Counted
      BY <1>3 DEF Init
    <2>3. 0 = 0 + 0 + 0
      BY SMT
    <2> QED BY <2>1, <2>2, <2>3 DEF Init, CountsExact
  <1>7. PhaseExact /\ ListsPlaced
    BY <1>5 DEF Init, PhaseExact, ListsPlaced
  <1>8. ASSUME NEW t \in Mutators PROVE ThreadFits(t)
    <2>1. pc[t] = "idle" /\ call[t].ret = "idle" /\ page[t] = "none"
      BY <1>3 DEF Init
    <2>2. "idle" \notin Past /\ "idle" \notin Iterates
      BY <1>3, Places
    <2> QED BY <2>1, <2>2 DEF ThreadFits, Fits
  <1> QED BY <1>2, <1>4, <1>6, <1>7, <1>8 DEF IInv

LEMMA MutatorStepInv ==
  ASSUME IInv, NEW t \in Mutators, MutatorStep(t)
  PROVE  IInv'
  <1>1. CASE AtSafepoint(t) \/ HandleInterrupts(t) \/ CheckFinalizeMarking(t) \/ WaitForSweeperTasks(t)
    BY <1>1, AtSafepointInv, OutsideSteps
  <1>2. CASE \/ RetryAllocation(t) \/ AllocateAfterCollection(t)
             \/ WaitForSweeperTasksAtSafepoint(t) \/ NothingToCollect(t)
    BY <1>2, AllocationSteps
  <1>3. CASE CollectGarbage(t) \/ AssistMarking(t) \/ IterationAssists(t) \/ AssistSweeping(t)
    BY <1>3, AssistSteps, AssistSweepingInv
  <1>4. CASE WaitForTasks(t) \/ CollectGarbageHelper(t) \/ StartConcurrentMark(t)
    BY <1>4, WaitForTasksInv, CollectGarbageHelperInv, StartConcurrentMarkInv
  <1>5. CASE (\E m \in Markers : SpawnMarker(t, m)) \/ WaitForRoots(t) \/ CollectGarbageEnds(t)
    BY <1>5, SpawnSteps, CollectGarbageEndsInv
  <1>6. CASE \/ PauseConcurrentMarking(t) \/ WaitForPause(t) \/ VisitRememberedCards(t)
             \/ ResumeConcurrentMarking(t) \/ AfterScavenge(t)
    BY <1>6, PauseSteps, ScavengeSteps
  <1>7. CASE IterationFinalizes(t) \/ IterationWaits(t) \/ IterationBegins(t) \/ IterationEnds(t)
    BY <1>7, IterationSteps, IterationBeginsInv, IterationEndsInv
  <1>8. CASE WaitForMarkerTasks(t) \/ ReloadAllocates(t) \/ ReloadEnds(t)
    BY <1>8, ReloadSteps, ReloadAllocatesInv
  <1> QED BY <1>1, <1>2, <1>3, <1>4, <1>5, <1>6, <1>7, <1>8 DEF MutatorStep

\* Every step of a mutator, of a task and of the shutdown keeps the inductive
\* invariant.
THEOREM SpaceInvariant == Spec => []IInv
  <1>1. ASSUME IInv, Next PROVE IInv'
    <2>1. ASSUME NEW t \in Mutators,
                 StartOperation(t) \/ CheckConcurrentMarking(t) \/ AllocateOld(t) \/ MutatorStep(t)
          PROVE  IInv'
      BY <1>1, <2>1, OutsideSteps, MutatorStepInv
    <2>2. ASSUME NEW m \in Markers, MarkerStep(m)
          PROVE  IInv'
      BY <1>1, <2>2, MarkerGoesOn, YieldConcurrentMarkingInv, MarkerResumesInv, MarkerEndsInv
         DEF MarkerStep
    <2>3. CASE SweeperStep
      BY <1>1, <2>3, SweeperGoesOn, LargePagesSweptInv, SweeperEndsInv DEF SweeperStep
    <2>4. CASE ShutdownBegins \/ ShutdownWaits
      BY <1>1, <2>4, ShutdownSteps
    <2> QED BY <1>1, <2>1, <2>2, <2>3, <2>4 DEF Next
  <1>2. ASSUME IInv, UNCHANGED vars PROVE IInv'
    BY <1>2, Stutters DEF vars
  <1>3. IInv /\ [Next]_vars => IInv'
    BY <1>1, <1>2
  <1> QED BY <1>3, InitInv, PTL DEF Spec

-----------------------------------------------------------------------------
\* A page in somebody's hands belongs to the sweeper or to a thread that assists
\* inside its own safepoint operation.
LEMMA PagesHeld ==
  ASSUME IInv, NEW a \in DOMAIN page, page[a] # "none"
  PROVE  \/ a = Sweeper
         \/ a \in Mutators /\ pc[a] \in Assisting /\ safepoint = a
  <1>1. page \in [Mutators \cup {Sweeper} -> {"none", "regular", "large"}]
    BY DEF IInv, TypeOK, SpaceOK
  <1>2. a \in Mutators \cup {Sweeper}
    BY <1>1
  <1>3. CASE a \in Mutators
    <2>1. pc[a] \in Assisting
      BY <1>3 DEF IInv, ThreadFits, Fits
    <2>2. pc[a] \in Critical
      BY <2>1 DEF Critical, Gc, Past
    <2> QED BY <1>3, <2>1, <2>2 DEF IInv, OwnerInside
  <1> QED BY <1>2, <1>3

\* While a thread collects (CollectGarbageHelper) or iterates over the heap
\* (HeapIterationScope) it is alone: no marker or sweeper task is left, no page is
\* on a list or in a thread's hands, and phase_ and marker_ are as the code
\* asserts; and ~IsolateGroup frees a heap no task can use any more.
THEOREM CollectorIsAlwaysAlone == Spec => []CollectorIsAlone
  <1>1. IInv => CollectorIsAlone
    <2> SUFFICES ASSUME IInv, NEW t \in Mutators
                 PROVE  /\ pc[t] \in {"collect", "iterating"} =>
                             /\ safepoint = t /\ tasks = 1 /\ sweeper = "none"
                             /\ \A m \in Markers : task[m] = "none"
                             /\ \A a \in DOMAIN page : page[a] = "none"
                             /\ sweep_large = 0 /\ sweep_regular = 0
                        /\ pc[t] = "collect" =>
                             phase = (IF marker THEN kAwaitingFinalization ELSE kDone)
                        /\ pc[t] = "collect" /\ call[t].kind = "start" => ~marker
                        /\ pc[t] = "iterating" => phase = kDone
                        /\ group = "deleted" =>
                             sweeper = "none" /\ \A m \in Markers : task[m] = "none"
      BY DEF CollectorIsAlone
    <2>1. SpaceOK /\ PhaseExact /\ ListsPlaced /\ ThreadFits(t)
      BY DEF IInv, TypeOK
    <2>2. CASE pc[t] \in {"collect", "iterating"}
      <3>1. pc[t] \in Critical /\ pc[t] \in Counted /\ pc[t] \notin Assisting /\ pc[t] # "idle"
        BY <2>2, Zenon DEF Critical, Gc, Past, Iterates, Counted, Assisting
      <3>2. safepoint = t /\ tasks = 1
        BY <2>1, <2>2, <3>1 DEF IInv, OwnerInside, ThreadFits, Fits
      <3>3. Live = {} /\ sweeper = "none"
        BY <3>1, <3>2, OnlyTask
      <3>4. sweep_large = 0 /\ sweep_regular = 0 /\ page[Sweeper] = "none"
        BY <2>1, <3>3, OldSpaceAssumption DEF ListsPlaced, SpaceOK
      <3>5. ASSUME NEW a \in DOMAIN page PROVE page[a] = "none"
        <4> SUFFICES ASSUME page[a] # "none" PROVE FALSE
          OBVIOUS
        <4>1. a \in Mutators /\ pc[a] \in Assisting /\ safepoint = a
          BY <3>4, PagesHeld
        <4> QED BY <3>1, <3>2, <4>1
      <3>6. \A m \in Markers : task[m] = "none"
        BY <3>3 DEF Live
      <3>7. group # "deleted"
        BY <2>1, <3>1 DEF ThreadFits, Fits
      <3>8. phase \notin Sweeping /\ phase # kMarking
        BY <2>1, <3>3 DEF PhaseExact, Sweeping
      <3>9. phase = (IF marker THEN kAwaitingFinalization ELSE kDone)
        BY <2>1, <3>7, <3>8 DEF PhaseExact, SpaceOK, Unfinalized, Sweeping, kDone,
           kAwaitingFinalization, kMarking
      <3>10. pc[t] = "collect" /\ call[t].kind = "start" => ~marker
        BY <2>1, <3>7 DEF PhaseExact, ThreadFits, Fits, Past
      <3>11. pc[t] = "iterating" => phase = kDone
        BY <2>1 DEF ThreadFits, Fits
      <3> QED BY <3>2, <3>3, <3>4, <3>5, <3>6, <3>7, <3>9, <3>10, <3>11
    <2>3. group = "deleted" => sweeper = "none" /\ \A m \in Markers : task[m] = "none"
      <3> SUFFICES ASSUME group = "deleted"
                   PROVE  sweeper = "none" /\ \A m \in Markers : task[m] = "none"
        OBVIOUS
      <3>1. tasks = 0
        BY <2>1 DEF PhaseExact
      <3>2. Live = {} /\ sweeper = "none"
        BY <3>1, NoTasks
      <3> QED BY <3>2 DEF Live
    <2> QED BY <2>2, <2>3
  <1> QED BY <1>1, SpaceInvariant, PTL

\* While the scavenger moves objects no marker task visits one
\* (ConcurrentMarkTask yields), and while it reads the cards of the large pages
\* nobody sweeps a large page.
THEOREM ScavengeIsAlwaysQuiet == Spec => []ScavengeIsQuiet
  <1>1. IInv => ScavengeIsQuiet
    <2> SUFFICES ASSUME IInv, NEW t \in Mutators
                 PROVE  /\ pc[t] \in {"scavenging", "cards"} =>
                             \A m \in Markers : task[m] \notin {"roots", "marking"}
                        /\ pc[t] = "cards" =>
                             sweep_large = 0 /\ \A a \in DOMAIN page : page[a] # "large"
      BY DEF ScavengeIsQuiet
    <2>1. SpaceOK /\ PhaseExact /\ ListsPlaced /\ ThreadFits(t)
      BY DEF IInv, TypeOK
    <2>2. ASSUME pc[t] \in {"scavenging", "cards"}, NEW m \in Markers
          PROVE  task[m] \notin {"roots", "marking"}
      <3>1. active = 0
        BY <2>1, <2>2 DEF ThreadFits, Fits
      <3>2. Running = {}
        BY <3>1, LiveCounted
      <3> QED BY <3>2 DEF Running
    <2>3. ASSUME pc[t] = "cards"
          PROVE  sweep_large = 0 /\ \A a \in DOMAIN page : page[a] # "large"
      <3>1. phase # kSweepingLarge /\ pc[t] \notin Assisting /\ pc[t] \in Critical
        BY <2>1, <2>3 DEF ThreadFits, Fits, Assisting, Critical
      <3>2. sweep_large = 0 /\ page[Sweeper] # "large"
        BY <2>1, <3>1 DEF PhaseExact, ListsPlaced
      <3>3. ASSUME NEW a \in DOMAIN page PROVE page[a] # "large"
        <4> SUFFICES ASSUME page[a] = "large" PROVE FALSE
          OBVIOUS
        <4>1. a \in Mutators /\ pc[a] \in Assisting /\ safepoint = a
          BY <3>2, PagesHeld
        <4>2. safepoint = t
          BY <3>1 DEF IInv, OwnerInside
        <4> QED BY <3>1, <4>1, <4>2
      <3> QED BY <3>2, <3>3
    <2> QED BY <2>2, <2>3
  <1> QED BY <1>1, SpaceInvariant, PTL

\* When phase_ is kDone and no safepoint operation runs, every page has been
\* swept: those of the sweeper task and those AssistSweeping took.
THEOREM RestIsAlwaysSwept == Spec => []RestIsSwept
  <1>1. IInv => RestIsSwept
    <2> SUFFICES ASSUME IInv, phase = kDone, safepoint = None
                 PROVE  /\ sweep_large = 0 /\ sweep_regular = 0
                        /\ \A a \in DOMAIN page : page[a] = "none"
      BY DEF RestIsSwept
    <2>1. SpaceOK /\ PhaseExact /\ ListsPlaced
      BY DEF IInv, TypeOK
    <2>2. sweeper = "none"
      BY <2>1 DEF PhaseExact, SpaceOK, kDone, kSweepingLarge, kSweepingRegular
    <2>3. sweep_large = 0 /\ sweep_regular = 0 /\ page[Sweeper] = "none"
      BY <2>1, <2>2 DEF ListsPlaced, SpaceOK
    <2>4. ASSUME NEW a \in DOMAIN page PROVE page[a] = "none"
      <3> SUFFICES ASSUME page[a] # "none" PROVE FALSE
        OBVIOUS
      <3>1. a \in Mutators /\ safepoint = a
        BY <2>3, PagesHeld
      <3> QED BY <3>1, OldSpaceAssumption
    <2> QED BY <2>3, <2>4
  <1> QED BY <1>1, SpaceInvariant, PTL

\* No marking runs or waits to be finalized while a reload changes the classes:
\* WaitForMarkerTasks has finalized it and nothing starts another.
THEOREM ReloadIsAlwaysUnmarked == Spec => []ReloadIsUnmarked
  <1>1. IInv => ReloadIsUnmarked
    BY DEF IInv, ThreadFits, Fits, ReloadIsUnmarked, Unfinalized
  <1> QED BY <1>1, SpaceInvariant, PTL

\* tasks_, concurrent_marker_tasks_ and concurrent_marker_tasks_active_ count
\* what they are meant to, and phase_ names it: the waits on tasks_lock_ end for
\* the reason they were begun.
THEOREM CountersAreExact == Spec => [](CountsExact /\ PhaseExact)
  <1>1. IInv => CountsExact /\ PhaseExact
    BY DEF IInv
  <1> QED BY <1>1, SpaceInvariant, PTL
=============================================================================
