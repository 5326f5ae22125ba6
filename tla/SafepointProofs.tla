-------------------------- MODULE SafepointProofs ---------------------------
(***************************************************************************)
(* Safety of Safepoint for any number of threads and any depth of nesting: *)
(* the inductive invariant, one lemma for each step, and what the          *)
(* invariant gives.                                                        *)
(*                                                                         *)
(* Zenon proves most steps; those that need arithmetic or more of the      *)
(* theory of functions cite SMT.                                           *)
(***************************************************************************)
EXTENDS Safepoint, FiniteSetTheorems, TLAPS

USE ZenonT(30)

PCs ==
  {"free", "add_wait", "running", "parked", "exit_wait", "sp_wait", "notify",
   "send", "waiting", "lower", "sp_exit", "continue", "freeing"}

(* The types of the variables the inductive invariant is about.  That the  *)
(* two counters are not negative follows from NotParkedExact, CountsRight. *)
CoreOK ==
  /\ pc \in [Threads -> PCs]
  /\ at \in [Threads -> SUBSET Levels]
  /\ requested \in [Threads -> SUBSET Levels]
  /\ level \in [Threads -> Levels]
  /\ scopes \in [Threads -> Seq(Levels)]
  /\ owner \in [Levels -> Threads \cup {Nobody}]
  /\ operations \in [Levels -> Int]
  /\ not_parked \in [Levels -> Int]
  /\ threads_lock \in Threads \cup {Nobody}
  /\ todo \subseteq Threads

(* ... and of the others.                                                  *)
SideOK ==
  /\ limits \in [Threads -> Seq({"no_deopt", "no_reload"})]
  /\ oob \in [Threads -> BOOLEAN]
  /\ oob_isolates \subseteq Threads
  /\ notified \subseteq Threads
  /\ signalled \subseteq Threads

(* The safepoint bits of a thread are determined by where it is.           *)
Outside(t) == pc[t] \in {"free", "add_wait", "running", "continue"}

BitsPlaced ==
  \A t \in Threads : at[t] = IF Outside(t) THEN {} ELSE 0 .. level[t]

(* Threads that bypass safepoints, or are not active, are left alone.      *)
Untouched ==
  /\ \A t \in Bypass : pc[t] \in {"free", "running"} /\ scopes[t] = <<>>
  /\ \A t \in Threads : t \in Bypass \/ t \notin Active => requested[t] = {}

(* Who holds threads_lock() across steps, and whom it has still to visit.  *)
LockHeld ==
  /\ \A t \in Threads :
       pc[t] \in {"notify", "continue", "freeing"} <=> threads_lock = t
  /\ \A t \in Threads :
       pc[t] \in {"notify", "continue"} => todo \subseteq Others(t)
  /\ \A t \in Threads : pc[t] = "freeing" => level[t] = kGCAndDeoptAndReload

Starting(t) == pc[t] \in {"notify", "send", "waiting", "lower"}

(* A level is owned exactly by the thread that starts an operation on it   *)
(* or is inside one that covers it.                                        *)
OwnerIs(t, l) ==
  \/ Starting(t) /\ level[t] = l
  \/ OwnsOperation(t) /\ l <= scopes[t][1]

OwnersRight ==
  \A t \in Threads :
    /\ \A l \in Levels : owner[l] = t <=> OwnerIs(t, l)
    /\ pc[t] = "continue" => \A l \in 0 .. level[t] : owner[l] = Nobody

(* Inside an operation a thread runs, or is parked at the operation's own  *)
(* level, or the operation is a reload.                                    *)
ScopesRight ==
  \A t \in Threads :
    /\ OwnsOperation(t) =>
         /\ pc[t] \in {"running", "parked", "exit_wait", "sp_exit"}
         /\ pc[t] = "running" \/ level[t] = scopes[t][1] \/ scopes[t][1] = 2
         /\ \A k \in 1 .. Len(scopes[t]) : scopes[t][k] <= scopes[t][1]
    /\ pc[t] = "sp_exit" => OwnsOperation(t)

Covering(t, l) == {k \in 1 .. Len(scopes[t]) : scopes[t][k] >= l}

CountsRight ==
  \A t \in Threads : \A l \in Levels :
    OwnsOperation(t) /\ l <= scopes[t][1] =>
      operations[l] = Cardinality(Covering(t, l))

StartsAtOne == \A t \in Threads : Starting(t) => operations[level[t]] = 1

Missing(l) == {c \in Threads : l \in requested[c] /\ ~IsAtSafepoint(c, l)}

(* Nobody that an operation needs has been left out.                       *)
EverybodyAsked ==
  \A t \in Threads :
    /\ pc[t] = "notify" =>
         /\ \A c \in todo : level[t] \notin requested[c]
         /\ \A c \in Others(t) \ todo : level[t] \in requested[c]
    /\ pc[t] \in {"send", "waiting"} =>
         \A c \in Others(t) : level[t] \in requested[c]

CountsNat == operations \in [Levels -> Nat]

(* Nobody leaves before it is told that the operation is over.             *)
StillHeld ==
  \A t \in Threads : pc[t] = "continue" =>
    \A c \in todo : level[t] \in requested[c] /\ IsAtSafepoint(c, level[t])

Shape == CoreOK /\ BitsPlaced /\ Untouched /\ LockHeld

Ownership ==
  OwnersRight /\ ScopesRight /\ CountsRight /\ CountsNat /\ StartsAtOne

Asking ==
  NotParkedExact /\ RequestsAreOwned /\ EverybodyAsked /\ StillHeld /\ StoppedWorld

IInv == Shape /\ Ownership /\ Asking

\* What the steps need to know of sequences.
LEMMA EmptySeq ==
  ASSUME NEW S
  PROVE  /\ <<>> \in Seq(S) /\ Len(<<>>) = 0
         /\ \A seq \in Seq(S) : (seq # <<>>) => (Len(seq) \in Nat \ {0})
  BY SMT

LEMMA SubSeqProperties ==
  ASSUME NEW S, NEW s \in Seq(S), NEW n \in Int, n < Len(s)
  PROVE  LET f == SubSeq(s, 1, n)
         IN  /\ f \in Seq(S) /\ Len(f) = IF 1 <= n THEN n - 1 + 1 ELSE 0
             /\ \A k \in 1 .. n - 1 + 1 : f[k] = s[1 + k - 1]
  BY SMT

LEMMA SubSeqEmpty ==
  ASSUME NEW S, NEW s \in Seq(S)
  PROVE  SubSeq(s, 1, 0) = <<>>
  BY SMT

USE DEF Levels, kGC, kGCAndDeopt, kGCAndDeoptAndReload, kNoSafepoint,
        AtSafepointBits, handlers, lists, reload

-----------------------------------------------------------------------------
(* Cardinalities, in the form the steps below need.                        *)
LEMMA CardAdd ==
  ASSUME NEW S, NEW x, IsFiniteSet(S), x \notin S
  PROVE  IsFiniteSet(S \cup {x}) /\ Cardinality(S \cup {x}) = Cardinality(S) + 1
  BY FS_AddElement

LEMMA CardRemove ==
  ASSUME NEW S, NEW x, IsFiniteSet(S), x \in S
  PROVE  /\ IsFiniteSet(S \ {x}) /\ Cardinality(S \ {x}) = Cardinality(S) - 1
         /\ Cardinality(S) \in Nat \ {0}
  BY FS_RemoveElement, FS_CardinalityType, FS_EmptySet

(* The threads asked to check in at l that have not are finitely many.     *)
LEMMA MissingFinite ==
  ASSUME NEW l \in Levels
  PROVE  /\ IsFiniteSet(Missing(l)) /\ Cardinality(Missing(l)) \in Nat
         /\ Cardinality(Missing(l)) = 0 => Missing(l) = {}
  <1>1. Missing(l) \subseteq Threads
    BY DEF Missing
  <1>2. IsFiniteSet(Missing(l))
    BY <1>1, FS_Subset, SafepointAssumption
  <1> QED BY <1>2, FS_CardinalityType, FS_EmptySet

(* The same for the next state.                                            *)
LEMMA MissingFinitePrime ==
  ASSUME NEW l \in Levels
  PROVE  IsFiniteSet(Missing(l)') /\ Cardinality(Missing(l)') \in Nat
  <1>1. Missing(l)' \subseteq Threads
    BY DEF Missing
  <1>2. IsFiniteSet(Missing(l)')
    BY <1>1, FS_Subset, SafepointAssumption
  <1> QED BY <1>2, FS_CardinalityType

(* The level of a thread is a level.                                       *)
LEMMA LevelIsLevel ==
  ASSUME NEW t, NEW allow
  PROVE  current_safepoint_level(t, allow) \in Levels
  BY SMT DEF current_safepoint_level

(* The level an operation stops the others at is a level.                  *)
LEMMA StoppedLevel ==
  ASSUME IInv, NEW u \in Threads, Stopping(u)
  PROVE  StoppedUpTo(u) \in Levels /\ StoppedUpTo(u) \in 0 .. StoppedUpTo(u)
  <1>1. scopes[u] \in Seq(Levels) /\ level[u] \in Levels
    BY DEF IInv, Shape, CoreOK
  <1> QED BY SMT, <1>1 DEF StoppedUpTo, OwnsOperation

(* Steps that open and close no scope keep the counts.                     *)
LEMMA CountsStay ==
  ASSUME IInv, UNCHANGED <<scopes, operations>>,
         \A u \in Threads : Starting(u)' => Starting(u) /\ level'[u] = level[u]
  PROVE  CountsRight' /\ CountsNat' /\ StartsAtOne'
  <1>1. ASSUME NEW t, NEW l PROVE Covering(t, l)' = Covering(t, l)
    BY DEF Covering
  <1>2. CountsRight' /\ CountsNat'
    BY <1>1 DEF IInv, Ownership, CountsRight, CountsNat, OwnsOperation
  <1>3. StartsAtOne'
    BY DEF IInv, Ownership, StartsAtOne
  <1> QED BY <1>2, <1>3

(* What a step must keep of every thread for the owners to stay right.     *)
Kept(u) ==
  /\ Starting(u)' <=> Starting(u)
  /\ Starting(u) => level'[u] = level[u]
  /\ OwnsOperation(u)' <=> OwnsOperation(u)
  /\ OwnsOperation(u) => scopes'[u][1] = scopes[u][1]
  /\ pc'[u] = "continue" => pc[u] = "continue" /\ level'[u] = level[u]

LEMMA OwnersStay ==
  ASSUME IInv, UNCHANGED owner, \A u \in Threads : Kept(u)
  PROVE  OwnersRight'
  <1> SUFFICES ASSUME NEW t \in Threads
               PROVE  /\ \A l \in Levels : owner[l] = t <=> OwnerIs(t, l)'
                      /\ pc'[t] = "continue" =>
                           \A l \in 0 .. level'[t] : owner[l] = Nobody
    BY DEF OwnersRight
  <1>1. Kept(t)
    OBVIOUS
  <1>2. \A l \in Levels : OwnerIs(t, l)' <=> OwnerIs(t, l)
    BY SMT, <1>1 DEF Kept, OwnerIs
  <1>3. /\ \A l \in Levels : owner[l] = t <=> OwnerIs(t, l)
        /\ pc[t] = "continue" => \A l \in 0 .. level[t] : owner[l] = Nobody
    BY DEF IInv, Ownership, OwnersRight
  <1> QED BY <1>1, <1>2, <1>3 DEF Kept

(* The levels a thread owns.                                               *)
LEMMA OwnedLevels ==
  ASSUME IInv, NEW t \in Threads
  PROVE  /\ Starting(t) => level[t] \in Levels /\ owner[level[t]] = t
         /\ OwnsOperation(t) => \A l \in Levels : l <= scopes[t][1] => owner[l] = t
         /\ OwnsOperation(t) => ~Starting(t)
  <1>1. level[t] \in Levels
    BY DEF IInv, Shape, CoreOK
  <1>2. \A l \in Levels : owner[l] = t <=> OwnerIs(t, l)
    BY DEF IInv, Ownership, OwnersRight
  <1>3. OwnsOperation(t) => ~Starting(t)
    BY DEF IInv, Ownership, ScopesRight, Starting
  <1> QED BY <1>1, <1>2, <1>3 DEF OwnerIs

(* A thread that holds the others owns the level they are held at.         *)
LEMMA StoppedIsOwned ==
  ASSUME IInv, NEW u \in Threads, Stopping(u)
  PROVE  owner[StoppedUpTo(u)] = u
  <1>1. CASE OwnsOperation(u)
    <2>1. StoppedUpTo(u) = scopes[u][1] /\ StoppedUpTo(u) \in Levels
      BY <1>1, StoppedLevel DEF StoppedUpTo
    <2>2. scopes[u][1] <= scopes[u][1]
      BY SMT, <2>1
    <2> QED BY <1>1, <2>1, <2>2, OwnedLevels
  <1>2. CASE ~OwnsOperation(u)
    <2>1. StoppedUpTo(u) = level[u] /\ Starting(u)
      BY <1>2 DEF StoppedUpTo, Stopping, Starting
    <2> QED BY <2>1, OwnedLevels
  <1> QED BY <1>1, <1>2

(* Steps in which nobody that is asked leaves hold nobody less.            *)
LEMMA HeldStays ==
  ASSUME IInv, todo' \subseteq todo,
         \A u \in Threads : pc'[u] = "continue" =>
                               pc[u] = "continue" /\ level'[u] = level[u],
         UNCHANGED requested,
         \A c \in Threads : \A l \in requested[c] :
           IsAtSafepoint(c, l) => IsAtSafepoint(c, l)'
  PROVE  StillHeld'
  <1> SUFFICES ASSUME NEW t \in Threads, pc'[t] = "continue", NEW c \in todo'
               PROVE  /\ level'[t] \in requested'[c]
                      /\ 0 .. level'[t] \subseteq at'[c]
    BY DEF StillHeld, IsAtSafepoint
  <1>1. pc[t] = "continue" /\ level'[t] = level[t] /\ c \in todo /\ c \in Threads
    BY DEF IInv, Shape, CoreOK
  <1>2. level[t] \in requested[c] /\ IsAtSafepoint(c, level[t])
    BY <1>1 DEF IInv, Asking, StillHeld
  <1> QED BY <1>1, <1>2 DEF IsAtSafepoint

-----------------------------------------------------------------------------
(* Steps that touch nothing the invariant is about.                        *)
Core == <<pc, at, requested, level, scopes, owner, operations, not_parked,
          threads_lock, todo>>

LEMMA IdleStep ==
  ASSUME IInv, UNCHANGED Core
  PROVE  IInv'
  <1>1. CoreOK' /\ BitsPlaced' /\ Untouched' /\ LockHeld'
    BY DEF IInv, Shape, Core, CoreOK, BitsPlaced, Outside, Untouched, Active,
           LockHeld, Others
  <1>2. OwnersRight' /\ ScopesRight' /\ CountsRight' /\ CountsNat' /\ StartsAtOne'
    <2>1. OwnersRight' /\ CountsNat' /\ StartsAtOne'
      BY DEF IInv, Ownership, Core, OwnersRight, OwnerIs, Starting, OwnsOperation,
             CountsNat, StartsAtOne
    <2>2. ScopesRight'
      BY DEF IInv, Ownership, Core, OwnsOperation, ScopesRight
    <2>3. CountsRight'
      BY DEF IInv, Ownership, Core, OwnsOperation, CountsRight, Covering
    <2> QED BY <2>1, <2>2, <2>3
  <1>3. NotParkedExact' /\ RequestsAreOwned'
    BY DEF IInv, Asking, Core, NotParkedExact, IsAtSafepoint, RequestsAreOwned
  <1>4. EverybodyAsked' /\ StillHeld' /\ StoppedWorld'
    BY DEF IInv, Asking, Core, EverybodyAsked, Others, Active, StoppedWorld,
           Stopping, OwnsOperation, StoppedUpTo, IsAtSafepoint, StillHeld
  <1> QED BY <1>1, <1>2, <1>3, <1>4 DEF IInv, Shape, Ownership, Asking

-----------------------------------------------------------------------------
(* A running thread enters a safepoint of level l and moves to x.          *)
Enters(t, l, x) ==
  /\ pc[t] = "running" /\ t \notin Bypass
  /\ EnterSafepoint(t, l)
  /\ pc' = [pc EXCEPT ![t] = x]
  /\ UNCHANGED <<requested, scopes>>

(* Its bits are set, on the fast and on the slow path.                     *)
LEMMA EnterSetsBits ==
  ASSUME Shape, NEW t \in Threads, NEW l \in Levels, NEW x, Enters(t, l, x)
  PROVE  /\ at' = [at EXCEPT ![t] = 0 .. l]
         /\ level' = [level EXCEPT ![t] = l]
  <1>1. at[t] = {}
    BY DEF Shape, BitsPlaced, Outside, Enters
  <1>2. CASE TryEnterSafepoint(t, l)
    BY <1>2 DEF TryEnterSafepoint
  <1>3. CASE EnterSafepointLocked(t, l)
    BY <1>1, <1>3 DEF EnterSafepointLocked, Shape, CoreOK
  <1> QED BY <1>2, <1>3 DEF Enters, EnterSafepoint

(* The counters stay exact when a thread checks in.                        *)
LEMMA EnterKeepsCount ==
  ASSUME Shape, NotParkedExact, NEW t \in Threads, NEW l \in Levels, NEW x,
         Enters(t, l, x)
  PROVE  NotParkedExact' /\ not_parked' \in [Levels -> Int]
  <1>1. /\ at' = [at EXCEPT ![t] = 0 .. l] /\ at[t] = {} /\ requested' = requested
        /\ at \in [Threads -> SUBSET Levels]
        /\ requested \in [Threads -> SUBSET Levels]
        /\ not_parked \in [Levels -> Int]
    BY EnterSetsBits DEF Shape, CoreOK, BitsPlaced, Outside, Enters
  <1>2. not_parked' = [i \in Levels |->
          IF i \in requested[t] \cap (0 .. l) THEN not_parked[i] - 1
          ELSE not_parked[i]]
    <2>1. CASE TryEnterSafepoint(t, l)
      BY <1>1, <2>1 DEF TryEnterSafepoint
    <2>2. CASE EnterSafepointLocked(t, l)
      BY <2>2 DEF EnterSafepointLocked, ParkedLevels
    <2> QED BY <2>1, <2>2 DEF Enters, EnterSafepoint
  <1>3. ASSUME NEW i \in Levels PROVE not_parked'[i] = Cardinality(Missing(i)')
    <2>1. not_parked[i] = Cardinality(Missing(i))
      BY DEF NotParkedExact, Missing
    <2>2. CASE i \in requested[t] \cap (0 .. l)
      <3>1. t \in Missing(i)
        BY SMT, <1>1, <2>2 DEF Missing, IsAtSafepoint
      <3>2. Missing(i)' = Missing(i) \ {t}
        BY SMT, <1>1, <2>2 DEF Missing, IsAtSafepoint
      <3>3. Cardinality(Missing(i) \ {t}) = Cardinality(Missing(i)) - 1
        BY <3>1, MissingFinite, CardRemove
      <3> QED BY <1>2, <2>1, <2>2, <3>2, <3>3
    <2>3. CASE i \notin requested[t] \cap (0 .. l)
      <3>1. Missing(i)' = Missing(i)
        BY SMT, <1>1, <2>3 DEF Missing, IsAtSafepoint
      <3> QED BY <1>2, <2>1, <2>3, <3>1
    <2> QED BY <2>2, <2>3
  <1>4. NotParkedExact'
    BY <1>3 DEF NotParkedExact, Missing
  <1> QED BY SMT, <1>1, <1>2, <1>4

(* Where an entering thread may go.                                        *)
Entered == {"parked", "exit_wait", "sp_wait", "notify", "freeing"}

(* Nobody whose operation runs is disturbed by a thread that checks in.    *)
LEMMA EnterKeepsPlaces ==
  ASSUME IInv, NEW t \in Threads, NEW l \in Levels, NEW x \in Entered,
         Enters(t, l, x)
  PROVE  BitsPlaced' /\ Untouched' /\ StoppedWorld' /\ \A u : Others(u)' = Others(u)
  <1>1. /\ at' = [at EXCEPT ![t] = 0 .. l] /\ level' = [level EXCEPT ![t] = l]
        /\ pc' = [pc EXCEPT ![t] = x] /\ pc[t] = "running" /\ t \notin Bypass
        /\ requested' = requested /\ scopes' = scopes
        /\ at \in [Threads -> SUBSET Levels] /\ pc \in [Threads -> PCs]
        /\ level \in [Threads -> Levels]
    BY EnterSetsBits DEF IInv, Shape, CoreOK, Enters
  <1>2. BitsPlaced'
    BY <1>1 DEF IInv, Shape, BitsPlaced, Outside, Entered
  <1>3. Active' = Active
    BY <1>1 DEF Active, Entered
  <1>4. \A u : Others(u)' = Others(u)
    BY <1>3 DEF Others
  <1>5. Untouched'
    BY <1>1, <1>3, SafepointAssumption DEF IInv, Shape, Untouched
  <1>6. StoppedWorld'
    <2> SUFFICES ASSUME NEW u \in Threads, Stopping(u)', NEW c \in Others(u)'
                 PROVE  /\ IsAtSafepoint(c, StoppedUpTo(u))'
                        /\ StoppedUpTo(u)' \in requested[c]'
      BY DEF StoppedWorld
    <2>1. Stopping(u) /\ c \in Others(u)
      BY <1>1, <1>4 DEF Stopping, OwnsOperation, Entered
    <2>2. IsAtSafepoint(c, StoppedUpTo(u)) /\ StoppedUpTo(u) \in requested[c]
      BY <2>1 DEF IInv, Asking, StoppedWorld
    <2>3. StoppedUpTo(u)' = StoppedUpTo(u)
      BY <1>1, <2>1 DEF StoppedUpTo, OwnsOperation, Stopping
    <2>4. StoppedUpTo(u) \in 0 .. StoppedUpTo(u)
      BY <2>1, <2>2, StoppedLevel
    <2>5. at[t] = {}
      BY <1>1 DEF IInv, Shape, BitsPlaced, Outside
    <2>6. c # t
      BY <2>2, <2>4, <2>5 DEF IsAtSafepoint
    <2>7. at'[c] = at[c]
      BY SMT, <1>1, <2>6
    <2> QED BY <1>1, <2>2, <2>3, <2>7 DEF IsAtSafepoint
  <1> QED BY <1>2, <1>4, <1>5, <1>6

(* A thread inside an operation may block only if it is a reload.          *)
LEMMA BlockedOwnerReloads ==
  ASSUME IInv, NEW t \in Threads, OwnsOperation(t), CanAcquireSafepointLocks(t),
         pc[t] = "running"
  PROVE  scopes[t][1] = 2
  <1> DEFINE owned == {l \in Levels : \A i \in 0 .. l : owner[i] = t}
             climbed == {l \in owned : \A i \in 1 .. l :
                                          operations[i] >= operations[i - 1]}
  <1>1. scopes[t] \in Seq(Levels) /\ scopes[t] # <<>>
    BY DEF IInv, Shape, CoreOK, OwnsOperation
  <1>2. scopes[t][1] \in Levels
    BY SMT, <1>1
  <1>3. \A l \in Levels : owner[l] = t <=> l <= scopes[t][1]
    BY DEF IInv, Ownership, OwnersRight, OwnerIs, Starting
  <1>4. climbed # {}
    <2>1. 0 \in climbed
      BY SMT, <1>2, <1>3
    <2> QED BY <2>1
  <1>5. \E m \in climbed : \A i \in climbed : i <= m
    <2>1. CASE 2 \in climbed BY SMT, <2>1
    <2>2. CASE 2 \notin climbed /\ 1 \in climbed BY SMT, <2>2
    <2>3. CASE 2 \notin climbed /\ 1 \notin climbed BY SMT, <1>4, <2>3
    <2> QED BY <2>1, <2>2, <2>3
  <1>6. InnermostSafepointOperation(t) \in climbed
    <2>1. InnermostSafepointOperation(t)
            = CHOOSE m \in climbed : \A i \in climbed : i <= m
      BY <1>4 DEF InnermostSafepointOperation
    <2> HIDE DEF climbed
    <2> QED BY <1>5, <2>1
  <1>7. InnermostSafepointOperation(t) = 2
    BY SMT, <1>6 DEF CanAcquireSafepointLocks
  <1>8. owner[2] = t
    BY <1>6, <1>7
  <1> QED BY SMT, <1>2, <1>3, <1>8

(* A thread parks: TransitionToSafepoint, ExitIsolate, CheckForSafepoint,  *)
(* HandleCheckForReload.                                                   *)
LEMMA ParkStep ==
  ASSUME IInv, NEW t \in Threads, NEW l \in Levels,
         NEW x \in {"parked", "exit_wait"}, Enters(t, l, x),
         OwnsOperation(t) => scopes[t][1] = 2,
         UNCHANGED <<owner, operations, threads_lock, todo>>
  PROVE  IInv'
  <1>0. x \in Entered
    BY DEF Entered
  <1>1. /\ at' = [at EXCEPT ![t] = 0 .. l] /\ level' = [level EXCEPT ![t] = l]
        /\ pc' = [pc EXCEPT ![t] = x] /\ pc[t] = "running" /\ t \notin Bypass
        /\ requested' = requested /\ scopes' = scopes
        /\ at \in [Threads -> SUBSET Levels] /\ pc \in [Threads -> PCs]
        /\ level \in [Threads -> Levels]
    BY EnterSetsBits DEF IInv, Shape, CoreOK, Enters
  <1>2. BitsPlaced' /\ Untouched' /\ StoppedWorld' /\ \A u : Others(u)' = Others(u)
    BY <1>0, EnterKeepsPlaces
  <1>3. NotParkedExact' /\ not_parked' \in [Levels -> Int]
    BY EnterKeepsCount DEF IInv, Asking
  <1>4. CoreOK'
    <2>1. pc' \in [Threads -> PCs]
      BY <1>1 DEF PCs
    <2>2. at' \in [Threads -> SUBSET Levels] /\ level' \in [Threads -> Levels]
      BY SMT, <1>1
    <2> QED BY <1>1, <1>3, <2>1, <2>2 DEF IInv, Shape, CoreOK
  <1>5. LockHeld'
    BY <1>1, <1>2 DEF IInv, Shape, LockHeld
  <1>6. OwnersRight'
    <2>1. \A u \in Threads : Kept(u)
      BY <1>1 DEF Kept, Starting, OwnsOperation
    <2> QED BY <1>1, <2>1, OwnersStay
  <1>7. ScopesRight'
    BY <1>1 DEF IInv, Ownership, ScopesRight, OwnsOperation
  <1>8. CountsRight' /\ CountsNat' /\ StartsAtOne'
    <2>1. \A u \in Threads : Starting(u)' => Starting(u) /\ level'[u] = level[u]
      BY <1>1 DEF Starting
    <2> QED BY <1>1, <2>1, CountsStay
  <1>9. RequestsAreOwned'
    BY <1>1 DEF IInv, Asking, RequestsAreOwned
  <1>10. EverybodyAsked'
    BY <1>1, <1>2 DEF IInv, Asking, EverybodyAsked
  <1>11. StillHeld'
    <2>1. at[t] = {}
      BY <1>1 DEF IInv, Shape, BitsPlaced, Outside
    <2>2. \A c \in Threads : \A i : IsAtSafepoint(c, i) => IsAtSafepoint(c, i)'
      BY <1>1, <2>1 DEF IsAtSafepoint
    <2>3. \A u \in Threads : pc'[u] = "continue" =>
                                pc[u] = "continue" /\ level'[u] = level[u]
      BY <1>1
    <2> QED BY <1>1, <2>2, <2>3, HeldStays
  <1> QED BY <1>2, <1>3, <1>4, <1>5, <1>6, <1>7, <1>8, <1>9, <1>10, <1>11
          DEF IInv, Shape, Ownership, Asking

-----------------------------------------------------------------------------
(* A thread tries to leave its safepoint: it leaves or is held.            *)
Leaves(t) ==
  /\ pc[t] \in {"parked", "exit_wait", "sp_exit"}
  /\ TryExitSafepoint(t) \/ ExitSafepointLocked(t)
  /\ UNCHANGED <<requested, level, scopes, owner, operations, not_parked,
                 threads_lock, todo>>

LEMMA LeaveCases ==
  ASSUME IInv, NEW t \in Threads, Leaves(t)
  PROVE  \/ pc' = [pc EXCEPT ![t] = "exit_wait"] /\ at' = at
         \/ /\ pc' = [pc EXCEPT ![t] = "running"] /\ at' = [at EXCEPT ![t] = {}]
            /\ requested[t] \cap (0 .. level[t]) = {}
  <1>1. CASE TryExitSafepoint(t)
    BY <1>1 DEF TryExitSafepoint
  <1>2. CASE ExitSafepointLocked(t)
    <2>1. at[t] = 0 .. level[t] /\ at \in [Threads -> SUBSET Levels]
      BY DEF IInv, Shape, CoreOK, BitsPlaced, Outside, Leaves
    <2> QED BY <1>2, <2>1 DEF ExitSafepointLocked, IsSafepointRequested
  <1> QED BY <1>1, <1>2 DEF Leaves

LEMMA LeaveStep ==
  ASSUME IInv, NEW t \in Threads, Leaves(t)
  PROVE  IInv'
  <1>1. /\ UNCHANGED <<requested, level, scopes, owner, operations, not_parked,
                       threads_lock, todo>>
        /\ pc[t] \in {"parked", "exit_wait", "sp_exit"}
        /\ at \in [Threads -> SUBSET Levels] /\ pc \in [Threads -> PCs]
        /\ requested \in [Threads -> SUBSET Levels]
        /\ level \in [Threads -> Levels]
    BY DEF IInv, Shape, CoreOK, Leaves
  <1>2. PICK x \in {"exit_wait", "running"} : pc' = [pc EXCEPT ![t] = x]
    BY LeaveCases
  <1>3. at' = at \/ at' = [at EXCEPT ![t] = {}]
    BY LeaveCases
  <1>4. CoreOK'
    BY <1>1, <1>2, <1>3 DEF IInv, Shape, CoreOK, PCs
  <1>5. BitsPlaced'
    <2>1. BitsPlaced /\ level' = level
      BY <1>1 DEF IInv, Shape
    <2>2. CASE pc' = [pc EXCEPT ![t] = "exit_wait"] /\ at' = at
      <3>1. \A u \in Threads : Outside(u)' <=> Outside(u)
        BY <1>1, <2>2 DEF Outside
      <3> QED BY <2>1, <2>2, <3>1 DEF BitsPlaced
    <2>3. CASE pc' = [pc EXCEPT ![t] = "running"] /\ at' = [at EXCEPT ![t] = {}]
      <3>1. Outside(t)' /\ \A u \in Threads \ {t} : Outside(u)' <=> Outside(u)
        BY <1>1, <2>3 DEF Outside
      <3>2. at'[t] = {} /\ \A u \in Threads \ {t} : at'[u] = at[u]
        BY <1>1, <2>3
      <3> QED BY <2>1, <3>1, <3>2 DEF BitsPlaced
    <2> QED BY <2>2, <2>3, LeaveCases
  <1>6. Active' = Active
    BY <1>1, <1>2 DEF Active
  <1>7. \A u : Others(u)' = Others(u)
    BY <1>6 DEF Others
  <1>8. t \notin Bypass
    BY <1>1 DEF IInv, Shape, Untouched
  <1>9. Untouched'
    BY <1>1, <1>2, <1>6, <1>8, SafepointAssumption DEF IInv, Shape, Untouched
  <1>10. LockHeld'
    BY <1>1, <1>2, <1>7 DEF IInv, Shape, LockHeld
  <1>11. OwnersRight'
    <2>1. \A u \in Threads : Kept(u)
      BY <1>1, <1>2 DEF Kept, Starting, OwnsOperation
    <2> QED BY <1>1, <1>2, <2>1, OwnersStay
  <1>12. ScopesRight'
    BY <1>1, <1>2 DEF IInv, Ownership, ScopesRight, OwnsOperation
  <1>13. CountsRight' /\ CountsNat' /\ StartsAtOne'
    <2>1. \A u \in Threads : Starting(u)' => Starting(u) /\ level'[u] = level[u]
      BY <1>1, <1>2 DEF Starting
    <2> QED BY <1>1, <2>1, CountsStay
  <1>14. ASSUME NEW c \in Threads, NEW l \in requested[c]
         PROVE  IsAtSafepoint(c, l)' <=> IsAtSafepoint(c, l)
    <2>1. l \in Levels
      BY <1>1
    <2>2. at[t] = 0 .. level[t]
      BY <1>1 DEF IInv, Shape, BitsPlaced, Outside
    <2>3. CASE at' = at BY <2>3 DEF IsAtSafepoint
    <2>4. CASE at' = [at EXCEPT ![t] = {}] /\ requested[t] \cap (0 .. level[t]) = {}
      BY SMT, <1>1, <2>1, <2>2, <2>4 DEF IsAtSafepoint
    <2> QED BY <2>3, <2>4, LeaveCases
  <1>15. NotParkedExact'
    BY <1>1, <1>14 DEF IInv, Asking, NotParkedExact
  <1>16. RequestsAreOwned'
    BY <1>1, <1>2 DEF IInv, Asking, RequestsAreOwned
  <1>17. EverybodyAsked'
    BY <1>1, <1>2, <1>7 DEF IInv, Asking, EverybodyAsked
  <1>18. StoppedWorld'
    <2> SUFFICES ASSUME NEW u \in Threads, Stopping(u)', NEW c \in Others(u)'
                 PROVE  /\ IsAtSafepoint(c, StoppedUpTo(u))'
                        /\ StoppedUpTo(u)' \in requested[c]'
      BY DEF StoppedWorld
    <2>1. Stopping(u) /\ c \in Others(u)
      BY <1>1, <1>2, <1>7 DEF Stopping, OwnsOperation
    <2>2. IsAtSafepoint(c, StoppedUpTo(u)) /\ StoppedUpTo(u) \in requested[c]
      BY <2>1 DEF IInv, Asking, StoppedWorld
    <2>3. StoppedUpTo(u)' = StoppedUpTo(u) /\ c \in Threads
      BY <1>1, <2>1 DEF StoppedUpTo, OwnsOperation, Others, Active
    <2>4. 0 .. StoppedUpTo(u) \subseteq at'[c]
      BY <1>14, <2>2, <2>3 DEF IsAtSafepoint
    <2> QED BY <1>1, <2>2, <2>3, <2>4 DEF IsAtSafepoint
  <1>19. StillHeld'
    <2>1. \A u \in Threads : pc'[u] = "continue" =>
                                pc[u] = "continue" /\ level'[u] = level[u]
      BY <1>1, <1>2
    <2> QED BY <1>1, <1>14, <2>1, HeldStays
  <1> QED BY <1>4, <1>5, <1>9, <1>10, <1>11, <1>12, <1>13, <1>15, <1>16, <1>17,
             <1>18, <1>19 DEF IInv, Shape, Ownership, Asking

-----------------------------------------------------------------------------
(* Starting an operation.                                                  *)

(* Covering is a finite set of positions.                                  *)
LEMMA CoveringFinite ==
  ASSUME IInv, NEW t \in Threads, NEW l \in Levels
  PROVE  /\ scopes[t] \in Seq(Levels) /\ Len(scopes[t]) \in Nat
         /\ IsFiniteSet(Covering(t, l)) /\ Cardinality(Covering(t, l)) \in Nat
         /\ OwnsOperation(t) => scopes[t][1] \in Levels /\ Len(scopes[t]) >= 1
  <1>1. scopes[t] \in Seq(Levels)
    BY DEF IInv, Shape, CoreOK
  <1>2. Len(scopes[t]) \in Nat
    BY SMT, <1>1
  <1>3. IsFiniteSet(1 .. Len(scopes[t]))
    BY SMT, <1>2, FS_Interval
  <1>4. IsFiniteSet(Covering(t, l))
    BY <1>3, FS_Subset DEF Covering
  <1>5. OwnsOperation(t) => scopes[t][1] \in Levels /\ Len(scopes[t]) >= 1
    BY SMT, <1>1 DEF OwnsOperation
  <1> QED BY <1>1, <1>2, <1>4, <1>5, FS_CardinalityType

(* A nested scope opens: SafepointThreads of a level already owned.        *)
NestedStart(t, l) ==
  /\ pc[t] = "running" /\ owner[l] = t
  /\ operations' = [i \in Levels |->
       IF i <= l THEN operations[i] + 1 ELSE operations[i]]
  /\ scopes' = [scopes EXCEPT ![t] = Append(@, l)]
  /\ UNCHANGED <<pc, at, requested, level, owner, not_parked, threads_lock, todo>>

LEMMA NestedStartStep ==
  ASSUME IInv, NEW t \in Threads, NEW l \in Levels, NestedStart(t, l)
  PROVE  IInv'
  <1>1. /\ UNCHANGED <<pc, at, requested, level, owner, not_parked, threads_lock,
                       todo>>
        /\ pc[t] = "running" /\ owner[l] = t
        /\ scopes' = [scopes EXCEPT ![t] = Append(@, l)]
        /\ operations' = [i \in Levels |->
             IF i <= l THEN operations[i] + 1 ELSE operations[i]]
        /\ scopes \in [Threads -> Seq(Levels)] /\ operations \in [Levels -> Nat]
    BY DEF IInv, Shape, CoreOK, Ownership, CountsNat, NestedStart
  <1>2. OwnsOperation(t) /\ l <= scopes[t][1]
    BY <1>1 DEF IInv, Ownership, OwnersRight, OwnerIs, Starting
  <1>3. /\ scopes'[t] = Append(scopes[t], l) /\ scopes'[t] \in Seq(Levels)
        /\ Len(scopes'[t]) = Len(scopes[t]) + 1 /\ Len(scopes[t]) \in Nat
        /\ scopes'[t][1] = scopes[t][1] /\ scopes'[t] # <<>>
        /\ scopes[t][1] \in Levels
        /\ \A k \in 1 .. Len(scopes[t]) : scopes'[t][k] = scopes[t][k]
        /\ scopes'[t][Len(scopes[t]) + 1] = l
    BY SMT, <1>1, <1>2 DEF OwnsOperation
  <1>4. \A u \in Threads : u # t => scopes'[u] = scopes[u]
    BY <1>1
  <1>5. \A u \in Threads : /\ OwnsOperation(u)' <=> OwnsOperation(u)
                           /\ OwnsOperation(u) => scopes'[u][1] = scopes[u][1]
    BY <1>2, <1>3, <1>4 DEF OwnsOperation
  <1>6. CoreOK'
    <2>1. scopes' \in [Threads -> Seq(Levels)]
      BY <1>1, <1>3, <1>4
    <2>2. operations' \in [Levels -> Int]
      BY SMT, <1>1
    <2> QED BY <1>1, <2>1, <2>2 DEF IInv, Shape, CoreOK
  <1>7. BitsPlaced' /\ LockHeld'
    BY <1>1 DEF IInv, Shape, BitsPlaced, Outside, LockHeld, Others, Active
  <1>8. t \notin Bypass
    BY <1>2 DEF IInv, Shape, Untouched, OwnsOperation
  <1>9. Untouched'
    BY <1>1, <1>4, <1>8, SafepointAssumption DEF IInv, Shape, Untouched, Active
  <1>10. OwnersRight'
    <2>1. \A u \in Threads : Kept(u)
      BY <1>1, <1>5 DEF Kept, Starting, OwnsOperation
    <2> QED BY <1>1, <1>5, <2>1, OwnersStay
  <1>11. ScopesRight'
    <2> SUFFICES ASSUME NEW u \in Threads
                 PROVE  /\ OwnsOperation(u)' =>
                             /\ pc[u]' \in {"running", "parked", "exit_wait", "sp_exit"}
                             /\ \/ pc[u]' = "running" \/ level[u]' = scopes[u][1]'
                                \/ scopes[u][1]' = 2
                             /\ \A k \in 1 .. Len(scopes'[u]) :
                                  scopes'[u][k] <= scopes'[u][1]
                        /\ pc[u]' = "sp_exit" => OwnsOperation(u)'
      BY DEF ScopesRight
    <2>1. CASE u = t
      BY SMT, <1>1, <1>2, <1>3, <1>5, <2>1 DEF IInv, Ownership, ScopesRight
    <2>2. CASE u # t
      BY <1>1, <1>4, <1>5, <2>2 DEF IInv, Ownership, ScopesRight
    <2> QED BY <2>1, <2>2
  <1>12. CountsNat' /\ StartsAtOne'
    <2>1. ASSUME NEW u \in Threads, Starting(u)' PROVE operations'[level'[u]] = 1
      <3>1. Starting(u) /\ level'[u] = level[u] /\ level[u] \in Levels
        BY <1>1, <2>1 DEF Starting, IInv, Shape, CoreOK
      <3>2. owner[level[u]] = u /\ u # t
        BY <1>1, <3>1, OwnedLevels DEF Starting
      <3>3. scopes[t][1] < level[u]
        BY SMT, <1>2, <1>3, <3>1, <3>2, OwnedLevels
      <3> QED BY SMT, <1>1, <1>2, <1>3, <3>1, <3>3 DEF IInv, Ownership, StartsAtOne
    <2> QED BY SMT, <1>1, <2>1 DEF CountsNat, StartsAtOne
  <1>13. CountsRight'
    <2> SUFFICES ASSUME NEW u \in Threads, NEW i \in Levels, OwnsOperation(u)',
                        i <= scopes'[u][1]
                 PROVE  operations'[i] = Cardinality(Covering(u, i)')
      BY DEF CountsRight
    <2>1. OwnsOperation(u) /\ i <= scopes[u][1]
      BY <1>5
    <2>2. operations[i] = Cardinality(Covering(u, i))
      BY <2>1 DEF IInv, Ownership, CountsRight
    <2>3. CASE u # t
      <3>1. owner[i] = u
        BY <2>1 DEF IInv, Ownership, OwnersRight, OwnerIs
      <3>2. scopes[t][1] < i
        <4>1. ~(i <= scopes[t][1])
          BY <1>2, <2>3, <3>1 DEF IInv, Ownership, OwnersRight, OwnerIs
        <4> QED BY SMT, <1>3, <4>1
      <3>3. operations'[i] = operations[i]
        BY SMT, <1>1, <1>2, <1>3, <3>2
      <3>4. Covering(u, i)' = Covering(u, i)
        BY <1>4, <2>3 DEF Covering
      <3> QED BY <2>2, <3>3, <3>4
    <2>4. CASE u = t /\ i <= l
      <3>1. Covering(t, i)' = Covering(t, i) \cup {Len(scopes[t]) + 1}
        BY SMT, <1>3, <2>4 DEF Covering
      <3>2. Len(scopes[t]) + 1 \notin Covering(t, i)
        BY SMT, <1>3 DEF Covering
      <3>3. Cardinality(Covering(t, i)') = Cardinality(Covering(t, i)) + 1
        BY <3>1, <3>2, CardAdd, CoveringFinite
      <3> QED BY <1>1, <2>2, <2>4, <3>3
    <2>5. CASE u = t /\ ~(i <= l)
      <3>1. Covering(t, i)' = Covering(t, i)
        BY SMT, <1>3, <2>5 DEF Covering
      <3> QED BY <1>1, <2>2, <2>5, <3>1
    <2> QED BY <2>3, <2>4, <2>5
  <1>14. NotParkedExact' /\ RequestsAreOwned' /\ EverybodyAsked' /\ StillHeld'
    BY SMT, <1>1 DEF IInv, Asking, NotParkedExact, IsAtSafepoint, RequestsAreOwned,
                EverybodyAsked, Others, Active, StillHeld
  <1>15. StoppedWorld'
    BY <1>1, <1>5 DEF IInv, Asking, StoppedWorld, Stopping, StoppedUpTo,
                      IsAtSafepoint, Others, Active
  <1> QED BY <1>6, <1>7, <1>9, <1>10, <1>11, <1>12, <1>13, <1>14, <1>15
          DEF IInv, Shape, Ownership, Asking

(* A thread waits for the level to be free: SafepointThreads up to the     *)
(* wait for threads_lock().                                                *)
LEMMA WaitToStartStep ==
  ASSUME IInv, NEW t \in Threads, NEW l \in Levels, Enters(t, l, "sp_wait"),
         ~OwnsOperation(t), UNCHANGED <<owner, operations, threads_lock, todo>>
  PROVE  IInv'
  <1>0. "sp_wait" \in Entered
    BY DEF Entered
  <1>1. /\ at' = [at EXCEPT ![t] = 0 .. l] /\ level' = [level EXCEPT ![t] = l]
        /\ pc' = [pc EXCEPT ![t] = "sp_wait"] /\ pc[t] = "running"
        /\ requested' = requested /\ scopes' = scopes
        /\ at \in [Threads -> SUBSET Levels] /\ pc \in [Threads -> PCs]
        /\ level \in [Threads -> Levels]
    BY EnterSetsBits DEF IInv, Shape, CoreOK, Enters
  <1>2. BitsPlaced' /\ Untouched' /\ StoppedWorld' /\ \A u : Others(u)' = Others(u)
    BY <1>0, EnterKeepsPlaces
  <1>3. NotParkedExact' /\ not_parked' \in [Levels -> Int]
    BY EnterKeepsCount DEF IInv, Asking
  <1>4. CoreOK'
    <2>1. pc' \in [Threads -> PCs]
      BY <1>1 DEF PCs
    <2>2. at' \in [Threads -> SUBSET Levels] /\ level' \in [Threads -> Levels]
      BY SMT, <1>1
    <2> QED BY <1>1, <1>3, <2>1, <2>2 DEF IInv, Shape, CoreOK
  <1>5. LockHeld'
    BY <1>1, <1>2 DEF IInv, Shape, LockHeld
  <1>6. OwnersRight'
    <2>1. \A u \in Threads : Kept(u)
      BY <1>1 DEF Kept, Starting, OwnsOperation
    <2> QED BY <1>1, <2>1, OwnersStay
  <1>7. ScopesRight'
    BY <1>1 DEF IInv, Ownership, ScopesRight, OwnsOperation
  <1>8. CountsRight' /\ CountsNat' /\ StartsAtOne'
    <2>1. \A u \in Threads : Starting(u)' => Starting(u) /\ level'[u] = level[u]
      BY <1>1 DEF Starting
    <2> QED BY <1>1, <2>1, CountsStay
  <1>9. RequestsAreOwned'
    BY <1>1 DEF IInv, Asking, RequestsAreOwned
  <1>10. EverybodyAsked'
    BY <1>1, <1>2 DEF IInv, Asking, EverybodyAsked
  <1>11. StillHeld'
    <2>1. at[t] = {}
      BY <1>1 DEF IInv, Shape, BitsPlaced, Outside
    <2>2. \A c \in Threads : \A i : IsAtSafepoint(c, i) => IsAtSafepoint(c, i)'
      BY <1>1, <2>1 DEF IsAtSafepoint
    <2>3. \A u \in Threads : pc'[u] = "continue" =>
                                pc[u] = "continue" /\ level'[u] = level[u]
      BY <1>1
    <2> QED BY <1>1, <2>2, <2>3, HeldStays
  <1> QED BY <1>2, <1>3, <1>4, <1>5, <1>6, <1>7, <1>8, <1>9, <1>10, <1>11
          DEF IInv, Shape, Ownership, Asking

(* While nobody holds threads_lock(), a free level has asked nobody.       *)
LEMMA FreeLevelUnasked ==
  ASSUME IInv, threads_lock = Nobody, NEW l \in Levels, owner[l] = Nobody,
         NEW c \in Threads
  PROVE  l \notin requested[c]
  <1>1. \A u \in Threads : pc[u] # "continue"
    BY SafepointAssumption DEF IInv, Shape, LockHeld
  <1> QED BY <1>1, SafepointAssumption DEF IInv, Asking, RequestsAreOwned

(* A thread takes a free level and sets out to ask the others; it comes    *)
(* from outside a safepoint or from the wait for the level.                *)
Begins(t, l) ==
  /\ threads_lock = Nobody /\ owner[l] = Nobody /\ ~OwnsOperation(t)
  /\ ~Starting(t) /\ pc[t] \in {"running", "sp_wait"} /\ t \notin Bypass
  /\ SetSafepointInProgress(t, l)
  /\ at' = [at EXCEPT ![t] = 0 .. l] /\ level' = [level EXCEPT ![t] = l]
  /\ UNCHANGED <<requested, scopes>>

LEMMA BeginStep ==
  ASSUME IInv, NEW t \in Threads, NEW l \in Levels, Begins(t, l),
         BitsPlaced', NotParkedExact', not_parked' \in [Levels -> Int], StoppedWorld'
  PROVE  IInv'
  <1>1. /\ at' = [at EXCEPT ![t] = 0 .. l] /\ level' = [level EXCEPT ![t] = l]
        /\ pc' = [pc EXCEPT ![t] = "notify"] /\ pc[t] \in {"running", "sp_wait"}
        /\ requested' = requested /\ scopes' = scopes
        /\ owner' = [owner EXCEPT ![l] = t] /\ owner[l] = Nobody
        /\ operations' = [operations EXCEPT ![l] = 1]
        /\ threads_lock = Nobody /\ threads_lock' = t /\ todo' = Others(t)
        /\ ~OwnsOperation(t) /\ t \notin Bypass
        /\ at \in [Threads -> SUBSET Levels] /\ pc \in [Threads -> PCs]
        /\ level \in [Threads -> Levels] /\ operations \in [Levels -> Nat]
        /\ owner \in [Levels -> Threads \cup {Nobody}]
    BY DEF IInv, Shape, CoreOK, Ownership, CountsNat, Begins, SetSafepointInProgress
  <1>2. Nobody \notin Threads
    BY SafepointAssumption
  <1>3. \A u \in Threads : pc[u] \notin {"notify", "continue", "freeing"}
    BY <1>1, <1>2 DEF IInv, Shape, LockHeld
  <1>4. Active' = Active
    BY <1>1 DEF Active
  <1>5. \A u : Others(u)' = Others(u)
    BY <1>4 DEF Others
  <1>6. CoreOK'
    <2>1. CoreOK
      BY DEF IInv, Shape
    <2>2. at' \in [Threads -> SUBSET Levels] /\ level' \in [Threads -> Levels]
      <3>1. 0 .. l \in SUBSET Levels
        BY SMT
      <3> QED BY <1>1, <3>1
    <2>3. pc' \in [Threads -> PCs]
      BY <1>1 DEF PCs
    <2>4. operations' \in [Levels -> Int]
      BY SMT, <1>1
    <2>5. owner' \in [Levels -> Threads \cup {Nobody}] /\ todo' \subseteq Threads
      BY <1>1 DEF Others, Active
    <2> QED BY <1>1, <2>1, <2>2, <2>3, <2>4, <2>5 DEF CoreOK
  <1>7. Untouched'
    BY <1>1, <1>4, SafepointAssumption DEF IInv, Shape, Untouched
  <1>8. LockHeld'
    BY <1>1, <1>3, <1>5 DEF LockHeld
  <1>9. OwnersRight'
    <2> SUFFICES ASSUME NEW u \in Threads
                 PROVE  /\ \A i \in Levels : owner'[i] = u <=> OwnerIs(u, i)'
                        /\ pc'[u] # "continue"
      BY DEF OwnersRight
    <2>1. \A i \in Levels : owner[i] = u <=> OwnerIs(u, i)
      BY DEF IInv, Ownership, OwnersRight
    <2>2. CASE u = t
      BY <1>1, <1>2, <1>3, <2>1, <2>2 DEF OwnerIs, Starting, OwnsOperation
    <2>3. CASE u # t
      BY <1>1, <1>2, <1>3, <2>1, <2>3 DEF OwnerIs, Starting, OwnsOperation
    <2> QED BY <2>2, <2>3
  <1>10. ScopesRight'
    BY <1>1 DEF IInv, Ownership, ScopesRight, OwnsOperation
  <1>11. CountsNat' /\ StartsAtOne'
    <2>1. ASSUME NEW u \in Threads, Starting(u)' PROVE operations'[level'[u]] = 1
      <3>1. CASE u = t BY <1>1, <3>1
      <3>2. CASE u # t
        <4>1. Starting(u) /\ level'[u] = level[u] /\ level[u] \in Levels
          BY <1>1, <2>1, <3>2 DEF Starting
        <4>2. owner[level[u]] = u
          BY <4>1 DEF IInv, Ownership, OwnersRight, OwnerIs
        <4>3. level[u] # l
          BY <1>1, <1>2, <4>2
        <4> QED BY <1>1, <4>1, <4>3 DEF IInv, Ownership, StartsAtOne
      <3> QED BY <3>1, <3>2
    <2> QED BY <1>1, <2>1 DEF CountsNat, StartsAtOne
  <1>12. CountsRight'
    <2> SUFFICES ASSUME NEW u \in Threads, NEW i \in Levels, OwnsOperation(u)',
                        i <= scopes'[u][1]
                 PROVE  operations'[i] = Cardinality(Covering(u, i)')
      BY DEF CountsRight
    <2>1. OwnsOperation(u) /\ i <= scopes[u][1] /\ Covering(u, i)' = Covering(u, i)
      BY <1>1 DEF OwnsOperation, Covering
    <2>2. owner[i] = u
      BY <2>1 DEF IInv, Ownership, OwnersRight, OwnerIs
    <2>3. i # l
      BY <1>1, <1>2, <2>2
    <2>4. operations'[i] = operations[i]
      BY <1>1, <2>3
    <2> QED BY <2>1, <2>4 DEF IInv, Ownership, CountsRight
  <1>13. RequestsAreOwned'
    <2> SUFFICES ASSUME NEW c \in Threads, NEW i \in requested[c]
                 PROVE  owner'[i] \in Threads \ {c}
      BY <1>1 DEF RequestsAreOwned
    <2>1. owner[i] \in Threads \ {c} /\ i \in Levels
      BY <1>3 DEF IInv, Asking, RequestsAreOwned, Shape, CoreOK
    <2> QED BY <1>1, <1>2, <2>1
  <1>14. EverybodyAsked'
    <2>1. \A c \in Threads : l \notin requested[c]
      BY <1>1, FreeLevelUnasked
    <2>2. todo' \subseteq Threads
      BY <1>1 DEF Others, Active
    <2> QED BY <1>1, <1>3, <1>5, <2>1, <2>2 DEF IInv, Asking, EverybodyAsked
  <1>15. StillHeld'
    BY <1>1, <1>3 DEF StillHeld
  <1> QED BY <1>6, <1>7, <1>8, <1>9, <1>10, <1>11, <1>12, <1>13, <1>14, <1>15
          DEF IInv, Shape, Ownership, Asking

LEMMA SafepointThreadsStep ==
  ASSUME IInv, NEW t \in Threads, NEW l \in OpLevels, SafepointThreads(t, l)
  PROVE  IInv'
  <1>1. l \in Levels
    BY SafepointAssumption
  <1>2. CASE owner[l] = t
    <2>1. NestedStart(t, l)
      BY <1>2 DEF SafepointThreads, NestedStart
    <2> QED BY <1>1, <2>1, NestedStartStep
  <1>3. CASE owner[l] # t /\ owner[l] # Nobody
    <2>1. Enters(t, l, "sp_wait")
      BY <1>3 DEF SafepointThreads, Enters, EnterSafepoint, OwnParkLevel
    <2>2. ~OwnsOperation(t) /\ UNCHANGED <<owner, operations, threads_lock, todo>>
      BY <1>3 DEF SafepointThreads
    <2> QED BY <1>1, <2>1, <2>2, WaitToStartStep
  <1>4. CASE owner[l] # t /\ owner[l] = Nobody
    <2>1. /\ Enters(t, l, "notify") /\ "notify" \in Entered
          /\ SetSafepointInProgress(t, l) /\ ~OwnsOperation(t)
          /\ threads_lock = Nobody
      BY <1>4 DEF SafepointThreads, Enters, EnterSafepoint, OwnParkLevel, Entered,
                  SetSafepointInProgress
    <2>2. Begins(t, l)
      BY <1>1, <1>4, <2>1, EnterSetsBits DEF IInv, Begins, Enters, Starting
    <2>3. NotParkedExact' /\ not_parked' \in [Levels -> Int]
      BY <1>1, <2>1, EnterKeepsCount DEF IInv, Asking
    <2>4. BitsPlaced' /\ StoppedWorld'
      BY <1>1, <2>1, EnterKeepsPlaces
    <2> QED BY <1>1, <2>2, <2>3, <2>4, BeginStep
  <1> QED BY <1>2, <1>3, <1>4

LEMMA SafepointWaitWakesStep ==
  ASSUME IInv, NEW t \in Threads, SafepointWaitWakes(t)
  PROVE  IInv'
  <1>1. /\ pc[t] = "sp_wait" /\ threads_lock = Nobody
        /\ UNCHANGED <<at, requested, level, scopes, not_parked>>
        /\ at \in [Threads -> SUBSET Levels] /\ pc \in [Threads -> PCs]
        /\ level \in [Threads -> Levels] /\ not_parked \in [Levels -> Int]
    BY DEF IInv, Shape, CoreOK, SafepointWaitWakes
  <1>2. CASE owner[level[t]] # Nobody
    <2>1. UNCHANGED Core
      BY <1>1, <1>2 DEF SafepointWaitWakes, Core
    <2> QED BY <2>1, IdleStep
  <1>3. CASE owner[level[t]] = Nobody
    <2>1. SetSafepointInProgress(t, level[t])
      BY <1>3 DEF SafepointWaitWakes
    <2>2. at[t] = 0 .. level[t] /\ t \notin Bypass /\ ~OwnsOperation(t)
      BY <1>1 DEF IInv, Shape, BitsPlaced, Outside, Untouched, Ownership, ScopesRight
    <2>3. at' = [at EXCEPT ![t] = 0 .. level[t]]
          /\ level' = [level EXCEPT ![t] = level[t]]
      BY <1>1, <2>2
    <2>4. Begins(t, level[t])
      BY <1>1, <1>3, <2>1, <2>2, <2>3 DEF Begins, Starting
    <2>5. pc' = [pc EXCEPT ![t] = "notify"]
      BY <2>1 DEF SetSafepointInProgress
    <2>6. BitsPlaced'
      BY <1>1, <2>5 DEF IInv, Shape, BitsPlaced, Outside
    <2>7. NotParkedExact'
      BY <1>1 DEF IInv, Asking, NotParkedExact, IsAtSafepoint
    <2>8. StoppedWorld'
      BY <1>1, <2>5 DEF IInv, Asking, StoppedWorld, Stopping, StoppedUpTo,
                        OwnsOperation, IsAtSafepoint, Others, Active
    <2>9. level[t] \in Levels /\ not_parked' \in [Levels -> Int]
      BY <1>1
    <2> QED BY <2>4, <2>6, <2>7, <2>8, <2>9, BeginStep
  <1> QED BY <1>2, <1>3

(* One thread is asked.                                                    *)
LEMMA NotifyThreadStep ==
  ASSUME IInv, NEW t \in Threads, NEW c \in todo, NotifyThread(t, c)
  PROVE  IInv'
  <1> DEFINE l == level[t]
  <1>1. /\ pc[t] = "notify" /\ l \in Levels /\ c \in Threads
        /\ UNCHANGED <<pc, at, level, scopes, owner, operations, threads_lock>>
        /\ todo' = todo \ {c}
        /\ requested' = [requested EXCEPT ![c] = @ \cup {l}]
        /\ requested \in [Threads -> SUBSET Levels]
        /\ not_parked \in [Levels -> Int]
    BY DEF IInv, Shape, CoreOK, NotifyThread
  <1>2. c \in Others(t) /\ l \notin requested[c]
    BY <1>1 DEF IInv, Shape, LockHeld, Asking, EverybodyAsked
  <1>3. owner[l] = t
    BY <1>1 DEF IInv, Ownership, OwnersRight, OwnerIs, Starting
  <1>4. \A u \in Threads \ {t} : pc[u] \notin {"notify", "continue", "freeing"}
    BY <1>1 DEF IInv, Shape, LockHeld
  <1>5. /\ not_parked' \in [Levels -> Int]
        /\ not_parked' = IF IsAtSafepoint(c, l) THEN not_parked
                         ELSE [not_parked EXCEPT ![l] = @ + 1]
    BY SMTT(20), <1>1 DEF NotifyThread
  <1>6. CoreOK'
    BY <1>1, <1>5 DEF IInv, Shape, CoreOK
  <1>7. BitsPlaced'
    BY <1>1 DEF IInv, Shape, BitsPlaced, Outside
  <1>8. Active' = Active
    BY <1>1 DEF Active
  <1>9. \A u : Others(u)' = Others(u)
    BY <1>8 DEF Others
  <1>10. Untouched'
    BY <1>1, <1>2, <1>8, SafepointAssumption DEF IInv, Shape, Untouched, Others
  <1>11. LockHeld'
    BY <1>1, <1>9 DEF IInv, Shape, LockHeld
  <1>12. OwnersRight'
    <2>1. \A u \in Threads : Kept(u)
      BY <1>1 DEF Kept, Starting, OwnsOperation
    <2> QED BY <1>1, <2>1, OwnersStay
  <1>13. ScopesRight'
    BY <1>1 DEF IInv, Ownership, ScopesRight, OwnsOperation
  <1>14. CountsRight' /\ CountsNat' /\ StartsAtOne'
    <2>1. \A u \in Threads : Starting(u)' => Starting(u) /\ level'[u] = level[u]
      BY <1>1 DEF Starting
    <2> QED BY <1>1, <2>1, CountsStay
  <1>15. NotParkedExact'
    <2>1. ASSUME NEW i \in Levels PROVE not_parked'[i] = Cardinality(Missing(i)')
      <3>1. not_parked[i] = Cardinality(Missing(i))
        BY DEF IInv, Asking, NotParkedExact, Missing
      <3>2. CASE i = l /\ ~IsAtSafepoint(c, l)
        <4>1. Missing(i)' = Missing(i) \cup {c}
          BY <1>1, <3>2 DEF Missing, IsAtSafepoint
        <4>2. c \notin Missing(i)
          BY <1>2, <3>2 DEF Missing
        <4>3. Cardinality(Missing(i)') = Cardinality(Missing(i)) + 1
          BY <4>1, <4>2, MissingFinite, CardAdd
        <4> QED BY <1>1, <1>5, <3>1, <3>2, <4>3
      <3>3. CASE ~(i = l /\ ~IsAtSafepoint(c, l))
        <4>1. Missing(i)' = Missing(i)
          BY <1>1, <3>3 DEF Missing, IsAtSafepoint
        <4> QED BY <1>1, <1>5, <3>1, <3>3, <4>1
      <3> QED BY <3>2, <3>3
    <2> QED BY <2>1 DEF NotParkedExact, Missing
  <1>16. RequestsAreOwned'
    <2> SUFFICES ASSUME NEW d \in Threads, NEW i \in requested'[d]
                 PROVE  owner'[i] \in Threads \ {d}
      BY <1>1 DEF RequestsAreOwned
    <2>1. CASE i \in requested[d]
      BY <1>1, <1>4, <2>1 DEF IInv, Asking, RequestsAreOwned
    <2>2. CASE i \notin requested[d]
      BY <1>1, <1>2, <1>3, <2>2 DEF Others
    <2> QED BY <2>1, <2>2
  <1>17. EverybodyAsked'
    <2>1. \A u \in Threads : pc'[u] = "notify" => u = t
      BY <1>1, <1>4
    <2>2. \A d \in todo' : level'[t] \notin requested'[d]
      BY <1>1 DEF IInv, Asking, EverybodyAsked, Shape, CoreOK
    <2>3. \A d \in Others(t)' \ todo' : level'[t] \in requested'[d]
      BY <1>1, <1>9 DEF IInv, Asking, EverybodyAsked, Others, Active
    <2>4. \A u \in Threads : pc'[u] \in {"send", "waiting"} =>
            \A d \in Others(u)' : level'[u] \in requested'[d]
      BY <1>1, <1>9 DEF IInv, Asking, EverybodyAsked, Others, Active
    <2> QED BY <2>1, <2>2, <2>3, <2>4 DEF EverybodyAsked
  <1>18. StoppedWorld'
    BY <1>1, <1>9 DEF IInv, Asking, StoppedWorld, Stopping, StoppedUpTo,
                      OwnsOperation, IsAtSafepoint, Others, Active
  <1>19. StillHeld'
    BY <1>1, <1>4 DEF StillHeld
  <1> QED BY <1>6, <1>7, <1>10, <1>11, <1>12, <1>13, <1>14, <1>15, <1>16, <1>17,
             <1>18, <1>19 DEF IInv, Shape, Ownership, Asking

(* A starting thread goes on: everybody is asked, told, or has checked in. *)
Advances(t, x) ==
  /\ pc[t] \in {"notify", "send", "waiting"} /\ pc' = [pc EXCEPT ![t] = x]
  /\ UNCHANGED <<at, requested, level, scopes, owner, operations, not_parked, todo>>
  /\ threads_lock' = IF pc[t] = "notify" THEN Nobody ELSE threads_lock
  /\ \A c \in Others(t) : /\ level[t] \in requested[c]
                          /\ x = "lower" => IsAtSafepoint(c, level[t])

LEMMA AdvanceStep ==
  ASSUME IInv, NEW t \in Threads, NEW x \in {"send", "waiting", "lower"},
         Advances(t, x)
  PROVE  IInv'
  <1>1. /\ pc[t] \in {"notify", "send", "waiting"} /\ pc' = [pc EXCEPT ![t] = x]
        /\ UNCHANGED <<at, requested, level, scopes, owner, operations,
                       not_parked, todo>>
        /\ threads_lock' = IF pc[t] = "notify" THEN Nobody ELSE threads_lock
        /\ pc \in [Threads -> PCs] /\ Nobody \notin Threads
    BY SafepointAssumption DEF IInv, Shape, CoreOK, Advances
  <1>2. CoreOK'
    BY <1>1 DEF IInv, Shape, CoreOK, PCs
  <1>3. BitsPlaced'
    BY <1>1 DEF IInv, Shape, BitsPlaced, Outside
  <1>4. Active' = Active
    BY <1>1 DEF Active
  <1>5. \A u : Others(u)' = Others(u)
    BY <1>4 DEF Others
  <1>6. t \notin Bypass
    BY <1>1 DEF IInv, Shape, Untouched
  <1>7. Untouched'
    BY <1>1, <1>4, <1>6, SafepointAssumption DEF IInv, Shape, Untouched
  <1>8. LockHeld'
    BY <1>1, <1>5 DEF IInv, Shape, LockHeld
  <1>9. OwnersRight'
    <2>1. \A u \in Threads : Kept(u)
      BY <1>1 DEF Kept, Starting, OwnsOperation
    <2> QED BY <1>1, <2>1, OwnersStay
  <1>10. ScopesRight'
    BY <1>1 DEF IInv, Ownership, ScopesRight, OwnsOperation
  <1>11. CountsRight' /\ CountsNat' /\ StartsAtOne'
    <2>1. \A u \in Threads : Starting(u)' => Starting(u) /\ level'[u] = level[u]
      BY <1>1 DEF Starting
    <2> QED BY <1>1, <2>1, CountsStay
  <1>12. NotParkedExact' /\ RequestsAreOwned'
    BY <1>1 DEF IInv, Asking, NotParkedExact, IsAtSafepoint, RequestsAreOwned
  <1>13. EverybodyAsked'
    BY <1>1, <1>5 DEF IInv, Asking, EverybodyAsked, Advances
  <1>14. StoppedWorld'
    <2>1. ~OwnsOperation(t)
      BY <1>1 DEF IInv, Ownership, ScopesRight
    <2> QED BY <1>1, <1>5, <2>1
            DEF IInv, Asking, StoppedWorld, Stopping, StoppedUpTo, OwnsOperation,
                IsAtSafepoint, Advances
  <1>15. StillHeld'
    BY <1>1 DEF IInv, Asking, StillHeld, IsAtSafepoint
  <1> QED BY <1>2, <1>3, <1>7, <1>8, <1>9, <1>10, <1>11, <1>12, <1>13, <1>14, <1>15
          DEF IInv, Shape, Ownership, Asking

LEMMA NotifyDoneStep ==
  ASSUME IInv, NEW t \in Threads, NotifyDone(t)
  PROVE  IInv'
  <1>1. Advances(t, "send")
    BY DEF NotifyDone, Advances, IInv, Asking, EverybodyAsked
  <1> QED BY <1>1, AdvanceStep

LEMMA SendDoneStep ==
  ASSUME IInv, NEW t \in Threads, SendDone(t)
  PROVE  IInv'
  <1>1. Advances(t, "waiting")
    BY DEF SendDone, Advances, IInv, Asking, EverybodyAsked
  <1> QED BY <1>1, AdvanceStep

(* The counter is zero, so everybody that was asked has checked in.        *)
LEMMA WaitUntilStep ==
  ASSUME IInv, NEW t \in Threads, WaitUntilThreadsReachedSafepointLevel(t)
  PROVE  IInv'
  <1>1. level[t] \in Levels /\ not_parked[level[t]] = 0
    BY DEF IInv, Shape, CoreOK, WaitUntilThreadsReachedSafepointLevel
  <1>2. Cardinality(Missing(level[t])) = 0
    BY <1>1 DEF IInv, Asking, NotParkedExact, Missing
  <1>3. Missing(level[t]) = {}
    BY <1>1, <1>2, MissingFinite
  <1>4. ASSUME NEW c \in Others(t)
        PROVE  level[t] \in requested[c] /\ IsAtSafepoint(c, level[t])
    <2>1. level[t] \in requested[c] /\ c \in Threads
      BY DEF WaitUntilThreadsReachedSafepointLevel, IInv, Asking, EverybodyAsked,
             Others, Active
    <2> QED BY <1>3, <2>1 DEF Missing
  <1>5. Advances(t, "lower")
    BY <1>4 DEF WaitUntilThreadsReachedSafepointLevel, Advances
  <1> QED BY <1>5, AdvanceStep

(* Whoever owned a lower level would have checked in at that level only.   *)
LEMMA LowerFree ==
  ASSUME IInv, NEW t \in Threads, pc[t] = "lower"
  PROVE  /\ owner[level[t]] = t
         /\ \A l \in 0 .. level[t] - 1 : owner[l] = Nobody
  <1>1. owner[level[t]] = t /\ ~OwnsOperation(t) /\ level[t] \in Levels
    BY DEF IInv, Shape, CoreOK, Ownership, OwnersRight, OwnerIs, Starting,
           ScopesRight
  <1>2. ASSUME NEW l \in 0 .. level[t] - 1, owner[l] # Nobody PROVE FALSE
    <2>1. PICK u \in Threads : u = owner[l]
      BY SMT, <1>1, <1>2 DEF IInv, Shape, CoreOK
    <2>2. l \in Levels /\ OwnerIs(u, l)
      BY SMT, <1>1, <2>1 DEF IInv, Ownership, OwnersRight
    <2>3. u # t
      BY SMT, <1>1, <2>2 DEF OwnerIs
    <2>4. u \in Others(t)
      <3>1. u \notin Bypass /\ u \in Active
        BY <2>2 DEF IInv, Shape, Untouched, Active, OwnerIs, Starting,
                    OwnsOperation, Ownership, ScopesRight
      <3> QED BY <2>3, <3>1 DEF Others
    <2>5. 0 .. level[t] \subseteq at[u]
      BY <1>1, <2>4 DEF IInv, Asking, StoppedWorld, Stopping, StoppedUpTo,
                        IsAtSafepoint
    <2>6. /\ at[u] = IF Outside(u) THEN {} ELSE 0 .. level[u]
          /\ level[u] \in Levels
      BY DEF IInv, Shape, BitsPlaced, CoreOK
    <2>7. ~Outside(u) /\ level[u] >= level[t]
      BY SMT, <1>1, <2>5, <2>6
    <2>8. OwnsOperation(u) /\ l <= scopes[u][1] /\ scopes[u][1] \in Levels
      BY SMT, <2>2, <2>7, <1>1, CoveringFinite DEF OwnerIs
    <2>9. level[u] = scopes[u][1] \/ scopes[u][1] = 2
      BY <2>7, <2>8 DEF IInv, Ownership, ScopesRight, Outside
    <2>10. level[t] <= scopes[u][1]
      BY SMT, <1>1, <2>7, <2>8, <2>9
    <2>11. owner[level[t]] = u
      BY <1>1, <2>8, <2>10 DEF IInv, Ownership, OwnersRight, OwnerIs
    <2> QED BY <1>1, <2>3, <2>11
  <1> QED BY <1>1, <1>2

-----------------------------------------------------------------------------
(* The thread that everybody has checked in for takes the lower levels.    *)
LEMMA AcquireLowerStep ==
  ASSUME IInv, NEW t \in Threads, AcquireLowerLevelSafepoints(t)
  PROVE  IInv'
  <1> DEFINE L == level[t]
  <1>1. /\ pc[t] = "lower" /\ threads_lock = Nobody /\ L \in Levels
        /\ owner' = [l \in Levels |-> IF l < L THEN t ELSE owner[l]]
        /\ operations' = [l \in Levels |-> IF l < L THEN 1 ELSE operations[l]]
        /\ scopes' = [scopes EXCEPT ![t] = <<L>>]
        /\ pc' = [pc EXCEPT ![t] = "sp_exit"]
        /\ UNCHANGED <<at, requested, level, not_parked, threads_lock, todo>>
        /\ pc \in [Threads -> PCs] /\ scopes \in [Threads -> Seq(Levels)]
        /\ owner \in [Levels -> Threads \cup {Nobody}]
        /\ operations \in [Levels -> Nat] /\ Nobody \notin Threads
    BY SafepointAssumption
       DEF IInv, Shape, CoreOK, Ownership, CountsNat, AcquireLowerLevelSafepoints
  <1>2. owner[L] = t /\ \A l \in 0 .. L - 1 : owner[l] = Nobody
    BY <1>1, LowerFree
  <1>3. ~OwnsOperation(t) /\ t \notin Bypass
    BY <1>1 DEF IInv, Shape, Untouched, Ownership, ScopesRight
  <1>4. \A u \in Threads : pc[u] \notin {"notify", "continue", "freeing"}
    BY <1>1 DEF IInv, Shape, LockHeld
  <1>5. /\ scopes'[t] = <<L>> /\ Len(scopes'[t]) = 1 /\ scopes'[t][1] = L
        /\ scopes'[t] # <<>> /\ scopes'[t] \in Seq(Levels)
        /\ \A u \in Threads \ {t} : scopes'[u] = scopes[u]
    BY SMT, <1>1
  <1>6. CoreOK'
    <2>1. scopes' \in [Threads -> Seq(Levels)]
      BY <1>1, <1>5
    <2>2. pc' \in [Threads -> PCs]
      BY <1>1 DEF PCs
    <2> QED BY SMT, <1>1, <2>1, <2>2 DEF IInv, Shape, CoreOK
  <1>7. BitsPlaced'
    BY <1>1 DEF IInv, Shape, BitsPlaced, Outside
  <1>8. Active' = Active
    BY <1>1 DEF Active
  <1>9. \A u : Others(u)' = Others(u)
    BY <1>8 DEF Others
  <1>10. Untouched'
    BY <1>1, <1>3, <1>5, <1>8, SafepointAssumption DEF IInv, Shape, Untouched
  <1>11. LockHeld'
    BY <1>1, <1>4, <1>9 DEF IInv, Shape, LockHeld
  <1>12. OwnersRight'
    <2> SUFFICES ASSUME NEW u \in Threads
                 PROVE  \A i \in Levels : owner'[i] = u <=> OwnerIs(u, i)'
      BY <1>1, <1>4 DEF OwnersRight
    <2>1. \A i \in Levels : owner[i] = u <=> OwnerIs(u, i)
      BY DEF IInv, Ownership, OwnersRight
    <2>2. CASE u = t
      <3>1. \A i \in Levels : OwnerIs(t, i)' <=> i <= L
        BY <1>1, <1>5 DEF OwnerIs, Starting, OwnsOperation
      <3>2. \A i \in Levels : owner[i] = t <=> i = L
        BY <1>1, <1>3, <2>1, <2>2 DEF OwnerIs, Starting
      <3> QED BY SMT, <1>1, <2>2, <3>1, <3>2
    <2>3. CASE u # t
      <3>1. \A i \in Levels : OwnerIs(u, i)' <=> OwnerIs(u, i)
        BY <1>1, <1>5, <2>3 DEF OwnerIs, Starting, OwnsOperation
      <3> QED BY SMT, <1>1, <1>2, <2>1, <2>3, <3>1
    <2> QED BY <2>2, <2>3
  <1>13. ScopesRight'
    <2>1. OwnsOperation(t)' /\ \A k \in 1 .. Len(scopes'[t]) : scopes'[t][k] <= L
      BY SMT, <1>1, <1>5 DEF OwnsOperation
    <2> QED BY <1>1, <1>5, <2>1 DEF IInv, Ownership, ScopesRight, OwnsOperation
  <1>14. CountsNat' /\ StartsAtOne'
    <2>1. ASSUME NEW u \in Threads, Starting(u)' PROVE operations'[level'[u]] = 1
      <3>1. /\ Starting(u) /\ level'[u] = level[u] /\ level[u] \in Levels /\ u # t
        BY <1>1, <2>1 DEF Starting, IInv, Shape, CoreOK
      <3>2. owner[level[u]] = u
        BY <3>1 DEF IInv, Ownership, OwnersRight, OwnerIs
      <3>3. ~(level[u] < L)
        BY SMT, <1>1, <1>2, <3>1, <3>2
      <3> QED BY <1>1, <3>1, <3>3 DEF IInv, Ownership, StartsAtOne
    <2> QED BY <1>1, <2>1 DEF CountsNat, StartsAtOne
  <1>15. CountsRight'
    <2> SUFFICES ASSUME NEW u \in Threads, NEW i \in Levels, OwnsOperation(u)',
                        i <= scopes'[u][1]
                 PROVE  operations'[i] = Cardinality(Covering(u, i)')
      BY DEF CountsRight
    <2>1. CASE u = t
      <3>1. Covering(t, i)' = {1}
        BY SMT, <1>1, <1>5, <2>1 DEF Covering
      <3>2. Cardinality(Covering(t, i)') = 1
        BY <3>1, FS_Singleton
      <3>3. operations[L] = 1
        BY <1>1 DEF IInv, Ownership, StartsAtOne, Starting
      <3> QED BY SMT, <1>1, <1>5, <2>1, <3>2, <3>3
    <2>2. CASE u # t
      <3>1. Covering(u, i)' = Covering(u, i) /\ OwnsOperation(u) /\ i <= scopes[u][1]
        BY <1>5, <2>2 DEF Covering, OwnsOperation
      <3>2. owner[i] = u
        BY <3>1 DEF IInv, Ownership, OwnersRight, OwnerIs
      <3>3. operations'[i] = operations[i]
        BY SMT, <1>1, <1>2, <2>2, <3>2
      <3> QED BY <3>1, <3>3 DEF IInv, Ownership, CountsRight
    <2> QED BY <2>1, <2>2
  <1>16. NotParkedExact'
    BY <1>1 DEF IInv, Asking, NotParkedExact, IsAtSafepoint
  <1>17. RequestsAreOwned'
    <2> SUFFICES ASSUME NEW c \in Threads, NEW i \in requested[c]
                 PROVE  owner'[i] \in Threads \ {c}
      BY <1>1 DEF RequestsAreOwned
    <2>1. owner[i] \in Threads \ {c} /\ i \in Levels
      BY <1>4 DEF IInv, Asking, RequestsAreOwned, Shape, CoreOK
    <2> QED BY SMT, <1>1, <1>2, <2>1
  <1>18. EverybodyAsked'
    BY <1>1, <1>9 DEF IInv, Asking, EverybodyAsked
  <1>19. StoppedWorld'
    <2>1. \A u \in Threads : Stopping(u)' =>
            Stopping(u) /\ StoppedUpTo(u)' = StoppedUpTo(u)
      BY <1>1, <1>3, <1>5 DEF Stopping, StoppedUpTo, OwnsOperation
    <2> QED BY SMT, <1>1, <1>9, <2>1 DEF IInv, Asking, StoppedWorld, IsAtSafepoint
  <1>20. StillHeld'
    BY <1>1, <1>4 DEF StillHeld
  <1> QED BY <1>6, <1>7, <1>10, <1>11, <1>12, <1>13, <1>14, <1>15, <1>16, <1>17,
             <1>18, <1>19, <1>20 DEF IInv, Shape, Ownership, Asking

-----------------------------------------------------------------------------
(* Ending an operation.                                                    *)

(* What is left of the scopes when the innermost is closed.                *)
LEMMA FrontFacts ==
  ASSUME NEW S, NEW s \in Seq(S), s # <<>>
  PROVE  LET f == SubSeq(s, 1, Len(s) - 1)
         IN  /\ f \in Seq(S) /\ Len(f) = Len(s) - 1 /\ Len(s) \in Nat \ {0}
             /\ \A k \in 1 .. Len(s) - 1 : f[k] = s[k]
             /\ Len(s) = 1 => f = <<>>
             /\ Len(s) > 1 => f # <<>>
  <1> DEFINE n == Len(s) - 1
             f == SubSeq(s, 1, n)
  <1>1. Len(s) \in Nat \ {0} /\ \A k \in 1 .. Len(s) : s[k] \in S
    BY SMT, EmptySeq
  <1>2. n \in Int /\ 1 \in Int /\ \A k \in 1 .. n : s[k] \in S
    BY SMT, <1>1
  <1>3. /\ f \in Seq(S) /\ Len(f) = IF 1 <= n THEN n - 1 + 1 ELSE 0
        /\ \A k \in 1 .. n - 1 + 1 : f[k] = s[1 + k - 1]
    <2> HIDE DEF n
    <2> QED BY SMT, <1>2, SubSeqProperties
  <1>4. Len(f) = n /\ \A k \in 1 .. n : f[k] = s[k]
    <2>1. n \in Nat
      BY SMT, <1>1
    <2>2. \A k \in 1 .. n : 1 + k - 1 = k /\ k \in 1 .. n - 1 + 1
      BY SMT, <2>1
    <2> HIDE DEF n, f
    <2> QED BY SMT, <1>3, <2>1, <2>2
  <1>5. Len(s) = 1 => f = <<>>
    BY SMT, <1>1
  <1>6. Len(s) > 1 => f # <<>>
    <2>1. Len(s) > 1 => n # 0
      BY SMT, <1>1
    <2> HIDE DEF n, f
    <2> QED BY <1>4, <2>1, EmptySeq
  <1> QED BY <1>1, <1>3, <1>4, <1>5, <1>6

(* A scope is nested exactly if it is not the only one of its thread.      *)
LEMMA NestedMeansTwo ==
  ASSUME IInv, NEW t \in Threads, OwnsOperation(t)
  PROVE  /\ Innermost(t) \in Levels /\ Innermost(t) <= scopes[t][1]
         /\ Len(scopes[t]) \in Nat \ {0}
         /\ IsNested(Innermost(t)) <=> Len(scopes[t]) > 1
  <1> DEFINE n == Len(scopes[t])
             l == Innermost(t)
  <1>1. scopes[t] \in Seq(Levels) /\ scopes[t] # <<>>
    BY DEF IInv, Shape, CoreOK, OwnsOperation
  <1>2. n \in Nat \ {0} /\ l \in Levels /\ l = scopes[t][n]
    BY SMT, <1>1 DEF Innermost
  <1>3. l <= scopes[t][1] /\ scopes[t][1] \in Levels
    BY SMT, <1>1, <1>2 DEF IInv, Ownership, ScopesRight
  <1>4. operations[l] = Cardinality(Covering(t, l))
    BY <1>2, <1>3 DEF IInv, Ownership, CountsRight
  <1>5. IsFiniteSet(Covering(t, l)) /\ n \in Covering(t, l) /\ 1 \in Covering(t, l)
    <2>1. n \in Covering(t, l) /\ 1 \in Covering(t, l)
      BY SMT, <1>2, <1>3 DEF Covering
    <2> QED BY <1>2, <2>1, CoveringFinite
  <1>6. CASE n = 1
    <2>1. Covering(t, l) = {1}
      BY SMT, <1>5, <1>6 DEF Covering
    <2>2. operations[l] = 1
      BY <1>4, <2>1, FS_Singleton
    <2> QED BY <1>2, <1>3, <1>6, <2>2 DEF IsNested
  <1>7. CASE n > 1
    <2>1. n \in Covering(t, l) \ {1}
      BY SMT, <1>2, <1>5, <1>7
    <2>2. /\ IsFiniteSet(Covering(t, l) \ {1})
          /\ Cardinality(Covering(t, l) \ {1}) = Cardinality(Covering(t, l)) - 1
      BY <1>5, CardRemove
    <2>3. Cardinality(Covering(t, l) \ {1}) \in Nat \ {0}
      BY <2>1, <2>2, CardRemove
    <2>4. Cardinality(Covering(t, l)) \in Nat
      BY <1>5, FS_CardinalityType
    <2> QED BY SMT, <1>2, <1>3, <1>4, <1>7, <2>2, <2>3, <2>4 DEF IsNested
  <1> HIDE DEF n, l
  <1>8. n = 1 \/ n > 1
    BY SMT, <1>2
  <1> QED BY <1>6, <1>7, <1>8 DEF n, l

(* A nested scope closes: the threads stay where they are.                 *)
LEMMA NestedResumeStep ==
  ASSUME IInv, NEW t \in Threads, ResumeThreads(t), IsNested(Innermost(t))
  PROVE  IInv'
  <1> DEFINE n == Len(scopes[t])
             l == Innermost(t)
  <1>1. /\ UNCHANGED <<pc, at, requested, level, owner, not_parked, threads_lock,
                       todo>>
        /\ pc[t] = "running" /\ OwnsOperation(t)
        /\ scopes' = [scopes EXCEPT ![t] = SubSeq(@, 1, Len(@) - 1)]
        /\ operations' = [i \in Levels |->
             IF i <= l THEN operations[i] - 1 ELSE operations[i]]
        /\ scopes \in [Threads -> Seq(Levels)] /\ operations \in [Levels -> Nat]
    BY SMT DEF IInv, Shape, CoreOK, Ownership, CountsNat, ResumeThreads, NestedLevels
  <1>2. /\ l \in Levels /\ l <= scopes[t][1] /\ n \in Nat /\ n > 1
        /\ l = scopes[t][n] /\ scopes[t] \in Seq(Levels) /\ scopes[t] # <<>>
    BY <1>1, NestedMeansTwo DEF Innermost, OwnsOperation
  <1>3. /\ scopes'[t] \in Seq(Levels) /\ Len(scopes'[t]) = n - 1
        /\ scopes'[t] # <<>> /\ scopes'[t][1] = scopes[t][1]
        /\ scopes[t][1] \in Levels
        /\ \A k \in 1 .. n - 1 : scopes'[t][k] = scopes[t][k]
    <2>1. scopes'[t] = SubSeq(scopes[t], 1, n - 1)
      BY <1>1
    <2>2. /\ scopes'[t] \in Seq(Levels) /\ Len(scopes'[t]) = n - 1
          /\ scopes'[t] # <<>> /\ \A k \in 1 .. n - 1 : scopes'[t][k] = scopes[t][k]
      BY <1>2, <2>1, FrontFacts
    <2> QED BY SMT, <1>2, <2>2
  <1>4. \A u \in Threads : u # t => scopes'[u] = scopes[u]
    BY <1>1
  <1>5. \A u \in Threads : /\ OwnsOperation(u)' <=> OwnsOperation(u)
                           /\ OwnsOperation(u) => scopes'[u][1] = scopes[u][1]
    BY <1>1, <1>3, <1>4 DEF OwnsOperation
  <1>6. ASSUME NEW i \in 0 .. l
        PROVE  /\ Cardinality(Covering(t, i)') = Cardinality(Covering(t, i)) - 1
               /\ operations'[i] = operations[i] - 1
               /\ operations[i] = Cardinality(Covering(t, i))
               /\ Cardinality(Covering(t, i)) \in Nat \ {0}
    <2>1. i \in Levels /\ i <= scopes[t][1]
      BY SMT, <1>2, <1>3
    <2>2. operations[i] = Cardinality(Covering(t, i))
      BY <1>1, <2>1 DEF IInv, Ownership, CountsRight
    <2>3. n \in Covering(t, i) /\ Covering(t, i)' = Covering(t, i) \ {n}
      <3>1. n \in 1 .. Len(scopes[t]) /\ scopes[t][n] >= i
        BY SMT, <1>2, <2>1
      <3>2. 1 .. Len(scopes'[t]) = (1 .. Len(scopes[t])) \ {n}
        BY SMT, <1>2, <1>3
      <3>3. \A k \in 1 .. Len(scopes'[t]) : scopes'[t][k] = scopes[t][k]
        BY <1>3
      <3> HIDE DEF n, l
      <3> QED BY SMT, <3>1, <3>2, <3>3 DEF Covering
    <2>4. IsFiniteSet(Covering(t, i))
      BY <2>1, CoveringFinite
    <2>5. /\ Cardinality(Covering(t, i)') = Cardinality(Covering(t, i)) - 1
          /\ Cardinality(Covering(t, i)) \in Nat \ {0}
      BY <2>3, <2>4, CardRemove
    <2> QED BY SMT, <1>1, <2>1, <2>2, <2>5
  <1>7. operations' \in [Levels -> Nat]
    <2>1. ASSUME NEW i \in Levels PROVE operations'[i] \in Nat
      <3>1. CASE i <= l
        <4>1. i \in 0 .. l
          BY SMT, <1>2, <3>1
        <4> HIDE DEF l
        <4> QED BY SMT, <1>6, <4>1
      <3>2. CASE ~(i <= l)
        BY <1>1, <3>2
      <3> QED BY <3>1, <3>2
    <2> QED BY <1>1, <2>1
  <1>8. CoreOK'
    <2>1. scopes' \in [Threads -> Seq(Levels)]
      BY <1>1, <1>3, <1>4
    <2> QED BY SMT, <1>1, <1>7, <2>1 DEF IInv, Shape, CoreOK
  <1>9. BitsPlaced' /\ LockHeld'
    BY <1>1 DEF IInv, Shape, BitsPlaced, Outside, LockHeld, Others, Active
  <1>10. t \notin Bypass
    BY <1>1 DEF IInv, Shape, Untouched, OwnsOperation
  <1>11. Untouched'
    BY <1>1, <1>4, <1>10, SafepointAssumption DEF IInv, Shape, Untouched, Active
  <1>12. OwnersRight'
    <2>1. \A u \in Threads : Kept(u)
      BY <1>1, <1>5 DEF Kept, Starting, OwnsOperation
    <2> QED BY <1>1, <1>5, <2>1, OwnersStay
  <1>13. ScopesRight'
    <2> SUFFICES ASSUME NEW u \in Threads
                 PROVE  /\ OwnsOperation(u)' =>
                             /\ pc[u]' \in {"running", "parked", "exit_wait", "sp_exit"}
                             /\ \/ pc[u]' = "running" \/ level[u]' = scopes[u][1]'
                                \/ scopes[u][1]' = 2
                             /\ \A k \in 1 .. Len(scopes'[u]) :
                                  scopes'[u][k] <= scopes'[u][1]
                        /\ pc[u]' = "sp_exit" => OwnsOperation(u)'
      BY DEF ScopesRight
    <2>1. CASE u = t
      <3>1. /\ OwnsOperation(t) /\ pc' = pc /\ level' = level
            /\ pc[t] \in {"running", "parked", "exit_wait", "sp_exit"}
            /\ pc[t] = "running" \/ level[t] = scopes[t][1] \/ scopes[t][1] = 2
            /\ \A k \in 1 .. Len(scopes[t]) : scopes[t][k] <= scopes[t][1]
        BY <1>1 DEF IInv, Ownership, ScopesRight
      <3>2. \A k \in 1 .. Len(scopes'[t]) : scopes'[t][k] <= scopes'[t][1]
        <4>1. \A k \in 1 .. n - 1 : k \in 1 .. n
          BY SMT, <1>2
        <4> QED BY <1>3, <3>1, <4>1
      <3> QED BY <1>3, <1>5, <2>1, <3>1, <3>2
    <2>2. CASE u # t
      BY <1>1, <1>4, <1>5, <2>2 DEF IInv, Ownership, ScopesRight
    <2> QED BY <2>1, <2>2
  <1>14. CountsNat' /\ StartsAtOne'
    <2>1. ASSUME NEW u \in Threads, Starting(u)' PROVE operations'[level'[u]] = 1
      <3>1. Starting(u) /\ level'[u] = level[u] /\ level[u] \in Levels
        BY <1>1, <2>1 DEF Starting, IInv, Shape, CoreOK
      <3>2. owner[level[u]] = u /\ u # t
        BY <1>1, <3>1, OwnedLevels DEF Starting
      <3>3. scopes[t][1] < level[u]
        <4>1. OwnsOperation(t)
          BY <1>1
        <4>2. ~(level[u] <= scopes[t][1])
          BY <3>1, <3>2, <4>1, OwnedLevels
        <4> QED BY SMT, <1>3, <3>1, <4>2
      <3>4. operations[level[u]] = 1
        BY <3>1 DEF IInv, Ownership, StartsAtOne
      <3>5. ~(level[u] <= l)
        BY SMT, <1>2, <1>3, <3>1, <3>3
      <3> HIDE DEF l
      <3>6. operations'[level[u]] = operations[level[u]]
        BY <1>1, <3>1, <3>5
      <3> QED BY <3>1, <3>4, <3>6
    <2> QED BY <1>7, <2>1 DEF CountsNat, StartsAtOne
  <1>15. CountsRight'
    <2> SUFFICES ASSUME NEW u \in Threads, NEW i \in Levels, OwnsOperation(u)',
                        i <= scopes'[u][1]
                 PROVE  operations'[i] = Cardinality(Covering(u, i)')
      BY DEF CountsRight
    <2>1. OwnsOperation(u) /\ i <= scopes[u][1]
      BY <1>5
    <2>2. operations[i] = Cardinality(Covering(u, i))
      BY <2>1 DEF IInv, Ownership, CountsRight
    <2>3. CASE u # t
      <3>1. owner[i] = u
        BY <2>1 DEF IInv, Ownership, OwnersRight, OwnerIs
      <3>2. scopes[t][1] < i
        <4>1. OwnsOperation(t)
          BY <1>1
        <4>2. ~(i <= scopes[t][1])
          BY <2>3, <3>1, <4>1, OwnedLevels
        <4> QED BY SMT, <1>3, <4>2
      <3>3. operations'[i] = operations[i]
        <4>1. ~(i <= l)
          BY SMT, <1>2, <1>3, <3>2
        <4> HIDE DEF l
        <4> QED BY <1>1, <4>1
      <3>4. Covering(u, i)' = Covering(u, i)
        BY <1>4, <2>3 DEF Covering
      <3> QED BY <2>2, <3>3, <3>4
    <2>4. CASE u = t /\ i <= l
      BY SMT, <1>6, <2>4
    <2>5. CASE u = t /\ ~(i <= l)
      <3>1. Covering(t, i)' = Covering(t, i)
        BY SMTT(20), <1>2, <1>3, <2>5 DEF Covering
      <3> QED BY <1>1, <2>2, <2>5, <3>1
    <2> QED BY <2>3, <2>4, <2>5
  <1>16. NotParkedExact' /\ RequestsAreOwned' /\ EverybodyAsked' /\ StillHeld'
    <2>1. NotParkedExact'
      <3>1. at' = at /\ requested' = requested /\ not_parked' = not_parked /\ NotParkedExact
        BY <1>1 DEF IInv, Asking
      <3> QED BY <3>1 DEF NotParkedExact, IsAtSafepoint
    <2>2. RequestsAreOwned'
      BY SMTT(20), <1>1 DEF IInv, Asking, RequestsAreOwned
    <2>3. EverybodyAsked'
      BY SMTT(20), <1>1 DEF IInv, Asking, EverybodyAsked, Others, Active
    <2>4. StillHeld'
      BY SMT, <1>1 DEF IInv, Asking, StillHeld, IsAtSafepoint
    <2> QED BY <2>1, <2>2, <2>3, <2>4
  <1>17. StoppedWorld'
    BY <1>1, <1>5 DEF IInv, Asking, StoppedWorld, Stopping, StoppedUpTo,
                      IsAtSafepoint, Others, Active
  <1> QED BY <1>8, <1>9, <1>11, <1>12, <1>13, <1>14, <1>15, <1>16, <1>17
          DEF IInv, Shape, Ownership, Asking

(* The outermost scope closes: the levels are free again.                  *)
LEMMA LastResumeStep ==
  ASSUME IInv, NEW t \in Threads, ResumeThreads(t), ~IsNested(Innermost(t))
  PROVE  IInv'
  <1> DEFINE l == Innermost(t)
  <1>1. /\ pc[t] = "running" /\ OwnsOperation(t) /\ threads_lock = Nobody
        /\ scopes' = [scopes EXCEPT ![t] = SubSeq(@, 1, Len(@) - 1)]
        /\ operations' = [i \in Levels |-> IF i <= l THEN 0 ELSE operations[i]]
        /\ owner' = [i \in Levels |-> IF i <= l THEN Nobody ELSE owner[i]]
        /\ pc' = [pc EXCEPT ![t] = "continue"]
        /\ level' = [level EXCEPT ![t] = l]
        /\ threads_lock' = t /\ todo' = Others(t)
        /\ UNCHANGED <<at, requested, not_parked>>
        /\ scopes \in [Threads -> Seq(Levels)] /\ operations \in [Levels -> Nat]
        /\ pc \in [Threads -> PCs] /\ level \in [Threads -> Levels]
        /\ requested \in [Threads -> SUBSET Levels]
        /\ owner \in [Levels -> Threads \cup {Nobody}] /\ Nobody \notin Threads
    BY SafepointAssumption
       DEF IInv, Shape, CoreOK, Ownership, CountsNat, ResumeThreads
  <1>2. l \in Levels /\ Len(scopes[t]) = 1 /\ l = scopes[t][1]
    <2> DEFINE n == Len(scopes[t])
    <2>1. Innermost(t) \in Levels /\ n \in Nat \ {0} /\ ~(n > 1)
      BY <1>1, NestedMeansTwo
    <2> HIDE DEF n
    <2>2. n = 1
      BY SMT, <2>1
    <2> QED BY <2>1, <2>2 DEF n, Innermost
  <1>3. scopes'[t] = <<>> /\ \A u \in Threads \ {t} : scopes'[u] = scopes[u]
    <2>1. scopes'[t] = SubSeq(scopes[t], 1, Len(scopes[t]) - 1)
      BY <1>1
    <2>2. scopes[t] \in Seq(Levels) /\ scopes[t] # <<>>
      BY <1>1 DEF OwnsOperation
    <2> QED BY <1>1, <1>2, <2>1, <2>2, FrontFacts
  <1> HIDE DEF l
  <1>4. \A u \in Threads : pc[u] \notin {"notify", "continue", "freeing"}
    BY <1>1 DEF IInv, Shape, LockHeld
  <1>5. Active' = Active
    BY <1>1 DEF Active
  <1>6. \A u : Others(u)' = Others(u)
    BY <1>5 DEF Others
  <1>7. CoreOK'
    <2>1. scopes' \in [Threads -> Seq(Levels)]
      BY SMT, <1>1, <1>3, EmptySeq
    <2>2. pc' \in [Threads -> PCs]
      BY <1>1 DEF PCs
    <2>3. todo' \subseteq Threads
      BY <1>1 DEF Others, Active
    <2>4. CoreOK
      BY DEF IInv, Shape
    <2>5. operations' \in [Levels -> Int]
      BY SMT, <1>1
    <2>6. level' \in [Threads -> Levels] /\ owner' \in [Levels -> Threads \cup {Nobody}]
      BY <1>1, <1>2
    <2> QED BY <1>1, <2>1, <2>2, <2>3, <2>4, <2>5, <2>6 DEF CoreOK
  <1>8. BitsPlaced'
    BY <1>1 DEF IInv, Shape, BitsPlaced, Outside
  <1>9. t \notin Bypass
    BY <1>1 DEF IInv, Shape, Untouched, OwnsOperation
  <1>10. Untouched'
    BY <1>1, <1>3, <1>5, <1>9, SafepointAssumption DEF IInv, Shape, Untouched
  <1>11. LockHeld'
    BY <1>1, <1>4, <1>6 DEF LockHeld
  <1>12. \A i \in Levels : owner[i] = t <=> i <= l
    BY <1>1, <1>2 DEF IInv, Ownership, OwnersRight, OwnerIs, Starting
  <1>13. OwnersRight'
    <2> SUFFICES ASSUME NEW u \in Threads
                 PROVE  /\ \A i \in Levels : owner'[i] = u <=> OwnerIs(u, i)'
                        /\ pc'[u] = "continue" =>
                             \A i \in 0 .. level'[u] : owner'[i] = Nobody
      BY DEF OwnersRight
    <2>1. \A i \in Levels : owner[i] = u <=> OwnerIs(u, i)
      BY DEF IInv, Ownership, OwnersRight
    <2>2. CASE u = t
      <3>1. \A i \in Levels : ~OwnerIs(t, i)'
        BY <1>1, <1>3 DEF OwnerIs, Starting, OwnsOperation
      <3> QED BY SMT, <1>1, <1>2, <1>12, <2>2, <3>1
    <2>3. CASE u # t
      <3>1. \A i \in Levels : OwnerIs(u, i)' <=> OwnerIs(u, i)
        BY <1>1, <1>3, <2>3 DEF OwnerIs, Starting, OwnsOperation
      <3> QED BY SMT, <1>1, <1>4, <1>12, <2>1, <2>3, <3>1
    <2> QED BY <2>2, <2>3
  <1>14. ScopesRight'
    BY <1>1, <1>3 DEF IInv, Ownership, ScopesRight, OwnsOperation
  <1>15. CountsNat' /\ StartsAtOne'
    <2>1. ASSUME NEW u \in Threads, Starting(u)' PROVE operations'[level'[u]] = 1
      <3>1. Starting(u) /\ level'[u] = level[u] /\ level[u] \in Levels /\ u # t
        BY <1>1, <2>1 DEF Starting
      <3>2. owner[level[u]] = u
        BY <3>1 DEF IInv, Ownership, OwnersRight, OwnerIs
      <3> QED BY <1>1, <1>12, <3>1, <3>2 DEF IInv, Ownership, StartsAtOne
    <2> QED BY <1>1, <2>1 DEF CountsNat, StartsAtOne
  <1>16. CountsRight'
    <2> SUFFICES ASSUME NEW u \in Threads, NEW i \in Levels, OwnsOperation(u)',
                        i <= scopes'[u][1]
                 PROVE  operations'[i] = Cardinality(Covering(u, i)')
      BY DEF CountsRight
    <2>1. u # t
      BY <1>3 DEF OwnsOperation
    <2>2. Covering(u, i)' = Covering(u, i) /\ OwnsOperation(u) /\ i <= scopes[u][1]
      BY <1>3, <2>1 DEF Covering, OwnsOperation
    <2>3. owner[i] = u
      BY <2>2 DEF IInv, Ownership, OwnersRight, OwnerIs
    <2>4. operations'[i] = operations[i]
      BY <1>1, <1>12, <2>1, <2>3
    <2> QED BY <2>2, <2>4 DEF IInv, Ownership, CountsRight
  <1>17. NotParkedExact'
    <2>1. at' = at /\ requested' = requested /\ not_parked' = not_parked /\ NotParkedExact
      BY <1>1 DEF IInv, Asking
    <2> QED BY <2>1 DEF NotParkedExact, IsAtSafepoint
  <1>18. RequestsAreOwned'
    <2> SUFFICES ASSUME NEW c \in Threads, NEW i \in requested[c]
                 PROVE  \/ owner'[i] \in Threads \ {c}
                        \/ pc'[t] = "continue" /\ i <= level'[t] /\ c \in todo'
      BY <1>1 DEF RequestsAreOwned
    <2>1. owner[i] \in Threads \ {c} /\ i \in Levels
      BY <1>1, <1>4 DEF IInv, Asking, RequestsAreOwned
    <2>2. CASE i <= l
      <3>1. c # t
        BY <1>12, <2>1, <2>2
      <3>2. c \in Active /\ c \notin Bypass
        BY DEF IInv, Shape, Untouched
      <3> QED BY <1>1, <2>2, <3>1, <3>2 DEF Others
    <2>3. CASE ~(i <= l)
      BY <1>1, <2>1, <2>3
    <2> QED BY <2>2, <2>3
  <1>19. EverybodyAsked'
    BY <1>1, <1>4, <1>6 DEF IInv, Asking, EverybodyAsked
  <1>20. StoppedWorld'
    <2>1. \A u \in Threads : Stopping(u)' =>
            Stopping(u) /\ StoppedUpTo(u)' = StoppedUpTo(u)
      BY <1>1, <1>3 DEF Stopping, StoppedUpTo, OwnsOperation
    <2>2. StoppedWorld /\ at' = at /\ requested' = requested
      BY <1>1 DEF IInv, Asking
    <2>3. ASSUME NEW u \in Threads, Stopping(u)', NEW c \in Others(u)'
          PROVE  IsAtSafepoint(c, StoppedUpTo(u))' /\ (StoppedUpTo(u) \in requested[c])'
      <3>1. Stopping(u) /\ StoppedUpTo(u)' = StoppedUpTo(u) /\ c \in Others(u)
        BY <1>6, <2>1, <2>3
      <3>2. IsAtSafepoint(c, StoppedUpTo(u)) /\ StoppedUpTo(u) \in requested[c]
        BY <2>2, <3>1 DEF StoppedWorld
      <3> QED BY <2>2, <3>1, <3>2 DEF IsAtSafepoint
    <2> QED BY <2>3 DEF StoppedWorld
  <1>21. StillHeld'
    <2>1. Stopping(t) /\ StoppedUpTo(t) = l
      BY <1>1, <1>2 DEF Stopping, StoppedUpTo
    <2>2. \A c \in Others(t) : l \in requested[c] /\ IsAtSafepoint(c, l)
      BY <2>1 DEF IInv, Asking, StoppedWorld
    <2> QED BY <1>1, <1>4, <2>2 DEF StillHeld, IsAtSafepoint
  <1> QED BY <1>7, <1>8, <1>10, <1>11, <1>13, <1>14, <1>15, <1>16, <1>17, <1>18,
             <1>19, <1>20, <1>21 DEF IInv, Shape, Ownership, Asking

LEMMA ResumeThreadsStep ==
  ASSUME IInv, NEW t \in Threads, ResumeThreads(t)
  PROVE  IInv'
  BY NestedResumeStep, LastResumeStep

(* One thread is told to go on.                                            *)
LEMMA ContinueThreadStep ==
  ASSUME IInv, NEW t \in Threads, NEW c \in todo, ContinueThread(t, c)
  PROVE  IInv'
  <1>1. /\ pc[t] = "continue" /\ level[t] \in Levels /\ c \in Threads
        /\ UNCHANGED <<pc, at, level, scopes, owner, operations, not_parked,
                       threads_lock>>
        /\ todo' = todo \ {c}
        /\ requested' = [requested EXCEPT ![c] = @ \ (0 .. level[t])]
        /\ requested \in [Threads -> SUBSET Levels]
        /\ at \in [Threads -> SUBSET Levels]
    BY DEF IInv, Shape, CoreOK, ContinueThread, ClearedLevels
  <1>2. \A l \in 0 .. level[t] : owner[l] = Nobody
    BY <1>1 DEF IInv, Ownership, OwnersRight
  <1>3. \A u \in Threads \ {t} : pc[u] \notin {"notify", "continue", "freeing"}
    BY <1>1 DEF IInv, Shape, LockHeld
  <1>4. CoreOK'
    BY <1>1 DEF IInv, Shape, CoreOK
  <1>5. BitsPlaced'
    BY <1>1 DEF IInv, Shape, BitsPlaced, Outside
  <1>6. Active' = Active
    BY <1>1 DEF Active
  <1>7. \A u : Others(u)' = Others(u)
    BY <1>6 DEF Others
  <1>8. Untouched'
    BY <1>1, <1>6, SafepointAssumption DEF IInv, Shape, Untouched
  <1>9. LockHeld'
    BY <1>1, <1>7 DEF IInv, Shape, LockHeld
  <1>10. OwnersRight'
    <2>1. \A u \in Threads : Kept(u)
      BY <1>1 DEF Kept, Starting, OwnsOperation
    <2> QED BY <1>1, <2>1, OwnersStay
  <1>11. ScopesRight'
    BY <1>1 DEF IInv, Ownership, ScopesRight, OwnsOperation
  <1>12. CountsRight' /\ CountsNat' /\ StartsAtOne'
    <2>1. \A u \in Threads : Starting(u)' => Starting(u) /\ level'[u] = level[u]
      BY <1>1 DEF Starting
    <2> QED BY <1>1, <2>1, CountsStay
  (* A level that somebody owns is not cleared.                            *)
  <1>13. ASSUME NEW u \in Threads, NEW l \in Levels, owner[l] = u
         PROVE  ~(l \in 0 .. level[t])
    <2>1. Nobody \notin Threads
      BY SafepointAssumption
    <2> QED BY <1>2, <1>13, <2>1
  <1>14. ASSUME NEW u \in Threads, NEW l \in Levels, owner[l] = u, NEW d \in Threads,
                l \in requested[d]
         PROVE  l \in requested'[d]
    <2>1. ~(l \in 0 .. level[t])
      BY <1>13, <1>14
    <2> QED BY <1>1, <1>14, <2>1
  <1>15. NotParkedExact'
    <2>1. 0 .. level[t] \subseteq at[c]
      BY <1>1 DEF IInv, Asking, StillHeld, IsAtSafepoint
    <2>2. ASSUME NEW i \in Levels PROVE Missing(i)' = Missing(i)
      BY SMT, <1>1, <2>1 DEF Missing, IsAtSafepoint
    <2> QED BY <1>1, <2>2 DEF IInv, Asking, NotParkedExact, Missing
  <1>16. RequestsAreOwned'
    <2> SUFFICES ASSUME NEW d \in Threads, NEW i \in requested'[d]
                 PROVE  \/ owner[i] \in Threads \ {d}
                        \/ i <= level[t] /\ d \in todo'
      BY <1>1 DEF RequestsAreOwned
    <2>1. i \in requested[d] /\ i \in Levels /\ (d = c => ~(i <= level[t]))
      BY SMT, <1>1
    <2>2. owner[i] \in Threads \ {d} \/ (i <= level[t] /\ d \in todo)
      BY <1>3, <2>1 DEF IInv, Asking, RequestsAreOwned
    <2> QED BY <1>1, <2>1, <2>2
  <1>17. EverybodyAsked'
    <2>1. \A u \in Threads : pc'[u] # "notify"
      BY <1>1, <1>3
    <2>2. ASSUME NEW u \in Threads, pc'[u] \in {"send", "waiting"},
                 NEW d \in Others(u)'
          PROVE  level'[u] \in requested'[d]
      <3>1. pc[u] \in {"send", "waiting"} /\ d \in Others(u) /\ level'[u] = level[u]
        BY <1>1, <1>7, <2>2
      <3>2. level[u] \in Levels /\ owner[level[u]] = u
        BY <3>1 DEF IInv, Shape, CoreOK, Ownership, OwnersRight, OwnerIs, Starting
      <3>3. level[u] \in requested[d] /\ d \in Threads
        BY <3>1 DEF IInv, Asking, EverybodyAsked, Others, Active
      <3> QED BY <1>14, <3>1, <3>2, <3>3
    <2> QED BY <2>1, <2>2 DEF EverybodyAsked
  <1>18. StoppedWorld'
    <2> SUFFICES ASSUME NEW u \in Threads, Stopping(u)', NEW d \in Others(u)'
                 PROVE  /\ IsAtSafepoint(d, StoppedUpTo(u))'
                        /\ StoppedUpTo(u)' \in requested[d]'
      BY DEF StoppedWorld
    <2>1. /\ Stopping(u) /\ d \in Others(u) /\ d \in Threads
          /\ StoppedUpTo(u)' = StoppedUpTo(u)
      BY <1>1, <1>7 DEF Stopping, StoppedUpTo, OwnsOperation, Others, Active
    <2>2. IsAtSafepoint(d, StoppedUpTo(u)) /\ StoppedUpTo(u) \in requested[d]
      BY <2>1 DEF IInv, Asking, StoppedWorld
    <2>3. StoppedUpTo(u) \in Levels /\ owner[StoppedUpTo(u)] = u
      BY <2>1, StoppedLevel, StoppedIsOwned
    <2> QED BY <1>1, <1>14, <2>1, <2>2, <2>3 DEF IsAtSafepoint
  <1>19. StillHeld'
    <2>1. \A d \in todo' : requested'[d] = requested[d]
      BY <1>1 DEF IInv, Shape, CoreOK
    <2> QED BY <1>1, <2>1 DEF IInv, Asking, StillHeld, IsAtSafepoint
  <1> QED BY <1>4, <1>5, <1>8, <1>9, <1>10, <1>11, <1>12, <1>15, <1>16, <1>17,
             <1>18, <1>19 DEF IInv, Shape, Ownership, Asking

LEMMA ContinueDoneStep ==
  ASSUME IInv, NEW t \in Threads, ContinueDone(t)
  PROVE  IInv'
  <1>1. /\ pc[t] = "continue" /\ todo = {} /\ threads_lock' = Nobody
        /\ pc' = [pc EXCEPT ![t] = "running"]
        /\ UNCHANGED <<at, requested, level, scopes, owner, operations,
                       not_parked, todo>>
        /\ pc \in [Threads -> PCs] /\ Nobody \notin Threads
    BY SafepointAssumption DEF IInv, Shape, CoreOK, ContinueDone
  <1>2. \A u \in Threads \ {t} : pc[u] \notin {"notify", "continue", "freeing"}
    BY <1>1 DEF IInv, Shape, LockHeld
  <1>3. CoreOK'
    BY <1>1 DEF IInv, Shape, CoreOK, PCs
  <1>4. BitsPlaced'
    BY <1>1 DEF IInv, Shape, BitsPlaced, Outside
  <1>5. Active' = Active
    BY <1>1 DEF Active
  <1>6. \A u : Others(u)' = Others(u)
    BY <1>5 DEF Others
  <1>7. Untouched'
    BY <1>1, <1>5, SafepointAssumption DEF IInv, Shape, Untouched
  <1>8. LockHeld'
    BY <1>1, <1>2, <1>6 DEF LockHeld
  <1>9. OwnersRight'
    <2>1. \A u \in Threads : Kept(u)
      BY <1>1 DEF Kept, Starting, OwnsOperation
    <2> QED BY <1>1, <2>1, OwnersStay
  <1>10. ScopesRight'
    BY <1>1 DEF IInv, Ownership, ScopesRight, OwnsOperation
  <1>11. CountsRight' /\ CountsNat' /\ StartsAtOne'
    <2>1. \A u \in Threads : Starting(u)' => Starting(u) /\ level'[u] = level[u]
      BY <1>1 DEF Starting
    <2> QED BY <1>1, <2>1, CountsStay
  <1>12. NotParkedExact' /\ RequestsAreOwned'
    BY <1>1, <1>2 DEF IInv, Asking, NotParkedExact, IsAtSafepoint, RequestsAreOwned
  <1>13. EverybodyAsked' /\ StillHeld'
    BY <1>1, <1>2, <1>6 DEF IInv, Asking, EverybodyAsked, StillHeld
  <1>14. StoppedWorld'
    BY <1>1, <1>6 DEF IInv, Asking, StoppedWorld, Stopping, StoppedUpTo,
                      OwnsOperation, IsAtSafepoint
  <1> QED BY <1>3, <1>4, <1>7, <1>8, <1>9, <1>10, <1>11, <1>12, <1>13, <1>14
          DEF IInv, Shape, Ownership, Asking

-----------------------------------------------------------------------------
(* Joining and leaving the group.                                          *)

(* Who joins while nothing is in progress disturbs no operation.           *)
LEMMA AddActiveThreadStep ==
  ASSUME IInv, NEW t \in Threads, AddActiveThread(t)
  PROVE  IInv'
  <1>1. PICK x \in {"add_wait", "running"} :
          /\ pc' = [pc EXCEPT ![t] = x]
          /\ x = "running" => ~MustWaitToJoin(t)
          /\ x = "add_wait" => MustWaitToJoin(t)
    BY DEF AddActiveThread
  <1>2. /\ pc[t] \in {"free", "add_wait"} /\ threads_lock = Nobody
        /\ UNCHANGED <<at, requested, level, scopes, owner, operations,
                       not_parked, threads_lock, todo>>
        /\ pc \in [Threads -> PCs] /\ level \in [Threads -> Levels]
        /\ Nobody \notin Threads
    BY SafepointAssumption DEF IInv, Shape, CoreOK, AddActiveThread
  <1>3. \A u \in Threads : pc[u] \notin {"notify", "continue", "freeing"}
    BY <1>2 DEF IInv, Shape, LockHeld
  <1>4. \A u \in Threads : Others(u)' \subseteq Others(u) \cup {t}
    BY <1>1, <1>2 DEF Others, Active
  (* If t joined, no level is in progress, or t bypasses safepoints.       *)
  <1>5. ASSUME NEW u \in Threads, Starting(u) \/ OwnsOperation(u)
        PROVE  Others(u)' \subseteq Others(u)
    <2>1. PICK l \in Levels : owner[l] = u
      <3>1. CASE Starting(u)
        BY <1>2, <3>1 DEF IInv, Ownership, OwnersRight, OwnerIs
      <3>2. CASE OwnsOperation(u)
        <4>1. 0 \in Levels /\ 0 <= scopes[u][1]
          BY SMT, <3>2, CoveringFinite
        <4> QED BY <3>2, <4>1 DEF IInv, Ownership, OwnersRight, OwnerIs
      <3> QED BY <1>5, <3>1, <3>2
    <2>2. t \in Bypass \/ x = "add_wait"
      BY <1>1, <1>2, <2>1 DEF MustWaitToJoin, AnySafepointInProgressLocked
    <2> QED BY <1>1, <1>2, <2>2 DEF Others, Active
  <1>6. CoreOK'
    BY <1>1, <1>2 DEF IInv, Shape, CoreOK, PCs
  <1>7. BitsPlaced'
    BY <1>1, <1>2 DEF IInv, Shape, BitsPlaced, Outside
  <1>8. Untouched'
    <2>1. requested[t] = {}
      BY <1>2 DEF IInv, Shape, Untouched, Active
    <2>2. t \in Bypass => x = "running"
      BY <1>1 DEF MustWaitToJoin
    <2> QED BY <1>1, <1>2, <2>1, <2>2, SafepointAssumption
            DEF IInv, Shape, Untouched, Active
  <1>9. LockHeld'
    BY <1>1, <1>2, <1>3 DEF LockHeld
  <1>10. OwnersRight'
    <2>1. \A u \in Threads : Kept(u)
      BY <1>1, <1>2 DEF Kept, Starting, OwnsOperation
    <2> QED BY <1>1, <1>2, <2>1, OwnersStay
  <1>11. ScopesRight'
    BY <1>1, <1>2 DEF IInv, Ownership, ScopesRight, OwnsOperation
  <1>12. CountsRight' /\ CountsNat' /\ StartsAtOne'
    <2>1. \A u \in Threads : Starting(u)' => Starting(u) /\ level'[u] = level[u]
      BY <1>1, <1>2 DEF Starting
    <2> QED BY <1>2, <2>1, CountsStay
  <1>13. NotParkedExact' /\ RequestsAreOwned'
    BY <1>1, <1>2, <1>3 DEF IInv, Asking, NotParkedExact, IsAtSafepoint,
                            RequestsAreOwned
  <1>14. EverybodyAsked' /\ StillHeld'
    <2>1. \A u \in Threads : pc'[u] \notin {"notify", "continue"}
      BY <1>1, <1>2, <1>3
    <2>2. ASSUME NEW u \in Threads, pc'[u] \in {"send", "waiting"},
                 NEW d \in Others(u)'
          PROVE  level'[u] \in requested'[d]
      <3>1. pc[u] \in {"send", "waiting"} /\ d \in Others(u)
        BY <1>1, <1>2, <1>5, <2>2 DEF Starting
      <3> QED BY <1>2, <3>1 DEF IInv, Asking, EverybodyAsked
    <2> QED BY <2>1, <2>2 DEF EverybodyAsked, StillHeld
  <1>15. StoppedWorld'
    <2> SUFFICES ASSUME NEW u \in Threads, Stopping(u)', NEW d \in Others(u)'
                 PROVE  /\ IsAtSafepoint(d, StoppedUpTo(u))'
                        /\ StoppedUpTo(u)' \in requested[d]'
      BY DEF StoppedWorld
    <2>1. Stopping(u) /\ StoppedUpTo(u)' = StoppedUpTo(u)
      BY <1>1, <1>2 DEF Stopping, StoppedUpTo, OwnsOperation
    <2>2. d \in Others(u)
      BY <1>5, <2>1 DEF Stopping, Starting
    <2> QED BY <1>2, <2>1, <2>2 DEF IInv, Asking, StoppedWorld, IsAtSafepoint
  <1> QED BY <1>6, <1>7, <1>8, <1>9, <1>10, <1>11, <1>12, <1>13, <1>14, <1>15
          DEF IInv, Shape, Ownership, Asking

(* A thread that bypasses safepoints leaves: nobody was waiting for it.    *)
LEMMA FreeBypassStep ==
  ASSUME IInv, NEW t \in Threads, FreeActiveThread(t), t \in Bypass
  PROVE  IInv'
  <1>1. /\ pc[t] = "running" /\ pc' = [pc EXCEPT ![t] = "free"]
        /\ UNCHANGED <<at, requested, level, scopes, owner, operations,
                       not_parked, threads_lock, todo>>
        /\ pc \in [Threads -> PCs] /\ scopes[t] = <<>> /\ requested[t] = {}
    BY DEF IInv, Shape, CoreOK, Untouched, FreeActiveThread
  <1>2. \A u : Others(u)' = Others(u)
    BY <1>1 DEF Others, Active
  <1>3. CoreOK'
    BY <1>1 DEF IInv, Shape, CoreOK, PCs
  <1>4. BitsPlaced'
    BY <1>1 DEF IInv, Shape, BitsPlaced, Outside
  <1>5. Untouched'
    BY <1>1, SafepointAssumption DEF IInv, Shape, Untouched, Active
  <1>6. LockHeld'
    BY <1>1, <1>2 DEF IInv, Shape, LockHeld
  <1>7. OwnersRight'
    <2>1. \A u \in Threads : Kept(u)
      BY <1>1 DEF Kept, Starting, OwnsOperation
    <2> QED BY <1>1, <2>1, OwnersStay
  <1>8. ScopesRight'
    BY <1>1 DEF IInv, Ownership, ScopesRight, OwnsOperation
  <1>9. CountsRight' /\ CountsNat' /\ StartsAtOne'
    <2>1. \A u \in Threads : Starting(u)' => Starting(u) /\ level'[u] = level[u]
      BY <1>1 DEF Starting
    <2> QED BY <1>1, <2>1, CountsStay
  <1>10. NotParkedExact' /\ RequestsAreOwned'
    BY <1>1 DEF IInv, Asking, NotParkedExact, IsAtSafepoint, RequestsAreOwned
  <1>11. EverybodyAsked' /\ StillHeld'
    BY <1>1, <1>2 DEF IInv, Asking, EverybodyAsked, StillHeld, IsAtSafepoint
  <1>12. StoppedWorld'
    BY <1>1, <1>2 DEF IInv, Asking, StoppedWorld, Stopping, StoppedUpTo,
                      OwnsOperation, IsAtSafepoint
  <1> QED BY <1>3, <1>4, <1>5, <1>6, <1>7, <1>8, <1>9, <1>10, <1>11, <1>12
          DEF IInv, Shape, Ownership, Asking

(* Any other thread checks in at the reload level before it leaves.        *)
LEMMA FreeActiveThreadStep ==
  ASSUME IInv, NEW t \in Threads, FreeActiveThread(t)
  PROVE  IInv'
  <1>0. CASE t \in Bypass
    BY <1>0, FreeBypassStep
  <1> SUFFICES ASSUME t \notin Bypass PROVE IInv'
    BY <1>0
  <1> DEFINE l == LeaveLevel(t)
  <1>1. /\ Enters(t, l, "freeing") /\ "freeing" \in Entered
        /\ threads_lock = Nobody /\ threads_lock' = t
        /\ UNCHANGED <<owner, operations, todo>> /\ ~OwnsOperation(t)
        /\ limits[t] = <<>> /\ Nobody \notin Threads
    BY SafepointAssumption DEF FreeActiveThread, Enters, Entered
  <1>2. l = 2
    BY SMT, <1>1 DEF LeaveLevel, current_safepoint_level, CannotLazyDeopt,
                InNoReloadScope
  <1>3. l \in Levels
    BY SMT, <1>2
  <1> HIDE DEF l
  <1>4. /\ at' = [at EXCEPT ![t] = 0 .. l] /\ level' = [level EXCEPT ![t] = l]
        /\ pc' = [pc EXCEPT ![t] = "freeing"] /\ pc[t] = "running"
        /\ requested' = requested /\ scopes' = scopes
        /\ at \in [Threads -> SUBSET Levels] /\ pc \in [Threads -> PCs]
        /\ level \in [Threads -> Levels]
    BY <1>1, <1>3, EnterSetsBits DEF IInv, Shape, CoreOK, Enters
  <1>5. BitsPlaced' /\ Untouched' /\ StoppedWorld' /\ \A u : Others(u)' = Others(u)
    BY <1>1, <1>3, EnterKeepsPlaces
  <1>6. NotParkedExact' /\ not_parked' \in [Levels -> Int]
    BY <1>1, <1>3, EnterKeepsCount DEF IInv, Asking
  <1>7. CoreOK'
    <2>1. pc' \in [Threads -> PCs]
      BY <1>4 DEF PCs
    <2>2. at' \in [Threads -> SUBSET Levels] /\ level' \in [Threads -> Levels]
      BY SMT, <1>3, <1>4
    <2> QED BY <1>1, <1>4, <1>6, <2>1, <2>2 DEF IInv, Shape, CoreOK
  <1>8. \A u \in Threads : pc[u] \notin {"notify", "continue", "freeing"}
    BY <1>1 DEF IInv, Shape, LockHeld
  <1>9. LockHeld'
    BY <1>1, <1>2, <1>4, <1>8 DEF LockHeld
  <1>10. OwnersRight'
    <2>1. \A u \in Threads : Kept(u)
      BY <1>1, <1>4 DEF Kept, Starting, OwnsOperation
    <2> QED BY <1>1, <1>4, <2>1, OwnersStay
  <1>11. ScopesRight'
    BY <1>1, <1>4 DEF IInv, Ownership, ScopesRight, OwnsOperation
  <1>12. CountsRight' /\ CountsNat' /\ StartsAtOne'
    <2>1. \A u \in Threads : Starting(u)' => Starting(u) /\ level'[u] = level[u]
      BY <1>4 DEF Starting
    <2> QED BY <1>1, <1>4, <2>1, CountsStay
  <1>13. RequestsAreOwned'
    BY <1>1, <1>4, <1>8 DEF IInv, Asking, RequestsAreOwned
  <1>14. EverybodyAsked' /\ StillHeld'
    BY <1>4, <1>5, <1>8 DEF IInv, Asking, EverybodyAsked, StillHeld
  <1> QED BY <1>5, <1>6, <1>7, <1>9, <1>10, <1>11, <1>12, <1>13, <1>14
          DEF IInv, Shape, Ownership, Asking

LEMMA ReturnThreadLockedStep ==
  ASSUME IInv, NEW t \in Threads, ReturnThreadLocked(t)
  PROVE  IInv'
  <1>1. /\ pc[t] = "freeing" /\ pc' = [pc EXCEPT ![t] = "free"]
        /\ at' = [at EXCEPT ![t] = {}] /\ requested' = [requested EXCEPT ![t] = {}]
        /\ threads_lock' = Nobody
        /\ UNCHANGED <<level, scopes, owner, operations, not_parked, todo>>
        /\ pc \in [Threads -> PCs] /\ at \in [Threads -> SUBSET Levels]
        /\ requested \in [Threads -> SUBSET Levels] /\ Nobody \notin Threads
    BY SafepointAssumption DEF IInv, Shape, CoreOK, ReturnThreadLocked
  <1>2. at[t] = 0 .. 2 /\ threads_lock = t /\ ~OwnsOperation(t) /\ t \notin Bypass
    BY <1>1 DEF IInv, Shape, BitsPlaced, Outside, LockHeld, Untouched, Ownership,
                ScopesRight
  <1>3. \A u \in Threads \ {t} : pc[u] \notin {"notify", "continue", "freeing"}
    BY <1>1 DEF IInv, Shape, LockHeld
  <1>4. \A u \in Threads : Others(u)' = Others(u) \ {t}
    BY <1>1 DEF Others, Active
  <1>5. CoreOK'
    BY <1>1 DEF IInv, Shape, CoreOK, PCs
  <1>6. BitsPlaced'
    BY <1>1 DEF IInv, Shape, BitsPlaced, Outside
  <1>7. Untouched'
    BY <1>1, <1>2, SafepointAssumption DEF IInv, Shape, Untouched, Active
  <1>8. LockHeld'
    BY <1>1, <1>3 DEF LockHeld
  <1>9. OwnersRight'
    <2>1. \A u \in Threads : Kept(u)
      BY <1>1 DEF Kept, Starting, OwnsOperation
    <2> QED BY <1>1, <2>1, OwnersStay
  <1>10. ScopesRight'
    BY <1>1, <1>2 DEF IInv, Ownership, ScopesRight, OwnsOperation
  <1>11. CountsRight' /\ CountsNat' /\ StartsAtOne'
    <2>1. \A u \in Threads : Starting(u)' => Starting(u) /\ level'[u] = level[u]
      BY <1>1 DEF Starting
    <2> QED BY <1>1, <2>1, CountsStay
  <1>12. NotParkedExact'
    <2>1. ASSUME NEW i \in Levels PROVE Missing(i)' = Missing(i)
      BY SMT, <1>1, <1>2 DEF Missing, IsAtSafepoint
    <2> QED BY <1>1, <2>1 DEF IInv, Asking, NotParkedExact, Missing
  <1>13. RequestsAreOwned'
    BY <1>1, <1>3 DEF IInv, Asking, RequestsAreOwned
  <1>14. EverybodyAsked' /\ StillHeld'
    BY SMT, <1>1, <1>3, <1>4 DEF IInv, Asking, EverybodyAsked, StillHeld, Others, Active
  <1>15. StoppedWorld'
    BY <1>1, <1>4 DEF IInv, Asking, StoppedWorld, Stopping, StoppedUpTo,
                      OwnsOperation, IsAtSafepoint, Others, Active
  <1> QED BY <1>5, <1>6, <1>7, <1>8, <1>9, <1>10, <1>11, <1>12, <1>13, <1>14,
             <1>15 DEF IInv, Shape, Ownership, Asking

-----------------------------------------------------------------------------
(* Every action is one of the steps above.                                 *)

LEMMA TransitionToSafepointStep ==
  ASSUME IInv, NEW t \in Threads, TransitionToSafepoint(t) \/ ExitIsolate(t)
  PROVE  IInv'
  <1>1. PICK allow : EnterSafepoint(t, current_safepoint_level(t, allow))
    BY DEF TransitionToSafepoint, ExitIsolate
  <1> DEFINE l == current_safepoint_level(t, allow)
  <1>2. l \in Levels
    BY LevelIsLevel
  <1>3. Enters(t, l, "parked")
    BY <1>1, SafepointAssumption DEF TransitionToSafepoint, ExitIsolate, Enters
  <1>4. /\ OwnsOperation(t) => scopes[t][1] = 2
        /\ UNCHANGED <<owner, operations, threads_lock, todo>>
    BY BlockedOwnerReloads DEF TransitionToSafepoint, ExitIsolate
  <1> HIDE DEF l
  <1> QED BY <1>2, <1>3, <1>4, ParkStep

LEMMA CheckForSafepointStep ==
  ASSUME IInv, NEW t \in Threads, CheckForSafepoint(t) \/ HandleCheckForReload(t)
  PROVE  IInv'
  <1>1. CASE UNCHANGED <<pc, at, level, not_parked>> /\ HandleCheckForReload(t)
    BY <1>1, IdleStep DEF HandleCheckForReload, Core
  <1>2. CASE ~(UNCHANGED <<pc, at, level, not_parked>> /\ HandleCheckForReload(t))
    <2>1. PICK allow : BlockForSafepoint(t, current_safepoint_level(t, allow))
      BY <1>2 DEF CheckForSafepoint, HandleCheckForReload
    <2> DEFINE l == current_safepoint_level(t, allow)
    <2>2. l \in Levels
      BY LevelIsLevel
    <2>3. Enters(t, l, "exit_wait")
      BY <2>1, SafepointAssumption
         DEF CheckForSafepoint, HandleCheckForReload, Enters, EnterSafepoint,
             BlockForSafepoint
    <2>4. /\ OwnsOperation(t) => scopes[t][1] = 2
          /\ UNCHANGED <<owner, operations, threads_lock, todo>>
      BY BlockedOwnerReloads DEF CheckForSafepoint, HandleCheckForReload
    <2> HIDE DEF l
    <2> QED BY <2>2, <2>3, <2>4, ParkStep
  <1> QED BY <1>1, <1>2

LEMMA ExitStep ==
  ASSUME IInv, NEW t \in Threads,
         ExitSafepoint(t) \/ ExitWakes(t) \/ OwnerExitsSafepoint(t)
  PROVE  IInv'
  <1>1. Leaves(t)
    BY DEF ExitSafepoint, ExitWakes, OwnerExitsSafepoint, Leaves
  <1> QED BY <1>1, LeaveStep

(* Scopes, messages and spurious wake-ups.                                 *)
Aside(t) ==
  \/ RuntimeCallDeoptScope(t) \/ NoReloadScope(t) \/ CloseScope(t)
  \/ \E c \in oob_isolates : SendCheckForReload(t, c)
  \/ SpuriousWakeup(t)

LEMMA AsideStep ==
  ASSUME IInv, NEW t \in Threads, Aside(t)
  PROVE  IInv'
  <1>1. UNCHANGED Core
    BY DEF Aside, RuntimeCallDeoptScope, NoReloadScope, OpenScope, CloseScope,
           SendCheckForReload, SpuriousWakeup, Core
  <1> QED BY <1>1, IdleStep

(* The initial state satisfies the invariant.                              *)
LEMMA InitIInv == Init => IInv
  <1> SUFFICES ASSUME Init PROVE IInv OBVIOUS
  <1>1. CoreOK
    BY SMT, EmptySeq DEF Init, CoreOK, PCs
  <1>2. BitsPlaced /\ Untouched /\ LockHeld
    BY SafepointAssumption DEF Init, BitsPlaced, Outside, Untouched, LockHeld
  <1>3. OwnersRight /\ ScopesRight /\ CountsNat /\ StartsAtOne
    BY SafepointAssumption DEF Init, OwnersRight, OwnerIs, Starting,
       OwnsOperation, ScopesRight, CountsNat, StartsAtOne
  <1>4. CountsRight
    BY DEF Init, CountsRight, OwnsOperation
  <1>5. NotParkedExact
    <2>1. \A l \in Levels : Missing(l) = {}
      BY DEF Init, Missing
    <2> QED BY <2>1, FS_EmptySet DEF Init, NotParkedExact, Missing
  <1>6. RequestsAreOwned /\ EverybodyAsked /\ StillHeld
    BY DEF Init, RequestsAreOwned, EverybodyAsked, StillHeld
  <1>7. StoppedWorld
    BY DEF Init, StoppedWorld, Stopping, OwnsOperation
  <1> QED BY <1>1, <1>2, <1>3, <1>4, <1>5, <1>6, <1>7
          DEF IInv, Shape, Ownership, Asking

(* Every step keeps it.                                                    *)
LEMMA NextIInv == IInv /\ [Next]_vars => IInv'
  <1> SUFFICES ASSUME IInv, [Next]_vars PROVE IInv' OBVIOUS
  <1>1. CASE UNCHANGED vars
    BY <1>1, IdleStep DEF vars, Core
  <1>2. ASSUME NEW t \in Threads,
               \/ TransitionToSafepoint(t) \/ ExitIsolate(t) \/ CheckForSafepoint(t)
               \/ HandleCheckForReload(t)
        PROVE  IInv'
    BY <1>2, TransitionToSafepointStep, CheckForSafepointStep
  <1>3. ASSUME NEW t \in Threads,
               ExitSafepoint(t) \/ ExitWakes(t) \/ OwnerExitsSafepoint(t)
        PROVE  IInv'
    BY <1>3, ExitStep
  <1>4. ASSUME NEW t \in Threads, Aside(t) PROVE IInv'
    BY <1>4, AsideStep
  <1>5. ASSUME NEW t \in Threads, NEW l \in OpLevels, SafepointThreads(t, l)
        PROVE  IInv'
    BY <1>5, SafepointThreadsStep
  <1>6. ASSUME NEW t \in Threads, NEW c \in todo,
               NotifyThread(t, c) \/ ContinueThread(t, c)
        PROVE  IInv'
    BY <1>6, NotifyThreadStep, ContinueThreadStep
  <1>7. ASSUME NEW t \in Threads,
               \/ SafepointWaitWakes(t) \/ NotifyDone(t) \/ SendDone(t)
               \/ WaitUntilThreadsReachedSafepointLevel(t)
               \/ AcquireLowerLevelSafepoints(t)
        PROVE  IInv'
    BY <1>7, SafepointWaitWakesStep, NotifyDoneStep, SendDoneStep, WaitUntilStep,
       AcquireLowerStep
  <1>8. ASSUME NEW t \in Threads,
               \/ ResumeThreads(t) \/ ContinueDone(t) \/ AddActiveThread(t)
               \/ FreeActiveThread(t) \/ ReturnThreadLocked(t)
        PROVE  IInv'
    BY <1>8, ResumeThreadsStep, ContinueDoneStep, AddActiveThreadStep,
       FreeActiveThreadStep, ReturnThreadLockedStep
  <1> QED BY <1>1, <1>2, <1>3, <1>4, <1>5, <1>6, <1>7, <1>8 DEF Next, Aside

-----------------------------------------------------------------------------
(* The variables the invariant leaves aside.                               *)

(* Steps that touch none of them.                                          *)
Side == <<limits, oob, oob_isolates, notified, signalled>>

(* Actions that leave notified, signalled and the reload state alone.      *)
Quiet(t) ==
  \/ TransitionToSafepoint(t) \/ ExitIsolate(t) \/ ExitSafepoint(t)
  \/ CheckForSafepoint(t) \/ \E l \in OpLevels : SafepointThreads(t, l)
  \/ NotifyDone(t) \/ SendDone(t) \/ WaitUntilThreadsReachedSafepointLevel(t)
  \/ AcquireLowerLevelSafepoints(t) \/ OwnerExitsSafepoint(t) \/ ResumeThreads(t)
  \/ FreeActiveThread(t) \/ ReturnThreadLocked(t)

LEMMA QuietIsQuiet ==
  ASSUME NEW t, Quiet(t)
  PROVE  UNCHANGED Side
  <1>1. CASE \/ TransitionToSafepoint(t) \/ ExitIsolate(t) \/ ExitSafepoint(t)
             \/ CheckForSafepoint(t)
    BY <1>1 DEF TransitionToSafepoint, ExitIsolate, ExitSafepoint,
                CheckForSafepoint, Side
  <1>2. ASSUME NEW l \in OpLevels, SafepointThreads(t, l) PROVE UNCHANGED Side
    BY <1>2 DEF SafepointThreads, Side
  <1>3. CASE NotifyDone(t) \/ SendDone(t) \/ WaitUntilThreadsReachedSafepointLevel(t)
    BY <1>3 DEF NotifyDone, SendDone, WaitUntilThreadsReachedSafepointLevel, Side
  <1>4. CASE \/ AcquireLowerLevelSafepoints(t) \/ OwnerExitsSafepoint(t)
             \/ ResumeThreads(t)
    BY <1>4 DEF AcquireLowerLevelSafepoints, OwnerExitsSafepoint, ResumeThreads, Side
  <1>5. CASE FreeActiveThread(t) \/ ReturnThreadLocked(t)
    BY <1>5 DEF FreeActiveThread, ReturnThreadLocked, Side
  <1> QED BY <1>1, <1>2, <1>3, <1>4, <1>5 DEF Quiet

LEMMA NextSideOK == IInv /\ SideOK /\ [Next]_vars => SideOK'
  <1> SUFFICES ASSUME IInv, SideOK, [Next]_vars PROVE SideOK' OBVIOUS
  <1>1. CASE UNCHANGED vars
    BY <1>1 DEF vars, SideOK
  <1>2. ASSUME NEW t \in Threads, Quiet(t) PROVE SideOK'
    <2>1. UNCHANGED Side
      BY <1>2, QuietIsQuiet
    <2> QED BY <2>1 DEF Side, SideOK
  <1>3. ASSUME NEW t \in Threads, RuntimeCallDeoptScope(t) \/ NoReloadScope(t)
        PROVE  SideOK'
    <2>1. PICK s \in {"no_deopt", "no_reload"} : OpenScope(t, s)
      BY <1>3 DEF RuntimeCallDeoptScope, NoReloadScope
    <2>2. limits' \in [Threads -> Seq({"no_deopt", "no_reload"})]
      BY SMT, <2>1 DEF OpenScope, SideOK
    <2> QED BY <2>1, <2>2 DEF OpenScope, SideOK
  <1>4. ASSUME NEW t \in Threads, CloseScope(t) PROVE SideOK'
    <2>1. limits[t] \in Seq({"no_deopt", "no_reload"}) /\ limits[t] # <<>>
      BY <1>4 DEF CloseScope, SideOK
    <2>2. SubSeq(limits[t], 1, Len(limits[t]) - 1) \in Seq({"no_deopt", "no_reload"})
      BY <2>1, FrontFacts
    <2>3. limits' \in [Threads -> Seq({"no_deopt", "no_reload"})]
      BY <1>4, <2>2 DEF CloseScope, SideOK
    <2> QED BY <1>4, <2>3 DEF CloseScope, SideOK
  <1>5. ASSUME NEW t \in Threads,
               \/ HandleCheckForReload(t) \/ ExitWakes(t) \/ SafepointWaitWakes(t)
               \/ AddActiveThread(t) \/ SpuriousWakeup(t)
        PROVE  SideOK'
    BY <1>5 DEF HandleCheckForReload, ExitWakes, SafepointWaitWakes,
                AddActiveThread, SpuriousWakeup, SideOK
  <1>6. ASSUME NEW t \in Threads, NEW c \in todo,
               NotifyThread(t, c) \/ ContinueThread(t, c)
        PROVE  SideOK'
    BY <1>6 DEF NotifyThread, ContinueThread, IInv, Shape, CoreOK, SideOK
  <1>7. ASSUME NEW t \in Threads, NEW c \in oob_isolates, SendCheckForReload(t, c)
        PROVE  SideOK'
    BY <1>7 DEF SendCheckForReload, SideOK
  <1>8. ASSUME NEW t \in Threads, ContinueDone(t) PROVE SideOK'
    BY <1>8 DEF ContinueDone, NotifyAll, SideOK
  <1> QED BY <1>1, <1>2, <1>3, <1>4, <1>5, <1>6, <1>7, <1>8 DEF Next, Quiet

(* With the counters exact, they are natural numbers.                      *)
LEMMA TypesTogether == IInv /\ SideOK => TypeOK
  <1> SUFFICES ASSUME IInv, SideOK PROVE TypeOK OBVIOUS
  <1>1. ASSUME NEW l \in Levels PROVE not_parked[l] \in Nat
    BY MissingFinite DEF IInv, Asking, NotParkedExact, Missing
  <1>2. not_parked \in [Levels -> Nat]
    BY <1>1 DEF IInv, Shape, CoreOK
  <1> QED BY <1>2 DEF IInv, Shape, CoreOK, PCs, SideOK, Ownership, CountsNat, TypeOK

-----------------------------------------------------------------------------
(* No wake-up is lost.                                                     *)
LEMMA BlockedStays ==
  ASSUME IInv, BlockedIsWoken, [Next]_vars
  PROVE  BlockedIsWoken'
  <1> USE DEF IInv, Shape, CoreOK, BlockedIsWoken, IsSafepointRequested
  <1>1. CASE UNCHANGED vars
    BY <1>1 DEF vars
  <1>2. ASSUME NEW t \in Threads, TransitionToSafepoint(t) \/ ExitIsolate(t)
        PROVE  BlockedIsWoken'
    <2>1. /\ pc[t] = "running" /\ pc' = [pc EXCEPT ![t] = "parked"]
          /\ UNCHANGED <<requested, notified>>
      BY <1>2 DEF TransitionToSafepoint, ExitIsolate
    <2>2. \A u \in Threads \ {t} : level'[u] = level[u]
      BY <1>2 DEF TransitionToSafepoint, ExitIsolate, EnterSafepoint,
                  TryEnterSafepoint, EnterSafepointLocked
    <2> QED BY <2>1, <2>2
  <1>3. ASSUME NEW t \in Threads,
               ExitSafepoint(t) \/ ExitWakes(t) \/ OwnerExitsSafepoint(t)
        PROVE  BlockedIsWoken'
    BY <1>3 DEF ExitSafepoint, ExitWakes, OwnerExitsSafepoint, TryExitSafepoint,
                ExitSafepointLocked
  <1>4. ASSUME NEW t \in Threads, CheckForSafepoint(t) \/ HandleCheckForReload(t)
        PROVE  BlockedIsWoken'
    <2>1. CASE UNCHANGED <<pc, level, requested, notified>>
      BY <2>1
    <2>2. CASE ~UNCHANGED <<pc, level, requested, notified>>
      <3>1. PICK allow :
              LET l == current_safepoint_level(t, allow)
              IN  IsSafepointRequested(t, l) /\ BlockForSafepoint(t, l)
        BY <1>4, <2>2 DEF CheckForSafepoint, HandleCheckForReload
      <3> DEFINE l == current_safepoint_level(t, allow)
      <3>2. /\ pc' = [pc EXCEPT ![t] = "exit_wait"]
            /\ level' = [level EXCEPT ![t] = l]
            /\ requested[t] \cap (0 .. l) # {}
            /\ UNCHANGED <<requested, notified>>
        BY <1>4, <3>1 DEF CheckForSafepoint, HandleCheckForReload,
                          BlockForSafepoint, EnterSafepointLocked
      <3> HIDE DEF l
      <3> QED BY <3>2
    <2> QED BY <2>1, <2>2
  <1>5. ASSUME NEW t \in Threads, Aside(t) PROVE BlockedIsWoken'
    BY <1>5 DEF Aside, RuntimeCallDeoptScope, NoReloadScope, OpenScope,
                CloseScope, SendCheckForReload, SpuriousWakeup
  <1>6. ASSUME NEW t \in Threads, NEW l \in OpLevels, SafepointThreads(t, l)
        PROVE  BlockedIsWoken'
    BY <1>6 DEF SafepointThreads, EnterSafepointLocked, SetSafepointInProgress
  <1>7. ASSUME NEW t \in Threads, NEW c \in todo, NotifyThread(t, c)
        PROVE  BlockedIsWoken'
    BY <1>7 DEF NotifyThread
  <1>8. ASSUME NEW t \in Threads, NEW c \in todo, ContinueThread(t, c)
        PROVE  BlockedIsWoken'
    BY <1>8 DEF ContinueThread, IsBlockedForSafepoint
  <1>9. ASSUME NEW t \in Threads,
               \/ SafepointWaitWakes(t) \/ NotifyDone(t) \/ SendDone(t)
               \/ WaitUntilThreadsReachedSafepointLevel(t)
               \/ AcquireLowerLevelSafepoints(t)
        PROVE  BlockedIsWoken'
    BY <1>9 DEF SafepointWaitWakes, SetSafepointInProgress, NotifyDone, SendDone,
                WaitUntilThreadsReachedSafepointLevel, AcquireLowerLevelSafepoints
  <1>10. ASSUME NEW t \in Threads,
                \/ ResumeThreads(t) \/ ContinueDone(t) \/ AddActiveThread(t)
                \/ ReturnThreadLocked(t)
         PROVE  BlockedIsWoken'
    BY <1>10 DEF ResumeThreads, ContinueDone, AddActiveThread, ReturnThreadLocked
  <1>11. ASSUME NEW t \in Threads, FreeActiveThread(t) PROVE BlockedIsWoken'
    <2>1. /\ pc[t] = "running" /\ UNCHANGED <<requested, notified>>
          /\ \E x \in {"free", "freeing"} : pc' = [pc EXCEPT ![t] = x]
      BY <1>11 DEF FreeActiveThread
    <2>2. \A u \in Threads \ {t} : level'[u] = level[u]
      BY <1>11 DEF FreeActiveThread, EnterSafepoint, TryEnterSafepoint,
                   EnterSafepointLocked
    <2> QED BY <2>1, <2>2
  <1> QED BY <1>1, <1>2, <1>3, <1>4, <1>5, <1>6, <1>7, <1>8, <1>9, <1>10, <1>11
          DEF Next, Aside

(* Steps in which no level is given up and nobody starts to wait.          *)
LEMMA WaitersStay ==
  ASSUME WaitersAreWoken, signalled \subseteq signalled',
         \A u \in Threads : pc'[u] \in {"sp_wait", "add_wait"} =>
                              pc'[u] = pc[u] /\ level'[u] = level[u],
         \A l \in Levels : owner[l] # Nobody => owner'[l] # Nobody,
         \A u \in Threads : level[u] \in Levels,
         \A u \in Threads : pc[u] = "continue" => pc'[u] = "continue"
  PROVE  WaitersAreWoken'
  <1> SUFFICES ASSUME NEW t \in Threads, t \notin signalled'
               PROVE  /\ pc'[t] = "sp_wait" =>
                           \/ owner'[level'[t]] # Nobody
                           \/ \E u \in Threads : pc'[u] = "continue"
                      /\ pc'[t] = "add_wait" =>
                           \/ \E l \in Levels : owner'[l] # Nobody
                           \/ \E u \in Threads : pc'[u] = "continue"
    BY DEF WaitersAreWoken, AnySafepointInProgressLocked
  <1>1. t \notin signalled
    OBVIOUS
  <1>2. CASE pc'[t] = "sp_wait"
    BY <1>1, <1>2 DEF WaitersAreWoken
  <1>3. CASE pc'[t] = "add_wait"
    BY <1>1, <1>3 DEF WaitersAreWoken, AnySafepointInProgressLocked
  <1> QED BY <1>2, <1>3

LEMMA NextWaiters ==
  ASSUME IInv, WaitersAreWoken, [Next]_vars
  PROVE  WaitersAreWoken'
  <1>0. /\ pc \in [Threads -> PCs] /\ level \in [Threads -> Levels]
        /\ \A u \in Threads : level[u] \in Levels
        /\ owner \in [Levels -> Threads \cup {Nobody}] /\ Nobody \notin Threads
    BY SafepointAssumption DEF IInv, Shape, CoreOK
  <1>1. CASE UNCHANGED vars
    BY <1>0, <1>1, WaitersStay DEF vars
  <1>2. ASSUME NEW t \in Threads, TransitionToSafepoint(t) \/ ExitIsolate(t)
        PROVE  WaitersAreWoken'
    <2>1. /\ pc[t] = "running" /\ pc' = [pc EXCEPT ![t] = "parked"]
          /\ UNCHANGED <<owner, signalled>>
      BY <1>2 DEF TransitionToSafepoint, ExitIsolate
    <2>2. \A u \in Threads \ {t} : level'[u] = level[u]
      BY <1>0, <1>2 DEF TransitionToSafepoint, ExitIsolate, EnterSafepoint,
                  TryEnterSafepoint, EnterSafepointLocked
    <2> QED BY <1>0, <2>1, <2>2, WaitersStay
  <1>3. ASSUME NEW t \in Threads,
               ExitSafepoint(t) \/ ExitWakes(t) \/ OwnerExitsSafepoint(t)
        PROVE  WaitersAreWoken'
    <2>1. /\ pc[t] # "continue" /\ UNCHANGED <<owner, signalled, level>>
          /\ \E x \in {"running", "exit_wait"} : pc' = [pc EXCEPT ![t] = x]
      BY <1>3 DEF ExitSafepoint, ExitWakes, OwnerExitsSafepoint, TryExitSafepoint,
                  ExitSafepointLocked
    <2> QED BY <1>0, <2>1, WaitersStay
  <1>4. ASSUME NEW t \in Threads, CheckForSafepoint(t) \/ HandleCheckForReload(t)
        PROVE  WaitersAreWoken'
    <2>1. /\ pc[t] = "running" /\ UNCHANGED <<owner, signalled>>
          /\ UNCHANGED pc \/ pc' = [pc EXCEPT ![t] = "exit_wait"]
          /\ \A u \in Threads \ {t} : level'[u] = level[u]
      BY <1>0, <1>4 DEF CheckForSafepoint, HandleCheckForReload, BlockForSafepoint,
                  EnterSafepointLocked
    <2> QED BY <1>0, <2>1, WaitersStay
  <1>5. ASSUME NEW t \in Threads, Aside(t) PROVE WaitersAreWoken'
    <2>1. UNCHANGED <<pc, level, owner>> /\ signalled \subseteq signalled'
      BY <1>5 DEF Aside, RuntimeCallDeoptScope, NoReloadScope, OpenScope,
                  CloseScope, SendCheckForReload, SpuriousWakeup
    <2> QED BY <1>0, <2>1, WaitersStay
  <1>6. ASSUME NEW t \in Threads, NEW c \in todo,
               NotifyThread(t, c) \/ ContinueThread(t, c)
        PROVE  WaitersAreWoken'
    <2>1. UNCHANGED <<pc, level, owner, signalled>>
      BY <1>6 DEF NotifyThread, ContinueThread
    <2> QED BY <1>0, <2>1, WaitersStay
  <1>7. ASSUME NEW t \in Threads,
               \/ NotifyDone(t) \/ SendDone(t)
               \/ WaitUntilThreadsReachedSafepointLevel(t)
               \/ AcquireLowerLevelSafepoints(t) \/ ReturnThreadLocked(t)
        PROVE  WaitersAreWoken'
    <2>1. /\ pc[t] # "continue" /\ UNCHANGED <<signalled, level>>
          /\ \E x \in {"send", "waiting", "lower", "sp_exit", "free"} :
               pc' = [pc EXCEPT ![t] = x]
      BY <1>7 DEF NotifyDone, SendDone, WaitUntilThreadsReachedSafepointLevel,
                  AcquireLowerLevelSafepoints, ReturnThreadLocked
    <2>2. \A l \in Levels : owner[l] # Nobody => owner'[l] # Nobody
      BY <1>0, <1>7 DEF NotifyDone, SendDone, WaitUntilThreadsReachedSafepointLevel,
                  AcquireLowerLevelSafepoints, ReturnThreadLocked
    <2> QED BY <1>0, <2>1, <2>2, WaitersStay
  <1>8. ASSUME NEW t \in Threads, FreeActiveThread(t) PROVE WaitersAreWoken'
    <2>1. /\ pc[t] = "running" /\ UNCHANGED <<owner, signalled>>
          /\ \E x \in {"free", "freeing"} : pc' = [pc EXCEPT ![t] = x]
      BY <1>8 DEF FreeActiveThread
    <2>2. \A u \in Threads \ {t} : level'[u] = level[u]
      BY <1>0, <1>8 DEF FreeActiveThread, EnterSafepoint, TryEnterSafepoint,
                  EnterSafepointLocked
    <2> QED BY <1>0, <2>1, <2>2, WaitersStay
  <1>9. ASSUME NEW t \in Threads, NEW l \in OpLevels, SafepointThreads(t, l)
        PROVE  WaitersAreWoken'
    <2>1. l \in Levels
      BY SafepointAssumption
    <2>2. CASE owner[l] = t
      <3>1. UNCHANGED <<pc, level, owner, signalled>>
        BY <1>9, <2>2 DEF SafepointThreads
      <3> QED BY <1>0, <3>1, WaitersStay
    <2>3. CASE owner[l] # t /\ owner[l] # Nobody
      <3>1. /\ pc[t] = "running" /\ pc' = [pc EXCEPT ![t] = "sp_wait"]
            /\ level' = [level EXCEPT ![t] = l] /\ UNCHANGED <<owner, signalled>>
        BY <1>9, <2>3 DEF SafepointThreads, EnterSafepointLocked, OwnParkLevel
      <3> QED BY <1>0, <2>3, <3>1 DEF WaitersAreWoken, AnySafepointInProgressLocked
    <2>4. CASE owner[l] # t /\ owner[l] = Nobody
      <3>1. /\ pc[t] = "running" /\ pc' = [pc EXCEPT ![t] = "notify"]
            /\ level' = [level EXCEPT ![t] = l] /\ UNCHANGED signalled
            /\ owner' = [owner EXCEPT ![l] = t]
        BY <1>9, <2>4 DEF SafepointThreads, EnterSafepointLocked, OwnParkLevel,
                          SetSafepointInProgress
      <3> QED BY <1>0, <2>1, <3>1, WaitersStay
    <2> QED BY <2>2, <2>3, <2>4
  <1>10. ASSUME NEW t \in Threads, SafepointWaitWakes(t) PROVE WaitersAreWoken'
    <2>1. CASE owner[level[t]] # Nobody
      BY <1>10, <2>1 DEF SafepointWaitWakes, WaitersAreWoken,
                         AnySafepointInProgressLocked
    <2>2. CASE owner[level[t]] = Nobody
      <3>1. /\ pc[t] = "sp_wait" /\ pc' = [pc EXCEPT ![t] = "notify"]
            /\ UNCHANGED level /\ signalled' = signalled \ {t}
            /\ owner' = [owner EXCEPT ![level[t]] = t]
        BY <1>10, <2>2 DEF SafepointWaitWakes, SetSafepointInProgress
      <3> QED BY <1>0, <3>1 DEF WaitersAreWoken, AnySafepointInProgressLocked
    <2> QED BY <2>1, <2>2
  <1>11. ASSUME NEW t \in Threads, ResumeThreads(t) PROVE WaitersAreWoken'
    <2>1. CASE UNCHANGED <<pc, level, owner>>
      BY <1>0, <1>11, <2>1, WaitersStay DEF ResumeThreads
    <2>2. CASE pc' = [pc EXCEPT ![t] = "continue"]
      <3>1. pc'[t] = "continue"
        BY <1>0, <2>2
      <3> QED BY <3>1 DEF WaitersAreWoken
    <2> QED BY <1>11, <2>1, <2>2 DEF ResumeThreads
  <1>12. ASSUME NEW t \in Threads, ContinueDone(t) PROVE WaitersAreWoken'
    BY <1>0, <1>12 DEF ContinueDone, NotifyAll, WaitersAreWoken
  <1>13. ASSUME NEW t \in Threads, AddActiveThread(t) PROVE WaitersAreWoken'
    <2>1. /\ pc[t] \in {"free", "add_wait"} /\ UNCHANGED <<owner, level>>
          /\ signalled \ {t} \subseteq signalled'
      BY <1>13 DEF AddActiveThread
    <2>2. CASE MustWaitToJoin(t)
      BY <1>0, <1>13, <2>1, <2>2 DEF AddActiveThread, MustWaitToJoin, WaitersAreWoken,
                                AnySafepointInProgressLocked
    <2>3. CASE ~MustWaitToJoin(t)
      <3>1. pc' = [pc EXCEPT ![t] = "running"]
        BY <1>13, <2>3 DEF AddActiveThread
      <3> QED BY <1>0, <2>1, <3>1 DEF WaitersAreWoken, AnySafepointInProgressLocked
    <2> QED BY <2>2, <2>3
  <1> QED BY <1>1, <1>2, <1>3, <1>4, <1>5, <1>6, <1>7, <1>8, <1>9, <1>10, <1>11,
             <1>12, <1>13 DEF Next, Aside

-----------------------------------------------------------------------------
(* A mutator that a reload waits for learns of it.                         *)

(* Closing the innermost scope leaves the others open.                     *)
LEMMA OuterScopesStay ==
  ASSUME SideOK, NEW t \in Threads, CloseScope(t), InNoReloadScope(t),
         InnermostLimit(t) # "no_reload"
  PROVE  InNoReloadScope(t)'
  <1> DEFINE s == limits[t]
             f == SubSeq(s, 1, Len(s) - 1)
  <1>1. s \in Seq({"no_deopt", "no_reload"}) /\ s # <<>> /\ limits'[t] = f
    BY DEF SideOK, CloseScope
  <1>2. PICK k \in 1 .. Len(s) : s[k] = "no_reload"
    BY SMT, <1>1 DEF InNoReloadScope
  <1>3. /\ Len(f) = Len(s) - 1 /\ Len(s) \in Nat \ {0}
        /\ \A i \in 1 .. Len(s) - 1 : f[i] = s[i]
        /\ f \in Seq({"no_deopt", "no_reload"})
    BY <1>1, FrontFacts
  <1>4. k # Len(s)
    BY <1>2 DEF InnermostLimit
  <1>5. k \in 1 .. Len(f) /\ f[k] = "no_reload"
    BY SMT, <1>2, <1>3, <1>4
  <1>6. k \in DOMAIN f
    BY SMT, <1>3, <1>5
  <1> QED BY <1>1, <1>5, <1>6 DEF InNoReloadScope

(* Steps that ask nobody, take nothing away and move nobody off a          *)
(* safepoint it is asked to be at.                                         *)
LEMMA NotForgottenStays ==
  ASSUME IInv, ReloadNotForgotten, UNCHANGED limits,
         \A c \in Threads : oob[c] => oob'[c],
         oob_isolates \subseteq oob_isolates',
         \A c \in Threads : requested'[c] \subseteq requested[c],
         \A c \in Threads : 2 \in requested'[c] /\ 0 .. 2 \subseteq at[c] =>
                              0 .. 2 \subseteq at'[c]
  PROVE  ReloadNotForgotten'
  <1> SUFFICES ASSUME NEW c \in Mutators, 2 \in requested'[c],
                      ~(0 .. 2 \subseteq at'[c])
               PROVE  oob'[c] \/ InNoReloadScope(c)' \/ c \in oob_isolates'
    BY DEF ReloadNotForgotten, IsAtSafepoint
  <1>1. c \in Threads /\ 2 \in requested[c] /\ ~(0 .. 2 \subseteq at[c])
    BY SafepointAssumption
  <1>2. oob[c] \/ InNoReloadScope(c) \/ c \in oob_isolates
    BY <1>1 DEF ReloadNotForgotten, IsAtSafepoint
  <1>3. InNoReloadScope(c) => InNoReloadScope(c)'
    BY DEF InNoReloadScope
  <1> QED BY <1>1, <1>2, <1>3

(* Entering a safepoint only sets bits.                                    *)
LEMMA EntersOnly ==
  ASSUME IInv, NEW t \in Threads, NEW l, EnterSafepoint(t, l)
  PROVE  \A c \in Threads : at[c] \subseteq at'[c]
  <1>1. at \in [Threads -> SUBSET Levels]
    BY DEF IInv, Shape, CoreOK
  <1>2. CASE TryEnterSafepoint(t, l)
    BY <1>1, <1>2 DEF TryEnterSafepoint
  <1>3. CASE EnterSafepointLocked(t, l)
    BY <1>1, <1>3 DEF EnterSafepointLocked
  <1> QED BY <1>2, <1>3 DEF EnterSafepoint

LEMMA NextNotForgotten ==
  ASSUME IInv, SideOK, ReloadNotForgotten, [Next]_vars
  PROVE  ReloadNotForgotten'
  <1>0. /\ pc \in [Threads -> PCs] /\ level \in [Threads -> Levels]
        /\ at \in [Threads -> SUBSET Levels]
        /\ requested \in [Threads -> SUBSET Levels]
        /\ oob \in [Threads -> BOOLEAN] /\ Mutators \subseteq Threads
    BY SafepointAssumption DEF IInv, Shape, CoreOK, SideOK
  <1>1. CASE UNCHANGED vars
    BY <1>0, <1>1, NotForgottenStays DEF vars, reload, lists
  <1>2. ASSUME NEW t \in Threads,
               TransitionToSafepoint(t) \/ ExitIsolate(t) \/ CheckForSafepoint(t)
        PROVE  ReloadNotForgotten'
    <2>1. UNCHANGED <<limits, oob, oob_isolates, requested>>
      BY <1>2 DEF TransitionToSafepoint, ExitIsolate, CheckForSafepoint
    <2>2. PICK l : EnterSafepoint(t, l)
      BY <1>2 DEF TransitionToSafepoint, ExitIsolate, CheckForSafepoint,
                  EnterSafepoint, BlockForSafepoint
    <2>3. \A c \in Threads : at[c] \subseteq at'[c]
      BY <2>2, EntersOnly
    <2> QED BY <2>1, <2>3, NotForgottenStays
  <1>3. ASSUME NEW t \in Threads,
               ExitSafepoint(t) \/ ExitWakes(t) \/ OwnerExitsSafepoint(t)
        PROVE  ReloadNotForgotten'
    <2>1. UNCHANGED <<limits, oob, oob_isolates, requested>>
      BY <1>3 DEF ExitSafepoint, ExitWakes, OwnerExitsSafepoint
    <2>2. Leaves(t)
      BY <1>3 DEF ExitSafepoint, ExitWakes, OwnerExitsSafepoint, Leaves
    <2>3. at[t] = 0 .. level[t] /\ level[t] \in Levels
      BY <1>0, <2>2 DEF IInv, Shape, BitsPlaced, Outside, Leaves
    <2>4. \A c \in Threads : 2 \in requested[c] /\ 0 .. 2 \subseteq at[c] =>
                               0 .. 2 \subseteq at'[c]
      <3>1. CASE at' = at BY <3>1
      <3>2. CASE at' = [at EXCEPT ![t] = {}] /\ requested[t] \cap (0 .. level[t]) = {}
        BY <1>0, <2>3, <3>2
      <3> QED BY <2>2, <3>1, <3>2, LeaveCases
    <2> QED BY <2>1, <2>4, NotForgottenStays
  <1>4. ASSUME NEW t \in Threads, NEW c \in todo, ContinueThread(t, c)
        PROVE  ReloadNotForgotten'
    <2>1. UNCHANGED <<limits, oob, oob_isolates, at>>
      BY <1>4 DEF ContinueThread
    <2>2. \A d \in Threads : requested'[d] \subseteq requested[d]
      BY <1>0, <1>4 DEF ContinueThread
    <2> QED BY <2>1, <2>2, NotForgottenStays
  <1>5. ASSUME NEW t \in Threads, NEW l \in OpLevels, SafepointThreads(t, l)
        PROVE  ReloadNotForgotten'
    <2>1. UNCHANGED <<limits, oob, oob_isolates, requested>>
      BY <1>5 DEF SafepointThreads
    <2>2. \A c \in Threads : at[c] \subseteq at'[c]
      BY SMTT(20), <1>0, <1>5 DEF SafepointThreads, EnterSafepointLocked
    <2> QED BY <2>1, <2>2, NotForgottenStays
  <1>6. ASSUME NEW t \in Threads,
               \/ SafepointWaitWakes(t) \/ NotifyDone(t) \/ SendDone(t)
               \/ WaitUntilThreadsReachedSafepointLevel(t)
               \/ AcquireLowerLevelSafepoints(t) \/ ResumeThreads(t)
               \/ ContinueDone(t) \/ AddActiveThread(t) \/ SpuriousWakeup(t)
        PROVE  ReloadNotForgotten'
    <2>1. UNCHANGED <<limits, oob, oob_isolates, requested, at>>
      BY <1>6 DEF SafepointWaitWakes, NotifyDone, SendDone, ResumeThreads,
                  WaitUntilThreadsReachedSafepointLevel, SpuriousWakeup,
                  AcquireLowerLevelSafepoints, ContinueDone, AddActiveThread
    <2> QED BY <2>1, NotForgottenStays
  <1>7. ASSUME NEW t \in Threads, FreeActiveThread(t) PROVE ReloadNotForgotten'
    <2>1. UNCHANGED <<limits, oob, oob_isolates, requested>>
      BY <1>7 DEF FreeActiveThread
    <2>2. \A c \in Threads : at[c] \subseteq at'[c]
      BY SMTT(20), <1>0, <1>7 DEF FreeActiveThread, EnterSafepoint, TryEnterSafepoint,
                        EnterSafepointLocked
    <2> QED BY <2>1, <2>2, NotForgottenStays
  <1>8. ASSUME NEW t \in Threads, ReturnThreadLocked(t) PROVE ReloadNotForgotten'
    <2>1. UNCHANGED <<limits, oob, oob_isolates>>
      BY <1>8 DEF ReturnThreadLocked
    <2>2. \A c \in Threads : /\ requested'[c] \subseteq requested[c]
                             /\ 2 \in requested'[c] => at'[c] = at[c]
      BY <1>0, <1>8 DEF ReturnThreadLocked
    <2> QED BY <2>1, <2>2, NotForgottenStays
  <1>9. ASSUME NEW t \in Threads, RuntimeCallDeoptScope(t) \/ NoReloadScope(t)
        PROVE  ReloadNotForgotten'
    <2>1. PICK s \in {"no_deopt", "no_reload"} : OpenScope(t, s)
      BY <1>9 DEF RuntimeCallDeoptScope, NoReloadScope
    <2>2. ASSUME NEW c \in Threads, InNoReloadScope(c) PROVE InNoReloadScope(c)'
      <3>1. limits \in [Threads -> Seq({"no_deopt", "no_reload"})]
        BY DEF SideOK
      <3>2. PICK k \in 1 .. Len(limits[c]) : limits[c][k] = "no_reload"
        BY SMT, <2>2, <3>1 DEF InNoReloadScope
      <3>3. limits' = [limits EXCEPT ![t] = Append(@, s)]
        BY <2>1 DEF OpenScope
      <3>4. CASE c # t
        BY <2>2, <3>1, <3>3, <3>4 DEF InNoReloadScope
      <3>5. CASE c = t
        <4>1. limits'[c] = Append(limits[c], s) /\ limits[c] \in Seq({"no_deopt", "no_reload"})
          BY <3>1, <3>3, <3>5
        <4>2. k \in DOMAIN limits'[c] /\ limits'[c][k] = "no_reload"
          BY SMT, <3>2, <4>1
        <4> QED BY <4>2 DEF InNoReloadScope
      <3> QED BY <3>4, <3>5
    <2> QED BY <1>0, <2>1, <2>2 DEF OpenScope, ReloadNotForgotten, IsAtSafepoint
  <1>10. ASSUME NEW t \in Threads, CloseScope(t) PROVE ReloadNotForgotten'
    <2> SUFFICES ASSUME NEW c \in Mutators, 2 \in requested[c],
                        ~(0 .. 2 \subseteq at[c])
                 PROVE  oob'[c] \/ InNoReloadScope(c)' \/ c \in oob_isolates
      BY <1>10 DEF CloseScope, ReloadNotForgotten, IsAtSafepoint
    <2>1. oob[c] \/ InNoReloadScope(c) \/ c \in oob_isolates
      BY DEF ReloadNotForgotten, IsAtSafepoint
    <2>2. CASE c # t
      <3>1. limits'[c] = limits[c] /\ oob'[c] = oob[c]
        BY <1>0, <1>10, <2>2 DEF CloseScope, SideOK
      <3> QED BY <2>1, <3>1 DEF InNoReloadScope
    <2>3. CASE c = t /\ InnermostLimit(t) = "no_reload"
      BY <1>0, <1>10, <2>3 DEF CloseScope, ResendsReload
    <2>4. CASE c = t /\ InnermostLimit(t) # "no_reload"
      <3>1. InNoReloadScope(t) => InNoReloadScope(t)'
        BY <1>10, <2>4, OuterScopesStay
      <3>2. oob[t] => oob'[t]
        BY <1>0, <1>10 DEF CloseScope
      <3> QED BY <2>1, <2>4, <3>1, <3>2
    <2> QED BY <2>2, <2>3, <2>4
  <1>11. ASSUME NEW t \in Threads, HandleCheckForReload(t) PROVE ReloadNotForgotten'
    <2> DEFINE l == current_safepoint_level(t, TRUE)
    <2>1. /\ UNCHANGED <<limits, oob_isolates, requested>> /\ ~CannotLazyDeopt(t)
          /\ \A c \in Threads \ {t} : oob'[c] = oob[c]
      BY <1>0, <1>11 DEF HandleCheckForReload
    <2>2. \A c \in Threads : at[c] \subseteq at'[c]
      <3>1. CASE BlockForSafepoint(t, l)
        <4> HIDE DEF l
        <4> QED BY <3>1, EntersOnly DEF BlockForSafepoint, EnterSafepoint
      <3>2. CASE UNCHANGED at BY <3>2
      <3> QED BY <1>11, <3>1, <3>2 DEF HandleCheckForReload
    <2>3. InNoReloadScope(t) \/ l = 2
      BY <2>1 DEF current_safepoint_level
    <2>4. 2 \in requested[t] /\ l = 2 => 0 .. 2 \subseteq at'[t]
      <3> SUFFICES ASSUME 2 \in requested[t], l = 2 PROVE 0 .. 2 \subseteq at'[t]
        OBVIOUS
      <3>1. IsSafepointRequested(t, l)
        <4> HIDE DEF l
        <4> QED BY SMT DEF IsSafepointRequested
      <3>2. EnterSafepointLocked(t, l)
        BY <1>11, <3>1 DEF HandleCheckForReload, BlockForSafepoint
      <3> HIDE DEF l
      <3> QED BY <1>0, <3>2 DEF EnterSafepointLocked
    <2>5. \A c \in Threads : InNoReloadScope(c)' <=> InNoReloadScope(c)
      BY <2>1 DEF InNoReloadScope
    <2> HIDE DEF l
    <2> QED BY <1>0, <2>1, <2>2, <2>3, <2>4, <2>5 DEF ReloadNotForgotten, IsAtSafepoint
  <1>12. ASSUME NEW t \in Threads, NEW c \in todo, NotifyThread(t, c)
         PROVE  ReloadNotForgotten'
    <2>1. /\ UNCHANGED <<limits, oob, at>> /\ oob_isolates \subseteq oob_isolates'
          /\ requested' = [requested EXCEPT ![c] = @ \cup {level[t]}]
      BY <1>12 DEF NotifyThread
    <2>2. /\ c \in Mutators /\ level[t] = 2 /\ ~(0 .. 2 \subseteq at[c])
          => c \in oob_isolates'
      BY <1>12 DEF NotifyThread, IsAtSafepoint
    <2>3. \A d \in Threads : InNoReloadScope(d)' <=> InNoReloadScope(d)
      BY <2>1 DEF InNoReloadScope
    <2> QED BY <1>0, <2>1, <2>2, <2>3 DEF ReloadNotForgotten, IsAtSafepoint
  <1>13. ASSUME NEW t \in Threads, NEW c \in oob_isolates, SendCheckForReload(t, c)
         PROVE  ReloadNotForgotten'
    <2>1. UNCHANGED <<limits, requested, at>> /\ oob_isolates' = oob_isolates \ {c}
      BY <1>13 DEF SendCheckForReload
    <2>2. /\ c \in Threads /\ (oob'[c] \/ requested[c] = {})
          /\ \A d \in Threads : oob[d] => oob'[d]
      BY <1>0, <1>13 DEF SendCheckForReload, SideOK, IInv, Shape, Untouched
    <2>3. \A d \in Threads : InNoReloadScope(d)' <=> InNoReloadScope(d)
      BY <2>1 DEF InNoReloadScope
    <2> QED BY <1>0, <2>1, <2>2, <2>3 DEF ReloadNotForgotten, IsAtSafepoint
  <1> QED BY <1>1, <1>2, <1>3, <1>4, <1>5, <1>6, <1>7, <1>8, <1>9, <1>10, <1>11,
             <1>12, <1>13 DEF Next

-----------------------------------------------------------------------------
(* The inductive invariant holds in every reachable state.                 *)
LEMMA Invariance == Spec => [](IInv /\ SideOK)
  <1>1. Init => IInv /\ SideOK
    BY SMT, InitIInv, EmptySeq DEF Init, SideOK
  <1>2. IInv /\ SideOK /\ [Next]_vars => (IInv /\ SideOK)'
    BY NextIInv, NextSideOK
  <1> QED BY <1>1, <1>2, PTL DEF Spec

(* The variables keep their types: the counters never go below zero.       *)
THEOREM TypeCorrect == Spec => []TypeOK
  BY Invariance, TypesTogether, PTL

(* While a thread is inside a safepoint operation every other thread is    *)
(* stopped, however levels, scopes, joins and fast paths interleave.       *)
THEOREM OperationsAreAlone == Spec => []StoppedWorld
  <1>1. IInv => StoppedWorld
    BY DEF IInv, Asking
  <1> QED BY <1>1, Invariance, PTL

(* num_threads_not_parked_ counts exactly the threads still awaited.       *)
THEOREM CounterIsExact == Spec => []NotParkedExact
  <1>1. IInv => NotParkedExact
    BY DEF IInv, Asking
  <1> QED BY <1>1, Invariance, PTL

(* The ASSERT of AcquireLowerLevelSafepoints cannot fail.                  *)
THEOREM LowerLevelsAreFree == Spec => []LowerLevelsFree
  <1>1. IInv => LowerLevelsFree
    BY LowerFree DEF LowerLevelsFree
  <1> QED BY <1>1, Invariance, PTL

(* A request always has an owner that will withdraw it.                    *)
THEOREM RequestsHaveOwners == Spec => []RequestsAreOwned
  <1>1. IInv => RequestsAreOwned
    BY DEF IInv, Asking
  <1> QED BY <1>1, Invariance, PTL

(* operation_count_ counts the scopes that cover a level, at any depth.    *)
THEOREM CountsAreNesting == Spec => []CountsNesting
  <1>1. IInv => CountsNesting
    <2> SUFFICES ASSUME IInv, NEW t \in Threads, OwnsOperation(t),
                        NEW l \in 0 .. scopes[t][1]
                 PROVE  /\ owner[l] = t
                        /\ operations[l] = Cardinality({k \in DOMAIN scopes[t] :
                                                          scopes[t][k] >= l})
      BY DEF CountsNesting
    <2>1. /\ l \in Levels /\ scopes[t] \in Seq(Levels)
          /\ l <= scopes[t][1]
      BY SMT, CoveringFinite
    <2>2. DOMAIN scopes[t] = 1 .. Len(scopes[t])
      BY SMT, <2>1
    <2>3. owner[l] = t
      BY <2>1 DEF IInv, Ownership, OwnersRight, OwnerIs
    <2> QED BY <2>1, <2>2, <2>3 DEF IInv, Ownership, CountsRight, Covering
  <1> QED BY <1>1, Invariance, PTL

(* The handler's view of the levels is right in every reachable state.     *)
THEOREM LevelsCorrect == Spec => []LevelsAreKept
  BY CounterIsExact, LowerLevelsAreFree, CountsAreNesting, RequestsHaveOwners, PTL
  DEF LevelsAreKept

(* No wake-up is lost, neither of a thread held in its safepoint nor of    *)
(* one that waits to start an operation or to join.                        *)
THEOREM WakeupsNotLost == Spec => []WakeupsAreKept
  <1>1. Init => WakeupsAreKept
    BY DEF Init, WakeupsAreKept, BlockedIsWoken, WaitersAreWoken
  <1>2. IInv /\ WakeupsAreKept /\ [Next]_vars => WakeupsAreKept'
    BY BlockedStays, NextWaiters DEF WakeupsAreKept
  <1> QED BY <1>1, <1>2, Invariance, PTL DEF Spec

(* A mutator that a reload waits for always has the message coming.        *)
THEOREM ReloadsAreRemembered == Spec => []ReloadNotForgotten
  <1>1. Init => ReloadNotForgotten
    BY SafepointAssumption DEF Init, ReloadNotForgotten
  <1>2. IInv /\ SideOK /\ ReloadNotForgotten /\ [Next]_vars => ReloadNotForgotten'
    BY NextNotForgotten
  <1> QED BY <1>1, <1>2, Invariance, PTL DEF Spec
=============================================================================
