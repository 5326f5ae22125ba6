------------------------ MODULE SafepointRwLockProofs ------------------------
(***************************************************************************)
(* Safety of SafepointRwLock for any finite set of threads, any depth of   *)
(* nesting and any number of operations.                                   *)
(***************************************************************************)
EXTENDS SafepointRwLock, FiniteSetTheorems, TLAPS

USE ZenonT(30)

Kinds == {"read", "write", "none", "gc", "reload"}
Asking == {"block_read", "wait_read", "block_write", "wait_write"}
Wanting == {"want_gc", "want_reload"}
PCs == Asking \cup Wanting \cup {"vm", "got"}

TypeOK ==
  /\ state \in Int /\ writer \in Threads \cup {None} /\ waiters \subseteq Threads
  /\ held \in [Threads -> Seq(Kinds)] /\ pc \in [Threads -> PCs]

\* A thread on its way to the lock or to an operation has room for one more scope.
DepthOK ==
  \A t \in Threads : /\ Len(held[t]) <= MaxDepth
                     /\ pc[t] \in Asking \cup Wanting => Len(held[t]) < MaxDepth

\* HoldersMatch alone is not inductive: it does not say that a held write lock
\* has a writer, nor how deep the lockers are, nor that a thread that runs is not
\* in the wait set (SleepersMustWait).
IInv == TypeOK /\ DepthOK /\ HoldersMatch /\ SleepersMustWait

-----------------------------------------------------------------------------
(* Counting lockers *)

LEMMA LockersFinite ==
  ASSUME NEW kind
  PROVE  IsFiniteSet(Lockers(kind)) /\ Count(kind) \in Nat
  <1>1. IsFiniteSet(Threads) /\ MaxDepth \in Nat
    BY RwLockAssumption
  <1>2. IsFiniteSet(1 .. MaxDepth)
    BY <1>1, FS_Interval, SMT
  <1>3. IsFiniteSet(Threads \X (1 .. MaxDepth))
    BY <1>1, <1>2, FS_Product
  <1>4. IsFiniteSet(Lockers(kind))
    BY <1>3, FS_Subset DEF Lockers
  <1> QED BY <1>4, FS_CardinalityType DEF Count

LEMMA SamePairs ==
  \A S, T \in SUBSET (Threads \X (1 .. MaxDepth)) :
     (\A u \in Threads, i \in 1 .. MaxDepth : <<u, i>> \in S <=> <<u, i>> \in T)
     => S = T
  BY SMT

LEMMA PushSeq ==
  ASSUME NEW s \in Seq(Kinds), NEW kind \in Kinds
  PROVE  LET a == Append(s, kind)
         IN  /\ a \in Seq(Kinds) /\ Len(s) \in Nat /\ Len(a) = Len(s) + 1
             /\ DOMAIN s = 1 .. Len(s) /\ DOMAIN a = 1 .. Len(s) + 1
             /\ \A i \in 1 .. Len(s) : a[i] = s[i]
             /\ a[Len(s) + 1] = kind
  BY SMT

LEMMA PopSeq ==
  ASSUME NEW s \in Seq(Kinds), s # <<>>
  PROVE  LET a == SubSeq(s, 1, Len(s) - 1)
         IN  /\ a \in Seq(Kinds) /\ Len(s) \in Nat \ {0} /\ Len(a) = Len(s) - 1
             /\ DOMAIN s = 1 .. Len(s) /\ DOMAIN a = 1 .. Len(s) - 1
             /\ \A i \in 1 .. Len(s) - 1 : a[i] = s[i]
  <1>1. Len(s) \in Nat \ {0} /\ DOMAIN s = 1 .. Len(s)
    BY SMT
  <1> DEFINE n == Len(s) - 1
  <1>2. n \in Nat /\ n < Len(s)
    BY SMT, <1>1
  <1> HIDE DEF n
  <1>3. /\ SubSeq(s, 1, n) \in Seq(Kinds) /\ Len(SubSeq(s, 1, n)) = n
        /\ DOMAIN SubSeq(s, 1, n) = 1 .. n
        /\ \A i \in 1 .. n : SubSeq(s, 1, n)[i] = s[i]
    BY SMT, <1>2
  <1> QED BY <1>1, <1>3 DEF n

\* A locker that comes into scope is one more of its kind ...
LEMMA PushCounts ==
  ASSUME TypeOK, NEW t \in Threads, NEW kind \in Kinds, Len(held[t]) < MaxDepth, Push(t, kind)
  PROVE  /\ held' \in [Threads -> Seq(Kinds)]
         /\ \A u \in Threads : Len(held'[u]) = IF u = t THEN Len(held[u]) + 1 ELSE Len(held[u])
         /\ Count(kind)' = Count(kind) + 1
         /\ \A k \in Kinds \ {kind} : Count(k)' = Count(k)
         /\ \A u \in Threads, k \in Kinds :
              Holds(u, k)' <=> (Holds(u, k) \/ (u = t /\ k = kind))
  <1> DEFINE n == Len(held[t])
             a == Append(held[t], kind)
  <1>1. /\ held[t] \in Seq(Kinds) /\ held \in [Threads -> Seq(Kinds)]
        /\ held' = [held EXCEPT ![t] = a]
    BY DEF TypeOK, Push
  <1>2. /\ a \in Seq(Kinds) /\ n \in Nat /\ Len(a) = n + 1
        /\ DOMAIN held[t] = 1 .. n /\ DOMAIN a = 1 .. n + 1
        /\ \A i \in 1 .. n : a[i] = held[t][i]
        /\ a[n + 1] = kind
    BY <1>1, PushSeq
  <1>3. MaxDepth \in Nat /\ n < MaxDepth
    BY RwLockAssumption
  <1> HIDE DEF n, a
  <1>4. held' \in [Threads -> Seq(Kinds)] /\ held'[t] = a /\ \A u \in Threads \ {t} : held'[u] = held[u]
    BY <1>1, <1>2
  <1>5. \A u \in Threads : Len(held'[u]) = IF u = t THEN Len(held[u]) + 1 ELSE Len(held[u])
    BY <1>4, <1>2 DEF n
  <1>6. 1 .. n + 1 = (1 .. n) \cup {n + 1} /\ n + 1 \notin 1 .. n /\ n + 1 \in 1 .. MaxDepth
    BY SMT, <1>2, <1>3
  <1>7. Lockers(kind)' = Lockers(kind) \cup {<<t, n + 1>>} /\ <<t, n + 1>> \notin Lockers(kind)
    <2>1. <<t, n + 1>> \notin Lockers(kind)
      BY <1>2, <1>6 DEF Lockers
    <2>2. <<t, n + 1>> \in Lockers(kind)'
      BY <1>2, <1>4, <1>6 DEF Lockers
    <2>3. ASSUME NEW u \in Threads, NEW i \in 1 .. MaxDepth, <<u, i>> # <<t, n + 1>>
          PROVE  <<u, i>> \in Lockers(kind)' <=> <<u, i>> \in Lockers(kind)
      BY <1>2, <1>4, <1>6, <2>3 DEF Lockers
    <2>4. /\ Lockers(kind)' \subseteq Threads \X (1 .. MaxDepth)
          /\ Lockers(kind) \subseteq Threads \X (1 .. MaxDepth)
      BY DEF Lockers
    <2> QED BY SMT, <2>1, <2>2, <2>3, <2>4
  <1>8. ASSUME NEW k \in Kinds \ {kind}
        PROVE  Lockers(k)' = Lockers(k)
    <2>1. <<t, n + 1>> \notin Lockers(k) /\ <<t, n + 1>> \notin Lockers(k)'
      BY <1>2, <1>4, <1>6 DEF Lockers
    <2>2. ASSUME NEW u \in Threads, NEW i \in 1 .. MaxDepth, <<u, i>> # <<t, n + 1>>
          PROVE  <<u, i>> \in Lockers(k)' <=> <<u, i>> \in Lockers(k)
      BY <1>2, <1>4, <1>6, <2>2 DEF Lockers
    <2>3. \A u \in Threads, i \in 1 .. MaxDepth :
             <<u, i>> \in Lockers(k)' <=> <<u, i>> \in Lockers(k)
      BY <2>1, <2>2
    <2>4. /\ Lockers(k)' \in SUBSET (Threads \X (1 .. MaxDepth))
          /\ Lockers(k) \in SUBSET (Threads \X (1 .. MaxDepth))
      BY DEF Lockers
    <2> QED BY <2>3, <2>4, SamePairs
  <1>9. Count(kind)' = Count(kind) + 1
    BY <1>7, LockersFinite, FS_AddElement DEF Count
  <1>10. \A k \in Kinds \ {kind} : Count(k)' = Count(k)
    BY <1>8 DEF Count
  <1>11. \A u \in Threads, k \in Kinds : Holds(u, k)' <=> (Holds(u, k) \/ (u = t /\ k = kind))
    BY <1>2, <1>4, <1>6 DEF Holds
  <1> QED BY <1>4, <1>5, <1>9, <1>10, <1>11

\* ... and one that goes out of scope was one of its kind.
LEMMA PopCounts ==
  ASSUME TypeOK, DepthOK, NEW t \in Threads, NEW kind \in Kinds, LastHeld(t, kind)
  PROVE  /\ held' \in [Threads -> Seq(Kinds)]
         /\ \A u \in Threads : Len(held'[u]) <= Len(held[u]) /\ Len(held'[u]) \in Nat
         /\ Count(kind) >= 1 /\ Count(kind)' = Count(kind) - 1
         /\ \A k \in Kinds \ {kind} : Count(k)' = Count(k)
         /\ Holds(t, kind)
         /\ \A u \in Threads, k \in Kinds : Holds(u, k)' => Holds(u, k)
         /\ \A u \in Threads, k \in Kinds :
              u # t \/ k # kind => (Holds(u, k) <=> Holds(u, k)')
  <1> DEFINE n == Len(held[t])
             a == SubSeq(held[t], 1, n - 1)
  <1>1. /\ held[t] \in Seq(Kinds) /\ held \in [Threads -> Seq(Kinds)]
        /\ held[t] # <<>> /\ held[t][n] = kind
        /\ held' = [held EXCEPT ![t] = a]
    BY DEF TypeOK, LastHeld
  <1>2. /\ a \in Seq(Kinds) /\ n \in Nat \ {0} /\ Len(a) = n - 1
        /\ DOMAIN held[t] = 1 .. n /\ DOMAIN a = 1 .. n - 1
        /\ \A i \in 1 .. n - 1 : a[i] = held[t][i]
    BY <1>1, PopSeq
  <1>3. MaxDepth \in Nat /\ n <= MaxDepth
    BY RwLockAssumption DEF DepthOK
  <1> HIDE DEF n, a
  <1>4. held' \in [Threads -> Seq(Kinds)] /\ held'[t] = a /\ \A u \in Threads \ {t} : held'[u] = held[u]
    BY <1>1, <1>2
  <1>5. \A u \in Threads : Len(held'[u]) <= Len(held[u]) /\ Len(held'[u]) \in Nat
    BY SMT, <1>1, <1>4, <1>2 DEF n
  <1>6. 1 .. n = (1 .. n - 1) \cup {n} /\ n \notin 1 .. n - 1 /\ n \in 1 .. MaxDepth
    BY SMT, <1>2, <1>3
  <1>7. Lockers(kind)' = Lockers(kind) \ {<<t, n>>} /\ <<t, n>> \in Lockers(kind)
    <2>1. <<t, n>> \notin Lockers(kind)'
      BY <1>2, <1>4, <1>6 DEF Lockers
    <2>2. <<t, n>> \in Lockers(kind)
      BY <1>1, <1>2, <1>4, <1>6 DEF Lockers
    <2>3. ASSUME NEW u \in Threads, NEW i \in 1 .. MaxDepth, <<u, i>> # <<t, n>>
          PROVE  <<u, i>> \in Lockers(kind)' <=> <<u, i>> \in Lockers(kind)
      BY <1>2, <1>4, <1>6, <2>3 DEF Lockers
    <2>4. /\ Lockers(kind)' \subseteq Threads \X (1 .. MaxDepth)
          /\ Lockers(kind) \subseteq Threads \X (1 .. MaxDepth)
      BY DEF Lockers
    <2> QED BY SMT, <2>1, <2>2, <2>3, <2>4
  <1>8. ASSUME NEW k \in Kinds \ {kind}
        PROVE  Lockers(k)' = Lockers(k)
    <2>1. <<t, n>> \notin Lockers(k) /\ <<t, n>> \notin Lockers(k)'
      BY <1>1, <1>2, <1>4, <1>6 DEF Lockers
    <2>2. ASSUME NEW u \in Threads, NEW i \in 1 .. MaxDepth, <<u, i>> # <<t, n>>
          PROVE  <<u, i>> \in Lockers(k)' <=> <<u, i>> \in Lockers(k)
      BY <1>2, <1>4, <1>6, <2>2 DEF Lockers
    <2>3. \A u \in Threads, i \in 1 .. MaxDepth :
             <<u, i>> \in Lockers(k)' <=> <<u, i>> \in Lockers(k)
      BY <2>1, <2>2
    <2>4. /\ Lockers(k)' \in SUBSET (Threads \X (1 .. MaxDepth))
          /\ Lockers(k) \in SUBSET (Threads \X (1 .. MaxDepth))
      BY DEF Lockers
    <2> QED BY <2>3, <2>4, SamePairs
  <1>9. Count(kind)' = Count(kind) - 1 /\ Count(kind) >= 1
    <2>1. Cardinality(Lockers(kind) \ {<<t, n>>}) = Cardinality(Lockers(kind)) - 1
      BY <1>7, LockersFinite, FS_RemoveElement
    <2>2. Cardinality(Lockers(kind)) # 0
      BY <1>7, LockersFinite, FS_EmptySet
    <2> QED BY SMT, <1>7, <2>1, <2>2, LockersFinite DEF Count
  <1>10. \A k \in Kinds \ {kind} : Count(k)' = Count(k)
    BY <1>8 DEF Count
  <1>11. Holds(t, kind) /\ \A u \in Threads, k \in Kinds : Holds(u, k)' => Holds(u, k)
    BY <1>1, <1>2, <1>4, <1>6 DEF Holds
  <1>12. ASSUME NEW u \in Threads, NEW k \in Kinds, u # t \/ k # kind
         PROVE  Holds(u, k) => Holds(u, k)'
    <2>1. CASE u # t
      BY <1>4, <2>1 DEF Holds
    <2>2. CASE u = t /\ k # kind
      BY <1>1, <1>2, <1>4, <1>6, <2>2 DEF Holds
    <2> QED BY <1>12, <2>1, <2>2
  <1> QED BY <1>4, <1>5, <1>9, <1>10, <1>11, <1>12

\* A locker in scope is counted.
LEMMA HoldsCounted ==
  ASSUME TypeOK, DepthOK, NEW t \in Threads, NEW kind, Holds(t, kind)
  PROVE  Count(kind) # 0
  <1>1. PICK i \in DOMAIN held[t] : held[t][i] = kind
    BY DEF Holds
  <1>2. held[t] \in Seq(Kinds) /\ Len(held[t]) <= MaxDepth
    BY DEF TypeOK, DepthOK
  <1>3. i \in 1 .. MaxDepth
    BY SMT, <1>1, <1>2, RwLockAssumption
  <1>4. <<t, i>> \in Lockers(kind)
    BY <1>1, <1>3 DEF Lockers
  <1> QED BY <1>4, LockersFinite, FS_EmptySet DEF Count

-----------------------------------------------------------------------------
(* HoldersMatch *)

LEMMA CountsAreNat == Count("read") \in Nat /\ Count("write") \in Nat
  BY LockersFinite

LEMMA WriterHolds ==
  ASSUME IInv, NEW t \in Threads, writer = t
  PROVE  state < 0
  <1>1. state \in Int /\ None # t /\ (state >= 0 => writer = None)
    BY SMT, RwLockAssumption DEF IInv, TypeOK, HoldersMatch
  <1> QED BY SMT, <1>1

LEMMA HoldersKept ==
  ASSUME HoldersMatch, UNCHANGED <<state, writer, held>>
  PROVE  HoldersMatch'
  <1>1. /\ Count("read")' = Count("read") /\ Count("write")' = Count("write")
        /\ \A t \in Threads : Holds(t, "write")' <=> Holds(t, "write")
    BY DEF Count, Lockers, Holds
  <1> QED BY <1>1 DEF HoldersMatch

LEMMA ReaderCounted ==
  ASSUME IInv, NEW t \in Threads, Len(held[t]) < MaxDepth, CanRead, TakeRead(t)
  PROVE  HoldersMatch' /\ held' \in [Threads -> Seq(Kinds)] /\ state' \in Int
  <1>1. /\ TypeOK /\ Push(t, "read") /\ "read" \in Kinds /\ "write" \in Kinds \ {"read"}
        /\ state' = state + 1 /\ state >= 0 /\ writer' = writer /\ state \in Int
    BY DEF IInv, TypeOK, TakeRead, CanRead, Kinds
  <1>2. /\ held' \in [Threads -> Seq(Kinds)]
        /\ Count("read")' = Count("read") + 1 /\ Count("write")' = Count("write")
    BY <1>1, PushCounts
  <1>3. state = Count("read") /\ Count("write") = 0 /\ writer = None
    BY SMT, <1>1 DEF IInv, HoldersMatch
  <1>4. state' > 0 /\ ~(state' < 0) /\ state' # 0 /\ state' \in Int
    BY SMT, <1>1
  <1> QED BY <1>1, <1>2, <1>3, <1>4 DEF HoldersMatch

LEMMA WriterCounted ==
  ASSUME IInv, NEW t \in Threads, Len(held[t]) < MaxDepth, Push(t, "write"), writer' = t,
         \/ state = 0 /\ state' = -1
         \/ writer = t /\ state' = state - 1
  PROVE  HoldersMatch' /\ held' \in [Threads -> Seq(Kinds)] /\ state' \in Int
  <1>1. /\ TypeOK /\ "write" \in Kinds /\ "read" \in Kinds \ {"write"} /\ state \in Int
        /\ state <= 0 /\ state' = state - 1
    <2>1. TypeOK /\ "write" \in Kinds /\ "read" \in Kinds \ {"write"} /\ state \in Int
      BY DEF IInv, TypeOK, Kinds
    <2>2. writer = t => state < 0
      BY WriterHolds
    <2> QED BY SMT, <2>1, <2>2
  <1>2. /\ held' \in [Threads -> Seq(Kinds)]
        /\ Count("write")' = Count("write") + 1 /\ Count("read")' = Count("read")
        /\ \A u \in Threads : Holds(u, "write")' => Holds(u, "write") \/ u = t
    BY <1>1, PushCounts
  <1>3. /\ state = -Count("write") /\ Count("read") = 0 /\ Count("write") \in Nat
    BY SMT, <1>1, CountsAreNat DEF IInv, HoldersMatch
  <1>4. \A u \in Threads : Holds(u, "write") => u = t
    <2>1. CASE state = 0
      BY <2>1, HoldsCounted DEF IInv, HoldersMatch
    <2>2. CASE writer = t
      BY <2>2, WriterHolds DEF IInv, HoldersMatch
    <2> QED BY <2>1, <2>2
  <1>5. state' < 0 /\ ~(state' > 0) /\ state' # 0 /\ state' \in Int /\ state' = -(Count("write") + 1)
    BY SMT, <1>1, <1>3
  <1> QED BY <1>2, <1>3, <1>4, <1>5 DEF HoldersMatch

\* The lock does not count the scopes that do not hold it.
LEMMA OthersNotCounted ==
  ASSUME IInv, NEW t \in Threads, UNCHANGED <<state, writer>>,
         NEW kind \in Kinds \ {"read", "write"},
         \/ Push(t, kind) /\ Len(held[t]) < MaxDepth
         \/ LastHeld(t, kind)
  PROVE  HoldersMatch' /\ held' \in [Threads -> Seq(Kinds)] /\ state' \in Int
  <1>1. /\ TypeOK /\ DepthOK /\ kind \in Kinds
        /\ "write" \in Kinds \ {kind} /\ "read" \in Kinds \ {kind}
        /\ state \in Int
    BY DEF IInv, TypeOK, Kinds
  <1>2. /\ held' \in [Threads -> Seq(Kinds)]
        /\ Count("write")' = Count("write") /\ Count("read")' = Count("read")
        /\ \A u \in Threads : Holds(u, "write")' => Holds(u, "write")
    <2>1. CASE Push(t, kind) /\ Len(held[t]) < MaxDepth
      BY <1>1, <2>1, PushCounts
    <2>2. CASE LastHeld(t, kind)
      BY <1>1, <2>2, PopCounts
    <2> QED BY <2>1, <2>2
  <1> QED BY <1>1, <1>2 DEF IInv, HoldersMatch

LEMMA ReaderLeaves ==
  ASSUME IInv, NEW t \in Threads, LeaveRead(t)
  PROVE  HoldersMatch' /\ held' \in [Threads -> Seq(Kinds)] /\ state' \in Nat /\ state > 0
  <1>1. /\ TypeOK /\ DepthOK /\ "read" \in Kinds /\ "write" \in Kinds \ {"read"}
        /\ state \in Int /\ LastHeld(t, "read") /\ state' = state - 1 /\ writer' = writer
    BY DEF IInv, TypeOK, Kinds, LeaveRead
  <1>2. /\ held' \in [Threads -> Seq(Kinds)]
        /\ Count("read") >= 1 /\ Count("read")' = Count("read") - 1
        /\ Count("write")' = Count("write")
    BY <1>1, PopCounts
  <1>3. /\ state > 0 /\ state = Count("read") /\ Count("write") = 0 /\ writer = None
    BY SMT, <1>1, <1>2 DEF IInv, HoldersMatch
  <1>4. state' \in Nat /\ ~(state' < 0)
    BY SMT, <1>1, <1>3
  <1> QED BY <1>1, <1>2, <1>3, <1>4 DEF HoldersMatch

LEMMA WriterLeaves ==
  ASSUME IInv, NEW t \in Threads, LeaveWrite(t)
  PROVE  /\ HoldersMatch' /\ held' \in [Threads -> Seq(Kinds)] /\ state' \in Int
         /\ state' <= 0 /\ state < 0
  <1>1. /\ TypeOK /\ DepthOK /\ "write" \in Kinds /\ "read" \in Kinds \ {"write"}
        /\ state \in Int /\ LastHeld(t, "write") /\ state' = state + 1
        /\ writer' = IF state' < 0 THEN writer ELSE None
    BY DEF IInv, TypeOK, Kinds, LeaveWrite
  <1>2. /\ held' \in [Threads -> Seq(Kinds)]
        /\ Count("write") >= 1 /\ Count("write")' = Count("write") - 1
        /\ Count("read")' = Count("read")
        /\ \A u \in Threads : Holds(u, "write")' => Holds(u, "write")
    BY <1>1, PopCounts
  <1>3. /\ state < 0 /\ state = -Count("write") /\ Count("read") = 0
        /\ \A u \in Threads : Holds(u, "write") => u = writer
    <2>1. state < 0
      BY SMT, <1>1, <1>2 DEF IInv, HoldersMatch
    <2> QED BY <2>1 DEF IInv, HoldersMatch
  <1>4. state' \in Int /\ ~(state' > 0) /\ state' = -(Count("write") - 1) /\ state' <= 0
    BY SMT, <1>1, <1>3, CountsAreNat
  <1>5. state' = 0 => Count("write") - 1 = 0 /\ ~(state' < 0)
    BY SMT, <1>1, <1>4, CountsAreNat
  <1> QED BY <1>1, <1>2, <1>3, <1>4, <1>5 DEF HoldersMatch

-----------------------------------------------------------------------------
(* SleepersMustWait, and the steps *)

\* Only a thread in a wait loop is in the wait set.
LEMMA NoSleeper ==
  ASSUME IInv, NEW t \in Threads, pc[t] \notin {"wait_read", "wait_write"}
  PROVE  t \notin waiters
  BY DEF IInv, SleepersMustWait

LEMMA SleepersKept ==
  ASSUME IInv, waiters' \subseteq waiters,
         \A u \in waiters' : pc'[u] = pc[u],
         waiters' # {} => (CanRead' => CanRead) /\ (CanWrite' => CanWrite)
  PROVE  SleepersMustWait' /\ waiters' \subseteq Threads
  <1>1. SleepersMustWait /\ waiters \subseteq Threads
    BY DEF IInv, TypeOK
  <1> HIDE DEF CanRead, CanWrite
  <1> QED BY <1>1 DEF SleepersMustWait

LEMMA LensAreNat ==
  ASSUME TypeOK, NEW t \in Threads
  PROVE  Len(held[t]) \in Nat
  <1>1. held[t] \in Seq(Kinds)
    BY DEF TypeOK
  <1> QED BY SMT, <1>1

\* A thread that does not touch the lock.
LEMMA OtherStep ==
  ASSUME IInv, NEW t \in Threads, UNCHANGED lock, pc[t] \notin {"wait_read", "wait_write"},
         NEW l \in {"vm"} \cup Wanting, pc' = [pc EXCEPT ![t] = l],
         l \in Wanting => Len(held[t]) < MaxDepth
  PROVE  IInv'
  <1>1. TypeOK /\ DepthOK /\ HoldersMatch /\ t \notin waiters
    BY NoSleeper DEF IInv
  <1>2. UNCHANGED <<state, writer, waiters, held>>
    BY DEF lock
  <1>3. l \in PCs /\ (l \in Asking \cup Wanting => Len(held[t]) < MaxDepth)
    BY DEF PCs, Asking
  <1>4. TypeOK'
    BY <1>1, <1>2, <1>3 DEF TypeOK
  <1>5. pc'[t] = l /\ \A u \in Threads \ {t} : pc'[u] = pc[u]
    BY <1>1, <1>3 DEF TypeOK
  <1>6. DepthOK'
    BY <1>1, <1>2, <1>3, <1>5 DEF DepthOK
  <1>7. HoldersMatch'
    BY <1>1, <1>2, HoldersKept
  <1>8. SleepersMustWait'
    <2>1. \A u \in waiters' : pc'[u] = pc[u]
      BY <1>1, <1>2 DEF TypeOK
    <2>2. (CanRead' => CanRead) /\ (CanWrite' => CanWrite)
      BY <1>2 DEF CanRead, CanWrite
    <2> QED BY <1>2, <2>1, <2>2, SleepersKept
  <1> QED BY <1>4, <1>6, <1>7, <1>8 DEF IInv

\* A thread that has to wait, and goes to sleep or leaves for the blocked state.
LEMMA WaitStep ==
  ASSUME IInv, NEW t \in Threads, NEW kind \in {"read", "write"},
         Len(held[t]) < MaxDepth,
         kind = "read" => ~CanRead, kind = "write" => ~CanWrite,
         \/ Wait(t) /\ Goto(t, WaitFor[kind])
         \/ UNCHANGED lock /\ Goto(t, BlockFor[kind]) /\ t \notin waiters
  PROVE  IInv'
  <1>1. TypeOK /\ DepthOK /\ HoldersMatch /\ SleepersMustWait
    BY DEF IInv
  <1>2. UNCHANGED <<state, writer, held>>
    BY DEF lock, Wait
  <1>3. PICK l \in Asking :
          /\ pc' = [pc EXCEPT ![t] = l]
          /\ \/ waiters' = waiters \cup {t} /\ l = WaitFor[kind]
             \/ waiters' = waiters /\ t \notin waiters
    <2>1. WaitFor[kind] \in Asking /\ BlockFor[kind] \in Asking
      BY SMT DEF WaitFor, BlockFor, Asking
    <2>2. CASE Wait(t) /\ Goto(t, WaitFor[kind])
      BY <2>1, <2>2 DEF Wait, Goto
    <2>3. CASE UNCHANGED lock /\ Goto(t, BlockFor[kind]) /\ t \notin waiters
      BY <2>1, <2>3 DEF lock, Goto
    <2> QED BY <2>2, <2>3
  <1>4. l \in PCs
    BY DEF PCs
  <1>5. TypeOK'
    BY <1>1, <1>2, <1>3, <1>4 DEF TypeOK
  <1>6. \A u \in Threads \ {t} : pc'[u] = pc[u]
    BY <1>1, <1>3 DEF TypeOK
  <1>7. DepthOK'
    BY <1>1, <1>2, <1>6 DEF DepthOK
  <1>8. HoldersMatch'
    BY <1>1, <1>2, HoldersKept
  <1>9. (CanRead' <=> CanRead) /\ (CanWrite' <=> CanWrite)
    BY <1>2 DEF CanRead, CanWrite
  <1>10. ASSUME NEW u \in waiters'
         PROVE  (pc'[u] = "wait_read" /\ ~CanRead') \/ (pc'[u] = "wait_write" /\ ~CanWrite')
    <2>1. CASE u # t
      <3>1. u \in waiters /\ u \in Threads
        BY <1>1, <1>3, <2>1 DEF TypeOK
      <3> HIDE DEF CanRead, CanWrite
      <3> QED BY <1>1, <1>6, <1>9, <2>1, <3>1 DEF SleepersMustWait
    <2>2. CASE u = t
      <3>1. pc'[t] = WaitFor[kind]
        BY <1>1, <1>3, <2>2 DEF TypeOK
      <3>2. pc'[t] = IF kind = "read" THEN "wait_read" ELSE "wait_write"
        BY SMT, <3>1 DEF WaitFor
      <3> HIDE DEF CanRead, CanWrite
      <3> QED BY <1>9, <2>2, <3>2
    <2> QED BY <2>1, <2>2
  <1> QED BY <1>5, <1>7, <1>8, <1>10 DEF IInv, SleepersMustWait

\* A thread with a new locker, which runs on or still has to become unblocked.
LEMMA TakeStep ==
  ASSUME IInv, NEW t \in Threads, Len(held[t]) < MaxDepth, t \notin waiters,
         NEW kind \in Kinds, Push(t, kind),
         HoldersMatch', held' \in [Threads -> Seq(Kinds)], state' \in Int,
         writer' \in {writer, t}, waiters' = waiters,
         NEW l \in {"vm", "got"}, pc' = [pc EXCEPT ![t] = l],
         (CanRead' => CanRead) /\ (CanWrite' => CanWrite)
  PROVE  IInv'
  <1>1. TypeOK /\ DepthOK
    BY DEF IInv
  <1>2. l \in PCs /\ l \notin Asking \cup Wanting
    BY DEF PCs, Asking, Wanting
  <1>3. TypeOK'
    BY <1>1, <1>2 DEF TypeOK
  <1>4. /\ pc'[t] = l
        /\ \A u \in Threads \ {t} : pc'[u] = pc[u]
    BY <1>1 DEF TypeOK
  <1>5. \A u \in Threads : Len(held'[u]) = IF u = t THEN Len(held[u]) + 1 ELSE Len(held[u])
    BY <1>1, PushCounts
  <1>6. Len(held'[t]) <= MaxDepth
    <2>1. Len(held[t]) \in Nat /\ MaxDepth \in Nat /\ Len(held'[t]) = Len(held[t]) + 1
      BY <1>1, <1>5, LensAreNat, RwLockAssumption
    <2> QED BY SMT, <2>1
  <1>7. DepthOK'
    BY <1>1, <1>2, <1>4, <1>5, <1>6 DEF DepthOK
  <1>8. SleepersMustWait'
    <2>1. \A u \in waiters' : pc'[u] = pc[u]
      BY <1>1, <1>4 DEF TypeOK
    <2> QED BY <2>1, SleepersKept
  <1> QED BY <1>3, <1>7, <1>8 DEF IInv

\* A locker that goes out of scope.
LEMMA LeaveStep ==
  ASSUME IInv, NEW t \in Threads, NEW kind \in Kinds, LastHeld(t, kind),
         HoldersMatch', held' \in [Threads -> Seq(Kinds)], state' \in Int,
         writer' \in {writer, None}, UNCHANGED pc, waiters' \subseteq waiters,
         waiters' # {} => (CanRead' => CanRead) /\ (CanWrite' => CanWrite)
  PROVE  IInv'
  <1>1. TypeOK /\ DepthOK
    BY DEF IInv
  <1>2. SleepersMustWait' /\ waiters' \subseteq Threads
    BY SleepersKept
  <1>3. TypeOK'
    BY <1>1, <1>2 DEF TypeOK
  <1>4. \A u \in Threads : Len(held'[u]) <= Len(held[u]) /\ Len(held'[u]) \in Nat
    BY <1>1, PopCounts
  <1>5. DepthOK'
    <2> SUFFICES ASSUME NEW u \in Threads
                 PROVE  /\ Len(held'[u]) <= MaxDepth
                        /\ pc'[u] \in Asking \cup Wanting => Len(held'[u]) < MaxDepth
      BY DEF DepthOK
    <2>1. /\ Len(held[u]) \in Nat /\ MaxDepth \in Nat /\ Len(held[u]) <= MaxDepth
          /\ pc[u] \in Asking \cup Wanting => Len(held[u]) < MaxDepth
      BY <1>1, LensAreNat, RwLockAssumption DEF DepthOK
    <2> QED BY SMT, <1>4, <2>1
  <1> QED BY <1>2, <1>3, <1>5 DEF IInv

LEMMA EnterReadInv ==
  ASSUME IInv, NEW t \in Threads, EnterRead(t)
  PROVE  IInv'
  <1>1. /\ pc[t] = "vm" /\ Len(held[t]) < MaxDepth
        /\ pc \in [Threads -> PCs] /\ state \in Int
    BY DEF EnterRead, MayEnter, IInv, TypeOK
  <1>2. t \notin waiters /\ "read" \in Kinds /\ "none" \in Kinds \ {"read", "write"}
    BY <1>1, NoSleeper DEF Kinds
  <1>3. UNCHANGED pc => pc' = [pc EXCEPT ![t] = "vm"]
    BY <1>1
  <1>4. CASE writer = t /\ Push(t, "none") /\ UNCHANGED <<state, writer, waiters, pc>>
    <2>1. HoldersMatch' /\ held' \in [Threads -> Seq(Kinds)] /\ state' \in Int
      BY <1>1, <1>2, <1>4, OthersNotCounted
    <2>2. (CanRead' => CanRead) /\ (CanWrite' => CanWrite)
      BY <1>4 DEF CanRead, CanWrite
    <2> QED BY <1>1, <1>2, <1>3, <1>4, <2>1, <2>2, TakeStep
  <1>5. CASE CanRead /\ TakeRead(t) /\ UNCHANGED pc
    <2>1. HoldersMatch' /\ held' \in [Threads -> Seq(Kinds)] /\ state' \in Int
      BY <1>1, <1>5, ReaderCounted
    <2>2. (CanRead' => CanRead) /\ (CanWrite' => CanWrite)
      BY SMT, <1>1, <1>5 DEF CanRead, CanWrite, TakeRead
    <2> QED BY <1>1, <1>2, <1>3, <1>5, <2>1, <2>2, TakeStep DEF TakeRead
  <1>6. CASE ~CanRead /\ Blocks(t, "read")
    BY <1>1, <1>2, <1>6, WaitStep DEF Blocks
  <1> QED BY <1>4, <1>5, <1>6 DEF EnterRead

LEMMA EnterWriteInv ==
  ASSUME IInv, NEW t \in Threads, EnterWrite(t)
  PROVE  IInv'
  <1>1. /\ pc[t] = "vm" /\ Len(held[t]) < MaxDepth
        /\ pc \in [Threads -> PCs] /\ state \in Int
    BY DEF EnterWrite, MayEnter, IInv, TypeOK
  <1>2. t \notin waiters /\ "write" \in Kinds
    BY <1>1, NoSleeper DEF Kinds
  <1>3. UNCHANGED pc => pc' = [pc EXCEPT ![t] = "vm"]
    BY <1>1
  <1>4. CASE writer = t /\ state' = state - 1 /\ Push(t, "write") /\ UNCHANGED <<writer, waiters, pc>>
    <2>1. HoldersMatch' /\ held' \in [Threads -> Seq(Kinds)] /\ state' \in Int
      BY <1>1, <1>4, WriterCounted
    <2>2. state < 0
      BY <1>4, WriterHolds
    <2>3. (CanRead' => CanRead) /\ (CanWrite' => CanWrite)
      BY SMT, <1>1, <1>4, <2>2 DEF CanRead, CanWrite
    <2> QED BY <1>1, <1>2, <1>3, <1>4, <2>1, <2>3, TakeStep
  <1>5. CASE CanWrite /\ TakeWrite(t) /\ UNCHANGED pc
    <2>1. HoldersMatch' /\ held' \in [Threads -> Seq(Kinds)] /\ state' \in Int
      BY <1>1, <1>5, WriterCounted DEF CanWrite, TakeWrite
    <2>2. (CanRead' => CanRead) /\ (CanWrite' => CanWrite)
      BY SMT, <1>1, <1>5 DEF CanRead, CanWrite, TakeWrite
    <2> QED BY <1>1, <1>2, <1>3, <1>5, <2>1, <2>2, TakeStep DEF TakeWrite
  <1>6. CASE ~CanWrite /\ Blocks(t, "write")
    BY <1>1, <1>2, <1>6, WaitStep DEF Blocks
  <1> QED BY <1>4, <1>5, <1>6 DEF EnterWrite

\* A second attempt is made by a thread that is on its way to the lock, awake.
LEMMA LooksWhere ==
  ASSUME IInv, NEW t \in Threads, NEW kind \in {"read", "write"}, Looks(t, kind)
  PROVE  t \notin waiters /\ Len(held[t]) < MaxDepth
  <1>1. pc[t] \in Asking
    BY SMT DEF Looks, BlockFor, WaitFor, Asking
  <1>2. pc[t] = BlockFor[kind] => pc[t] \notin {"wait_read", "wait_write"}
    BY SMT DEF BlockFor
  <1>3. t \notin waiters
    BY <1>2, NoSleeper DEF Looks
  <1> QED BY <1>1, <1>3 DEF IInv, DepthOK

LEMMA BlockedReadInv ==
  ASSUME IInv, NEW t \in Threads, BlockedRead(t)
  PROVE  IInv'
  <1>1. t \notin waiters /\ Len(held[t]) < MaxDepth /\ state \in Int /\ "read" \in Kinds
    BY LooksWhere DEF BlockedRead, IInv, TypeOK, Kinds
  <1>2. CASE CanRead
    <2>1. TakeRead(t) /\ Got(t)
      BY <1>2 DEF BlockedRead
    <2>2. HoldersMatch' /\ held' \in [Threads -> Seq(Kinds)] /\ state' \in Int
      BY <1>1, <1>2, <2>1, ReaderCounted
    <2>3. (CanRead' => CanRead) /\ (CanWrite' => CanWrite)
      BY SMT, <1>1, <1>2, <2>1 DEF CanRead, CanWrite, TakeRead
    <2>4. PICK l \in {"vm", "got"} : pc' = [pc EXCEPT ![t] = l]
      BY <2>1 DEF Got, Goto
    <2> QED BY <1>1, <2>1, <2>2, <2>3, <2>4, TakeStep DEF TakeRead
  <1>3. CASE ~CanRead
    <2>1. Wait(t) /\ Goto(t, WaitFor["read"])
      BY SMT, <1>3 DEF BlockedRead, WaitFor
    <2> QED BY <1>1, <1>3, <2>1, WaitStep
  <1> QED BY <1>2, <1>3

LEMMA BlockedWriteInv ==
  ASSUME IInv, NEW t \in Threads, BlockedWrite(t)
  PROVE  IInv'
  <1>1. t \notin waiters /\ Len(held[t]) < MaxDepth /\ state \in Int /\ "write" \in Kinds
    BY LooksWhere DEF BlockedWrite, IInv, TypeOK, Kinds
  <1>2. CASE CanWrite
    <2>1. TakeWrite(t) /\ Got(t)
      BY <1>2 DEF BlockedWrite
    <2>2. HoldersMatch' /\ held' \in [Threads -> Seq(Kinds)] /\ state' \in Int
      BY <1>1, <1>2, <2>1, WriterCounted DEF CanWrite, TakeWrite
    <2>3. (CanRead' => CanRead) /\ (CanWrite' => CanWrite)
      BY SMT, <1>1, <1>2, <2>1 DEF CanRead, CanWrite, TakeWrite
    <2>4. PICK l \in {"vm", "got"} : pc' = [pc EXCEPT ![t] = l]
      BY <2>1 DEF Got, Goto
    <2> QED BY <1>1, <2>1, <2>2, <2>3, <2>4, TakeStep DEF TakeWrite
  <1>3. CASE ~CanWrite
    <2>1. Wait(t) /\ Goto(t, WaitFor["write"])
      BY SMT, <1>3 DEF BlockedWrite, WaitFor
    <2> QED BY <1>1, <1>3, <2>1, WaitStep
  <1> QED BY <1>2, <1>3

LEMMA LeavesInv ==
  ASSUME IInv, NEW t \in Threads, Leaves(t)
  PROVE  IInv'
  <1>1. /\ state \in Int /\ "read" \in Kinds /\ "write" \in Kinds
        /\ "none" \in Kinds \ {"read", "write"} /\ Levels \subseteq Kinds \ {"read", "write"}
    BY DEF IInv, TypeOK, Kinds, Levels
  <1>2. CASE LeaveRead(t)
    <2>1. HoldersMatch' /\ held' \in [Threads -> Seq(Kinds)] /\ state' \in Nat /\ state > 0
      BY <1>2, ReaderLeaves
    <2>2. waiters' = IF state' = 0 THEN {} ELSE waiters
      BY <1>2 DEF LeaveRead, NotifyIfFree
    <2>3. state' \in Int /\ CanRead /\ (CanWrite' => waiters' = {})
      BY SMT, <1>1, <2>1, <2>2 DEF CanRead, CanWrite
    <2> HIDE DEF CanRead, CanWrite
    <2> QED BY <1>1, <1>2, <2>1, <2>2, <2>3, LeaveStep DEF LeaveRead
  <1>3. CASE LeaveWrite(t)
    <2>1. /\ HoldersMatch' /\ held' \in [Threads -> Seq(Kinds)] /\ state' \in Int
          /\ state' <= 0 /\ state < 0
      BY <1>3, WriterLeaves
    <2>2. waiters' = IF state' = 0 THEN {} ELSE waiters
      BY <1>3 DEF LeaveWrite, NotifyIfFree
    <2>3. (CanRead' => waiters' = {}) /\ (CanWrite' => waiters' = {})
      BY SMT, <1>1, <2>1, <2>2 DEF CanRead, CanWrite
    <2> HIDE DEF CanRead, CanWrite
    <2> QED BY <1>1, <1>3, <2>1, <2>2, <2>3, LeaveStep DEF LeaveWrite
  <1>4. CASE LeaveNone(t)
    <2>1. HoldersMatch' /\ held' \in [Threads -> Seq(Kinds)] /\ state' \in Int
      BY <1>1, <1>4, OthersNotCounted DEF LeaveNone
    <2>2. (CanRead' => CanRead) /\ (CanWrite' => CanWrite)
      BY <1>4 DEF CanRead, CanWrite, LeaveNone
    <2> QED BY <1>1, <1>4, <2>1, <2>2, LeaveStep DEF LeaveNone
  <1>5. ASSUME NEW l \in Levels, EndSafepoint(t, l)
        PROVE  IInv'
    <2>1. /\ l \in Kinds \ {"read", "write"} /\ LastHeld(t, l)
          /\ UNCHANGED <<state, writer, waiters, pc>>
      BY <1>1, <1>5 DEF EndSafepoint
    <2>2. HoldersMatch' /\ held' \in [Threads -> Seq(Kinds)] /\ state' \in Int
      BY <2>1, OthersNotCounted
    <2>3. (CanRead' => CanRead) /\ (CanWrite' => CanWrite)
      BY <2>1 DEF CanRead, CanWrite
    <2> QED BY <2>1, <2>2, <2>3, LeaveStep
  <1> QED BY <1>2, <1>3, <1>4, <1>5 DEF Leaves

\* A safepoint operation that begins, or begins inside another one.
LEMMA OperationInv ==
  ASSUME IInv, NEW t \in Threads, NEW level \in Levels,
         BeginSafepoint(t, level) \/ NestedSafepoint(t, level)
  PROVE  IInv'
  <1>1. /\ level \in Kinds \ {"read", "write"} /\ pc \in [Threads -> PCs]
        /\ WantFor[level] \in Wanting /\ TypeOK /\ DepthOK
    BY SMT DEF IInv, TypeOK, Kinds, Levels, WantFor, Wanting
  <1>2. /\ UNCHANGED <<state, writer, waiters>> /\ Push(t, level)
        /\ pc' = [pc EXCEPT ![t] = "vm"]
        /\ pc[t] \notin {"wait_read", "wait_write"} /\ Len(held[t]) < MaxDepth
    <2>1. CASE BeginSafepoint(t, level)
      <3>1. pc[t] \in Wanting
        BY <1>1, <2>1 DEF BeginSafepoint
      <3>2. Len(held[t]) < MaxDepth
        BY <1>1, <3>1 DEF DepthOK
      <3>3. pc[t] \notin {"wait_read", "wait_write"}
        BY <3>1 DEF Wanting
      <3> QED BY <2>1, <3>2, <3>3 DEF BeginSafepoint, Goto
    <2>2. CASE NestedSafepoint(t, level)
      <3>1. pc[t] = "vm" /\ pc' = pc
        BY <2>2 DEF NestedSafepoint
      <3>2. pc' = [pc EXCEPT ![t] = "vm"]
        BY <1>1, <3>1
      <3> QED BY <2>2, <3>1, <3>2 DEF NestedSafepoint
    <2> QED BY <2>1, <2>2
  <1>3. HoldersMatch' /\ held' \in [Threads -> Seq(Kinds)] /\ state' \in Int
    BY <1>1, <1>2, OthersNotCounted
  <1>4. (CanRead' => CanRead) /\ (CanWrite' => CanWrite) /\ t \notin waiters
    BY <1>2, NoSleeper DEF CanRead, CanWrite
  <1> QED BY <1>1, <1>2, <1>3, <1>4, TakeStep

LEMMA NextInv ==
  ASSUME IInv, NEW t \in Threads,
         \/ EnterRead(t) \/ EnterWrite(t) \/ Leaves(t) \/ Step(t)
         \/ \E l \in Levels : WantSafepoint(t, l) \/ NestedSafepoint(t, l)
  PROVE  IInv'
  <1>1. CASE EnterRead(t)
    BY <1>1, EnterReadInv
  <1>2. CASE EnterWrite(t)
    BY <1>2, EnterWriteInv
  <1>3. ASSUME NEW l \in Levels, WantSafepoint(t, l)
        PROVE  IInv'
    <2>1. WantFor[l] \in Wanting
      BY SMT DEF WantFor, Wanting, Levels
    <2> QED BY <1>3, <2>1, OtherStep DEF WantSafepoint, Goto
  <1>4. CASE Leaves(t)
    BY <1>4, LeavesInv
  <1>5. CASE BlockedRead(t)
    BY <1>5, BlockedReadInv
  <1>6. CASE BlockedWrite(t)
    BY <1>6, BlockedWriteInv
  <1>7. CASE Unblock(t)
    <2>1. "vm" \notin Wanting
      BY DEF Wanting
    <2> QED BY <1>7, <2>1, OtherStep DEF Unblock, Goto
  <1>8. ASSUME NEW l \in Levels, BeginSafepoint(t, l) \/ NestedSafepoint(t, l)
        PROVE  IInv'
    BY <1>8, OperationInv
  <1> QED BY <1>1, <1>2, <1>3, <1>4, <1>5, <1>6, <1>7, <1>8 DEF Step

LEMMA InitInv == Init => IInv
  <1> SUFFICES ASSUME Init PROVE IInv
    OBVIOUS
  <1>1. TypeOK /\ \A t \in Threads : held[t] = <<>> /\ pc[t] = "vm"
    BY SMT DEF Init, TypeOK, Kinds, PCs, Asking, Wanting
  <1>2. DepthOK
    BY SMT, <1>1, RwLockAssumption DEF DepthOK, Asking, Wanting
  <1>3. ASSUME NEW kind PROVE Count(kind) = 0
    <2>1. \A t \in Threads : DOMAIN held[t] = {}
      BY SMT, <1>1
    <2>2. Lockers(kind) = {}
      BY <2>1, SMT DEF Lockers
    <2> QED BY <2>2, FS_EmptySet DEF Count
  <1>4. HoldersMatch
    BY SMT, <1>3 DEF Init, HoldersMatch
  <1>5. SleepersMustWait
    BY DEF Init, SleepersMustWait
  <1> QED BY <1>1, <1>2, <1>4, <1>5 DEF IInv

\* Every step of every thread keeps the inductive invariant.
THEOREM LockInvariant == Spec => []IInv
  <1>1. IInv /\ [Next]_vars => IInv'
    <2> SUFFICES ASSUME IInv, [Next]_vars PROVE IInv'
      OBVIOUS
    <2>1. CASE Next
      BY <2>1, NextInv DEF Next
    <2>2. CASE UNCHANGED vars
      <3>1. UNCHANGED <<state, writer, waiters, held, pc>>
        BY <2>2 DEF vars, lock
      <3>2. HoldersMatch'
        BY <3>1, HoldersKept DEF IInv
      <3> QED BY <3>1, <3>2
              DEF IInv, TypeOK, DepthOK, SleepersMustWait, CanRead, CanWrite
    <2> QED BY <2>1, <2>2
  <1> QED BY <1>1, InitInv, PTL DEF Spec

\* state_ and writer_id_ always describe the lockers in scope: a writer, however
\* nested, is alone, a read locker inside a write locker is not counted, and a
\* lock nobody holds has no writer (EnterRead to LeaveWrite of lockers.cc).
THEOREM HoldersAlwaysMatch == Spec => []HoldersMatch
  <1>1. IInv => HoldersMatch
    BY DEF IInv
  <1> QED BY <1>1, LockInvariant, PTL

\* No wakeup is lost: a thread in the wait set of monitor_ could not have the lock,
\* although NotifyAll is called only when state_ becomes zero.
THEOREM SleepersAlwaysMustWait == Spec => []SleepersMustWait
  <1>1. IInv => SleepersMustWait
    BY DEF IInv
  <1> QED BY <1>1, LockInvariant, PTL

\* A write locker in scope (EnterWrite returned) keeps out every reader and every
\* other writer.
WritersExclude ==
  \A t, u \in Threads :
    Holds(t, "write") => ~Holds(u, "read") /\ (Holds(u, "write") => u = t)

\* What the lockers are for: while a SafepointWriteRwLocker is in scope nobody else
\* has the lock, and nobody, its own thread included, has it for reading.
THEOREM WritersAlwaysExclude == Spec => []WritersExclude
  <1>1. IInv => WritersExclude
    <2> SUFFICES ASSUME IInv, NEW t \in Threads, NEW u \in Threads, Holds(t, "write")
                 PROVE  ~Holds(u, "read") /\ (Holds(u, "write") => u = t)
      BY DEF WritersExclude
    <2>1. TypeOK /\ DepthOK /\ HoldersMatch /\ state \in Int
      BY DEF IInv, TypeOK
    <2>2. Count("write") # 0
      BY <2>1, HoldsCounted
    <2>3. state < 0
      BY SMT, <2>1, <2>2 DEF HoldersMatch
    <2>4. Count("read") = 0 /\ t = writer /\ (Holds(u, "write") => u = writer)
      BY <2>1, <2>3 DEF HoldersMatch
    <2> QED BY <2>1, <2>4, HoldsCounted
  <1> QED BY <1>1, LockInvariant, PTL

-----------------------------------------------------------------------------
(* Safepoint operations and the lock *)

Locks(t) == Holds(t, "read") \/ Holds(t, "write")
Owns(t) == Holds(t, "gc") \/ Holds(t, "reload")

\* The owner is the thread with an operation in scope; who waits for the lock, or for
\* a reload, does not hold the lock; an owner waits for the lock only in a reload,
\* and the threads that a reload has stopped are at the places that take part.
OwnerOK ==
  /\ safepoint \in Attached \cup {None}
  /\ \A t \in Threads : Owns(t) <=> safepoint = t
  /\ \A t \in Threads : pc[t] \in Asking \cup {"want_reload"} => ~Locks(t)
  /\ \A t \in Threads : pc[t] \in Wanting => t \in Attached /\ safepoint # t
  /\ \A t \in Threads : safepoint = t /\ pc[t] \in Asking => Holds(t, "reload")
  /\ \A t \in Threads : Holds(t, "reload") =>
       \A u \in Attached \ {t} : ~Locks(u) /\ pc[u] \in {"vm", "want_reload"}

\* What a step of t has to keep of OwnerOK.
LEMMA OwnerStep ==
  ASSUME OwnerOK, NEW t \in Threads,
         \A u \in Threads \ {t} :
           /\ pc'[u] = pc[u] /\ (safepoint' = u <=> safepoint = u)
           /\ \A k \in Kinds : Holds(u, k)' <=> Holds(u, k),
         safepoint' \in Attached \cup {None}, Owns(t)' <=> safepoint' = t,
         pc'[t] \in Asking \cup {"want_reload"} => ~Locks(t)',
         pc'[t] \in Wanting => t \in Attached /\ safepoint' # t,
         safepoint' = t /\ pc'[t] \in Asking => Holds(t, "reload")',
         Holds(t, "reload")' =>
           \A u \in Attached \ {t} : ~Locks(u) /\ pc[u] \in {"vm", "want_reload"},
         t \in Attached => \A u \in Threads \ {t} : ~Holds(u, "reload")
  PROVE  OwnerOK'
  <1>1. /\ \A u \in Threads \ {t} : (Locks(u)' <=> Locks(u)) /\ (Owns(u)' <=> Owns(u))
        /\ \A u \in Threads \ {t} : Holds(u, "reload")' <=> Holds(u, "reload")
    BY DEF Locks, Owns, Kinds
  <1> HIDE DEF Locks, Owns, Holds
  <1>2. ASSUME NEW u \in Threads PROVE Owns(u)' <=> safepoint' = u
    <2>1. Owns(u) <=> safepoint = u
      BY DEF OwnerOK
    <2>2. CASE u # t
      <3>1. Owns(u)' <=> Owns(u)
        BY <1>1, <2>2
      <3>2. safepoint' = u <=> safepoint = u
        BY <2>2
      <3> QED BY <2>1, <3>1, <3>2
    <2> QED BY <2>2
  <1>3. \A u \in Threads : pc'[u] \in Asking \cup {"want_reload"} => ~Locks(u)'
    BY <1>1 DEF OwnerOK
  <1>4. \A u \in Threads : pc'[u] \in Wanting => u \in Attached /\ safepoint' # u
    BY <1>1 DEF OwnerOK
  <1>5. \A u \in Threads : safepoint' = u /\ pc'[u] \in Asking => Holds(u, "reload")'
    BY <1>1 DEF OwnerOK
  <1>6. ASSUME NEW u \in Threads, NEW v \in Attached \ {u}, Holds(u, "reload")'
        PROVE  ~Locks(v)' /\ pc'[v] \in {"vm", "want_reload"}
    <2>1. v \in Threads
      BY DEF Threads
    <2>2. CASE u = t
      BY <1>1, <1>6, <2>1, <2>2
    <2>3. CASE u # t
      <3>1. Holds(u, "reload") /\ v # t
        BY <1>1, <1>6, <2>3
      <3> QED BY <1>1, <2>1, <3>1 DEF OwnerOK
    <2> QED BY <2>2, <2>3
  <1> QED BY <1>2, <1>3, <1>4, <1>5, <1>6 DEF OwnerOK

\* An attached thread that takes a step is not stopped by a reload.
LEMMA NotReloaded ==
  ASSUME OwnerOK, NEW t \in Attached,
         safepoint \in {None, t} \/ pc[t] \notin {"vm", "want_reload"}
  PROVE  \A u \in Threads \ {t} : ~Holds(u, "reload")
  <1>1. ASSUME NEW u \in Threads \ {t}, Holds(u, "reload") PROVE FALSE
    <2>1. pc[t] \in {"vm", "want_reload"}
      BY <1>1 DEF OwnerOK
    <2>2. safepoint = u /\ u # None
      BY <1>1, RwLockAssumption DEF OwnerOK, Owns
    <2> QED BY <1>1, <2>1, <2>2
  <1> QED BY <1>1

\* A thread goes somewhere else and keeps its scopes.
LEMMA OwnerGoes ==
  ASSUME OwnerOK, TypeOK, NEW t \in Threads, UNCHANGED <<held, safepoint>>,
         NEW l, pc' = [pc EXCEPT ![t] = l],
         l \in Asking \cup {"want_reload"} => ~Locks(t),
         l \in Wanting => t \in Attached /\ safepoint = None,
         safepoint = t /\ l \in Asking => Holds(t, "reload"),
         t \in Attached => safepoint \in {None, t} \/ pc[t] \notin {"vm", "want_reload"}
  PROVE  OwnerOK'
  <1>1. pc'[t] = l /\ \A u \in Threads \ {t} : pc'[u] = pc[u]
    BY DEF TypeOK
  <1>2. \A u \in Threads, k \in Kinds : Holds(u, k)' <=> Holds(u, k)
    BY DEF Holds
  <1>3. /\ Locks(t)' <=> Locks(t)
        /\ Owns(t)' <=> Owns(t)
        /\ Holds(t, "reload")' <=> Holds(t, "reload")
    BY <1>2 DEF Locks, Owns, Kinds
  <1>4. t \in Attached => \A u \in Threads \ {t} : ~Holds(u, "reload")
    BY NotReloaded
  <1>5. t # None
    BY RwLockAssumption
  <1> HIDE DEF Locks, Owns, Holds
  <1>6. /\ safepoint' \in Attached \cup {None} /\ (Owns(t)' <=> safepoint' = t)
        /\ Holds(t, "reload")' =>
             \A u \in Attached \ {t} : ~Locks(u) /\ pc[u] \in {"vm", "want_reload"}
    BY <1>3 DEF OwnerOK
  <1>7. \A u \in Threads \ {t} :
           /\ pc'[u] = pc[u] /\ (safepoint' = u <=> safepoint = u)
           /\ \A k \in Kinds : Holds(u, k)' <=> Holds(u, k)
    BY <1>1, <1>2
  <1> QED BY <1>1, <1>3, <1>4, <1>5, <1>6, <1>7, OwnerStep

\* A locker comes into scope or goes out of scope, and its thread runs on or still has
\* to become unblocked.
LEMMA OwnerLocks ==
  ASSUME OwnerOK, NEW t \in Threads, UNCHANGED safepoint,
         \A u \in Threads \ {t} : pc'[u] = pc[u], pc'[t] \in {"vm", "got"},
         NEW kind \in {"read", "write", "none"},
         \A u \in Threads, k \in Kinds :
           u # t \/ k # kind => (Holds(u, k)' <=> Holds(u, k)),
         t \in Attached => safepoint \in {None, t} \/ pc[t] \notin {"vm", "want_reload"}
  PROVE  OwnerOK'
  <1>1. /\ Owns(t)' <=> Owns(t)
        /\ Holds(t, "reload")' <=> Holds(t, "reload")
    BY DEF Owns, Kinds
  <1>2. pc'[t] \notin Asking \cup {"want_reload"} \cup Wanting
    BY DEF Asking, Wanting
  <1>3. t \in Attached => \A u \in Threads \ {t} : ~Holds(u, "reload")
    BY NotReloaded
  <1> HIDE DEF Locks, Owns, Holds
  <1>4. /\ safepoint' \in Attached \cup {None} /\ (Owns(t)' <=> safepoint' = t)
        /\ Holds(t, "reload")' =>
             \A u \in Attached \ {t} : ~Locks(u) /\ pc[u] \in {"vm", "want_reload"}
    BY <1>1 DEF OwnerOK
  <1>5. \A u \in Threads \ {t} :
           /\ pc'[u] = pc[u] /\ (safepoint' = u <=> safepoint = u)
           /\ \A k \in Kinds : Holds(u, k)' <=> Holds(u, k)
    OBVIOUS
  <1> QED BY <1>2, <1>3, <1>4, <1>5, OwnerStep

LEMMA OwnerPush ==
  ASSUME IInv, OwnerOK, NEW t \in Threads, Len(held[t]) < MaxDepth, UNCHANGED safepoint,
         NEW kind \in {"read", "write", "none"}, Push(t, kind),
         NEW l \in {"vm", "got"}, pc' = [pc EXCEPT ![t] = l],
         t \in Attached => safepoint \in {None, t} \/ pc[t] \notin {"vm", "want_reload"}
  PROVE  OwnerOK'
  <1>1. TypeOK /\ kind \in Kinds
    BY DEF IInv, Kinds
  <1>2. pc'[t] = l /\ \A u \in Threads \ {t} : pc'[u] = pc[u]
    BY <1>1 DEF TypeOK
  <1>3. \A u \in Threads, k \in Kinds : Holds(u, k)' <=> (Holds(u, k) \/ (u = t /\ k = kind))
    BY <1>1, PushCounts
  <1> QED BY <1>2, <1>3, OwnerLocks

LEMMA OwnerPop ==
  ASSUME IInv, OwnerOK, NEW t \in Threads, UNCHANGED <<pc, safepoint>>,
         NEW kind \in {"read", "write", "none"}, LastHeld(t, kind)
  PROVE  OwnerOK'
  <1>1. TypeOK /\ DepthOK /\ kind \in Kinds
    BY DEF IInv, Kinds
  <1>2. pc[t] = "vm" /\ (t \in Detached \/ safepoint \in {None, t})
    BY DEF LastHeld, Runs
  <1>3. t \in Attached => safepoint \in {None, t}
    BY <1>2, RwLockAssumption
  <1>4. \A u \in Threads, k \in Kinds : u # t \/ k # kind => (Holds(u, k) <=> Holds(u, k)')
    BY <1>1, PopCounts
  <1> QED BY <1>2, <1>3, <1>4, OwnerLocks

\* Who has to wait does not hold the lock ...
LEMMA NotHolder ==
  ASSUME IInv, NEW t \in Threads, writer # t, ~CanRead \/ ~Holds(t, "read")
  PROVE  ~Locks(t)
  <1>1. TypeOK /\ DepthOK /\ HoldersMatch /\ state \in Int
    BY DEF IInv, TypeOK
  <1>2. ASSUME Holds(t, "write") PROVE FALSE
    <2>1. Count("write") # 0
      BY <1>1, <1>2, HoldsCounted
    <2>2. state < 0
      BY SMT, <1>1, <2>1 DEF HoldersMatch
    <2> QED BY <1>1, <1>2, <2>2 DEF HoldersMatch
  <1>3. ASSUME Holds(t, "read") PROVE FALSE
    <2>1. Count("read") # 0
      BY <1>1, <1>3, HoldsCounted
    <2>2. state > 0
      BY SMT, <1>1, <2>1 DEF HoldersMatch
    <2>3. CanRead
      BY SMT, <1>1, <2>2 DEF CanRead
    <2> QED BY <1>3, <2>3
  <1> QED BY <1>2, <1>3 DEF Locks

\* ... and an owner that has to wait is in a reload (CanAcquireSafepointLocks).
LEMMA OwnerAsks ==
  ASSUME IInv, OwnerOK, NEW t \in Threads, NEW kind \in {"read", "write"},
         MayEnter(t, kind), writer # t, kind = "read" => ~CanRead, Blocks(t, kind),
         UNCHANGED safepoint
  PROVE  OwnerOK'
  <1>1. /\ TypeOK /\ (t \in Detached \/ safepoint \in {None, t})
        /\ ~CanRead \/ ~Holds(t, "read")
    BY DEF IInv, MayEnter, Runs
  <1>2. ~Locks(t)
    BY <1>1, NotHolder
  <1>3. t \in Attached => t \notin Detached
    BY RwLockAssumption
  <1>4. ASSUME safepoint = t PROVE Holds(t, "reload")
    <2>1. Owns(t) /\ t \notin Detached
      BY <1>3, <1>4, RwLockAssumption DEF OwnerOK
    <2>2. ~IsCurrentThreadReader(t) /\ ~IsCurrentThreadWriter(t)
      BY <1>2 DEF IsCurrentThreadReader, IsCurrentThreadWriter, Locks
    <2>3. ~Holds(t, "gc")
      BY <1>4, <2>1, <2>2 DEF MayEnter, CanAcquireSafepointLocks
    <2> QED BY <2>1, <2>3 DEF Owns
  <1>5. PICK l \in Asking : pc' = [pc EXCEPT ![t] = l] /\ UNCHANGED held
    <2>1. WaitFor[kind] \in Asking /\ BlockFor[kind] \in Asking
      BY SMT DEF WaitFor, BlockFor, Asking
    <2> QED BY <2>1 DEF Blocks, Goto, Wait, lock
  <1>6. l \notin Wanting
    BY DEF Asking, Wanting
  <1> QED BY <1>1, <1>2, <1>3, <1>4, <1>5, <1>6, OwnerGoes

LEMMA EnterOwner ==
  ASSUME IInv, OwnerOK, NEW t \in Threads, EnterRead(t) \/ EnterWrite(t)
  PROVE  OwnerOK'
  <1>1. /\ pc[t] = "vm" /\ Len(held[t]) < MaxDepth /\ pc \in [Threads -> PCs]
        /\ t \in Detached \/ safepoint \in {None, t}
        /\ UNCHANGED safepoint
    BY DEF EnterRead, EnterWrite, MayEnter, Runs, IInv, TypeOK
  <1>2. t \in Attached => safepoint \in {None, t}
    BY <1>1, RwLockAssumption
  <1>3. UNCHANGED pc => pc' = [pc EXCEPT ![t] = "vm"]
    BY <1>1
  <1>4. ASSUME NEW kind \in {"read", "write", "none"}, Push(t, kind), UNCHANGED pc
        PROVE  OwnerOK'
    BY <1>1, <1>2, <1>3, <1>4, OwnerPush
  <1>5. CASE EnterRead(t)
    <2>1. \/ \E kind \in {"read", "write", "none"} : Push(t, kind) /\ UNCHANGED pc
          \/ MayEnter(t, "read") /\ writer # t /\ ~CanRead /\ Blocks(t, "read")
      BY <1>5 DEF EnterRead, TakeRead
    <2> QED BY <1>1, <1>4, <2>1, OwnerAsks
  <1>6. CASE EnterWrite(t)
    <2>1. \/ \E kind \in {"read", "write", "none"} : Push(t, kind) /\ UNCHANGED pc
          \/ MayEnter(t, "write") /\ writer # t /\ Blocks(t, "write")
      BY <1>6 DEF EnterWrite, TakeWrite
    <2> QED BY <1>1, <1>4, <2>1, OwnerAsks
  <1> QED BY <1>5, <1>6

LEMMA BlockedOwner ==
  ASSUME IInv, OwnerOK, NEW t \in Threads, BlockedRead(t) \/ BlockedWrite(t)
  PROVE  OwnerOK'
  <1>1. PICK kind \in {"read", "write"} :
          /\ Looks(t, kind) /\ UNCHANGED safepoint
          /\ \/ Push(t, kind) /\ Got(t)
             \/ UNCHANGED held /\ Goto(t, WaitFor[kind])
    <2>1. WaitFor["read"] = "wait_read" /\ WaitFor["write"] = "wait_write"
      BY SMT DEF WaitFor
    <2> QED BY <2>1 DEF BlockedRead, BlockedWrite, TakeRead, TakeWrite, Wait
  <1>2. TypeOK /\ Len(held[t]) < MaxDepth
    BY <1>1, LooksWhere DEF IInv
  <1>3. pc[t] \in Asking /\ WaitFor[kind] \in Asking
    BY SMT, <1>1 DEF Looks, BlockFor, WaitFor, Asking
  <1>4. pc[t] \notin {"vm", "want_reload"} /\ WaitFor[kind] \notin Wanting
    BY <1>3 DEF Asking, Wanting
  <1>5. CASE Push(t, kind) /\ Got(t)
    <2>1. PICK l \in {"vm", "got"} : pc' = [pc EXCEPT ![t] = l]
      BY <1>5 DEF Got, Goto
    <2> QED BY <1>1, <1>2, <1>4, <1>5, <2>1, OwnerPush
  <1>6. CASE UNCHANGED held /\ Goto(t, WaitFor[kind])
    <2>1. ~Locks(t) /\ (safepoint = t => Holds(t, "reload"))
      BY <1>3 DEF OwnerOK
    <2> QED BY <1>1, <1>2, <1>4, <1>6, <2>1, OwnerGoes DEF Goto
  <1> QED BY <1>1, <1>5, <1>6

LEMMA BeginOwner ==
  ASSUME IInv, OwnerOK, NEW t \in Threads, NEW level \in Levels, BeginSafepoint(t, level)
  PROVE  OwnerOK'
  <1>1. TypeOK /\ DepthOK /\ level \in Kinds /\ WantFor[level] \in Wanting
    BY SMT DEF IInv, Kinds, Levels, WantFor, Wanting
  <1>2. /\ pc[t] \in Wanting /\ safepoint = None /\ safepoint' = t /\ Push(t, level)
        /\ pc' = [pc EXCEPT ![t] = "vm"]
        /\ \A u \in Attached \ {t} : AtSafepoint(u, level)
    BY <1>1 DEF BeginSafepoint, Goto
  <1>3. t \in Attached /\ Len(held[t]) < MaxDepth
    BY <1>1, <1>2 DEF OwnerOK, DepthOK
  <1>4. \A u \in Threads, k \in Kinds : Holds(u, k)' <=> (Holds(u, k) \/ (u = t /\ k = level))
    BY <1>1, <1>2, <1>3, PushCounts
  <1>5. pc'[t] = "vm" /\ \A u \in Threads \ {t} : pc'[u] = pc[u]
    BY <1>1, <1>2 DEF TypeOK
  <1>6. \A u \in Threads : u # None /\ ~Owns(u)
    BY <1>2, RwLockAssumption DEF OwnerOK
  <1>7. ASSUME Holds(t, "reload")', NEW u \in Attached \ {t}
        PROVE  ~Locks(u) /\ pc[u] \in {"vm", "want_reload"}
    <2>1. level = "reload"
      BY <1>4, <1>6, <1>7 DEF Owns, Kinds
    <2>2. pc[u] = "want_reload" \/ (pc[u] = "vm" /\ held[u] = <<>>)
      BY <1>2, <2>1 DEF AtSafepoint
    <2>3. CASE pc[u] = "want_reload"
      BY <2>3 DEF OwnerOK, Threads
    <2>4. CASE pc[u] = "vm" /\ held[u] = <<>>
      BY SMT, <2>4 DEF Locks, Holds
    <2> QED BY <2>2, <2>3, <2>4
  <1>8. Owns(t)' /\ pc'[t] \notin Asking \cup {"want_reload"} \cup Wanting
    BY <1>4, <1>5 DEF Owns, Levels, Kinds, Asking, Wanting
  <1>9. \A u \in Threads \ {t} :
           /\ pc'[u] = pc[u] /\ (safepoint' = u <=> safepoint = u)
           /\ \A k \in Kinds : Holds(u, k)' <=> Holds(u, k)
    BY <1>2, <1>4, <1>5, <1>6
  <1>10. \A u \in Threads \ {t} : ~Holds(u, "reload")
    BY <1>6 DEF Owns
  <1> HIDE DEF Locks, Owns, Holds
  <1> QED BY <1>2, <1>3, <1>7, <1>8, <1>9, <1>10, OwnerStep

\* An operation begins inside another one, or ends.
LEMMA InsideOwner ==
  ASSUME IInv, OwnerOK, NEW t \in Threads, NEW level \in Levels,
         NestedSafepoint(t, level) \/ EndSafepoint(t, level)
  PROVE  OwnerOK'
  <1>1. TypeOK /\ DepthOK /\ level \in Kinds
    BY DEF IInv, Kinds, Levels
  <1>2. safepoint = t /\ pc[t] = "vm" /\ pc' = pc /\ t \in Attached /\ t # None
    BY RwLockAssumption DEF NestedSafepoint, EndSafepoint, LastHeld, OwnerOK
  <1>3. /\ safepoint' \in {t, None} /\ (Owns(t)' <=> safepoint' = t)
        /\ Holds(t, "reload")' => Holds(t, "reload")
        /\ \A u \in Threads \ {t}, k \in Kinds : Holds(u, k)' <=> Holds(u, k)
    <2>1. CASE NestedSafepoint(t, level)
      <3>1. \A u \in Threads, k \in Kinds :
               Holds(u, k)' <=> (Holds(u, k) \/ (u = t /\ k = level))
        BY <1>1, <2>1, PushCounts DEF NestedSafepoint
      <3>2. level = "reload" => Holds(t, "reload")
        BY <2>1 DEF NestedSafepoint
      <3>3. Owns(t)' /\ (Holds(t, "reload")' => Holds(t, "reload"))
        BY <3>1, <3>2 DEF Owns, Kinds, Levels
      <3> QED BY <1>2, <2>1, <3>1, <3>3 DEF NestedSafepoint
    <2>2. CASE EndSafepoint(t, level)
      <3>1. LastHeld(t, level)
        BY <2>2 DEF EndSafepoint
      <3>2. \A u \in Threads, k \in Kinds :
               /\ Holds(u, k)' => Holds(u, k)
               /\ u # t \/ k # level => (Holds(u, k) <=> Holds(u, k)')
        BY <1>1, <3>1, PopCounts
      <3>3. safepoint' = IF Owns(t)' THEN t ELSE None
        BY <2>2 DEF EndSafepoint, Owns, Levels
      <3>4. Holds(t, "reload")' => Holds(t, "reload")
        BY <3>2 DEF Kinds
      <3> HIDE DEF Owns, Holds
      <3> QED BY <1>2, <3>2, <3>3, <3>4
    <2> QED BY <2>1, <2>2
  <1>4. pc'[t] \notin Asking \cup {"want_reload"} \cup Wanting
    BY <1>2 DEF Asking, Wanting
  <1>5. \A u \in Threads \ {t} : ~Holds(u, "reload")
    BY <1>2, NotReloaded
  <1> HIDE DEF Locks, Owns, Holds
  <1>6. Holds(t, "reload")' =>
           \A u \in Attached \ {t} : ~Locks(u) /\ pc[u] \in {"vm", "want_reload"}
    BY <1>3 DEF OwnerOK
  <1>7. \A u \in Threads \ {t} :
           /\ pc'[u] = pc[u] /\ (safepoint' = u <=> safepoint = u)
           /\ \A k \in Kinds : Holds(u, k)' <=> Holds(u, k)
    <2>1. \A u \in Threads : u # None
      BY RwLockAssumption
    <2> QED BY <1>2, <1>3, <2>1
  <1> QED BY <1>2, <1>3, <1>4, <1>5, <1>6, <1>7, OwnerStep

LEMMA NextOwner ==
  ASSUME IInv, OwnerOK, NEW t \in Threads,
         \/ EnterRead(t) \/ EnterWrite(t) \/ Leaves(t) \/ Step(t)
         \/ \E l \in Levels : WantSafepoint(t, l) \/ NestedSafepoint(t, l)
  PROVE  OwnerOK'
  <1>1. CASE EnterRead(t) \/ EnterWrite(t)
    BY <1>1, EnterOwner
  <1>2. CASE BlockedRead(t) \/ BlockedWrite(t)
    BY <1>2, BlockedOwner
  <1>3. CASE LeaveRead(t) \/ LeaveNone(t) \/ LeaveWrite(t)
    BY <1>3, OwnerPop DEF LeaveRead, LeaveNone, LeaveWrite
  <1>4. ASSUME NEW l \in Levels, WantSafepoint(t, l)
        PROVE  OwnerOK'
    <2>1. /\ t \in Attached /\ safepoint = None /\ UNCHANGED <<held, safepoint>>
          /\ pc' = [pc EXCEPT ![t] = WantFor[l]] /\ TypeOK
          /\ l = "reload" => held[t] = <<>>
      BY <1>4 DEF WantSafepoint, Goto, lock, IInv
    <2>2. /\ WantFor[l] \in Wanting /\ WantFor[l] \notin Asking
          /\ WantFor[l] = "want_reload" => l = "reload"
      BY SMT DEF WantFor, Wanting, Asking, Levels
    <2>3. held[t] = <<>> => ~Locks(t)
      BY SMT DEF Locks, Holds
    <2>4. t # None
      BY RwLockAssumption
    <2> HIDE DEF Locks, Holds
    <2> QED BY <2>1, <2>2, <2>3, <2>4, OwnerGoes
  <1>5. CASE Unblock(t)
    <2>1. "vm" \notin Asking \cup {"want_reload"} \cup Wanting
      BY DEF Asking, Wanting
    <2>2. /\ safepoint \in {None, t} /\ UNCHANGED <<held, safepoint>>
          /\ pc' = [pc EXCEPT ![t] = "vm"] /\ TypeOK
      BY <1>5 DEF Unblock, Goto, lock, IInv
    <2> QED BY <2>1, <2>2, OwnerGoes
  <1>6. ASSUME NEW l \in Levels, BeginSafepoint(t, l)
        PROVE  OwnerOK'
    BY <1>6, BeginOwner
  <1>7. ASSUME NEW l \in Levels, NestedSafepoint(t, l) \/ EndSafepoint(t, l)
        PROVE  OwnerOK'
    BY <1>7, InsideOwner
  <1> QED BY <1>1, <1>2, <1>3, <1>4, <1>5, <1>6, <1>7 DEF Step, Leaves

\* Lockers and safepoint operations together: OwnerOK rests on HoldersMatch, which
\* tells that a thread that has to wait for the lock does not hold it.
THEOREM OperationsInvariant == Spec => [](IInv /\ OwnerOK)
  <1>1. Init => OwnerOK
    <2> SUFFICES ASSUME Init PROVE OwnerOK
      OBVIOUS
    <2>1. \A t \in Threads : t # None /\ held[t] = <<>> /\ pc[t] = "vm"
      BY RwLockAssumption DEF Init
    <2>2. ASSUME NEW t \in Threads, NEW k PROVE ~Holds(t, k)
      BY SMT, <2>1 DEF Holds
    <2>3. "vm" \notin Asking \cup {"want_reload"} \cup Wanting
      BY DEF Asking, Wanting
    <2> HIDE DEF Holds
    <2> QED BY <2>1, <2>2, <2>3 DEF Init, OwnerOK, Owns, Locks
  <1>2. IInv /\ OwnerOK /\ [Next]_vars => OwnerOK'
    <2> SUFFICES ASSUME IInv, OwnerOK, [Next]_vars PROVE OwnerOK'
      OBVIOUS
    <2>1. CASE Next
      BY <2>1, NextOwner DEF Next
    <2>2. CASE UNCHANGED vars
      <3>1. UNCHANGED <<held, pc, safepoint>>
        BY <2>2 DEF vars, lock
      <3>2. \A u \in Threads : /\ Locks(u)' <=> Locks(u)
                               /\ Owns(u)' <=> Owns(u)
                               /\ Holds(u, "reload")' <=> Holds(u, "reload")
        BY <3>1 DEF Locks, Owns, Holds
      <3>3. Attached \subseteq Threads
        BY DEF Threads
      <3> HIDE DEF Locks, Owns, Holds
      <3> QED BY <3>1, <3>2, <3>3 DEF OwnerOK
    <2> QED BY <2>1, <2>2
  <1> QED BY <1>1, <1>2, LockInvariant, PTL DEF Spec

\* The deadlock that the assertion in EnterWrite is there to prevent does not happen:
\* an owner of a safepoint operation, which may take locks in a reload, never waits
\* for the lock while a thread it has stopped, or itself, holds it.
THEOREM OwnersWaitForDetached == Spec => []OwnerWaitsForDetached
  <1>1. OwnerOK => OwnerWaitsForDetached
    <2> SUFFICES ASSUME OwnerOK, NEW t \in Attached, safepoint = t, pc[t] \in Asking,
                        NEW u \in Attached
                 PROVE  ~Locks(u)
      BY DEF OwnerWaitsForDetached, Asking, Locks
    <2>1. t \in Threads /\ u \in Threads
      BY DEF Threads
    <2> HIDE DEF Locks
    <2> QED BY <2>1 DEF OwnerOK
  <1> QED BY <1>1, OperationsInvariant, PTL
=============================================================================
