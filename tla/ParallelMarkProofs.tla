------------------------ MODULE ParallelMarkProofs ------------------------
(***************************************************************************)
(* Proofs about ParallelMark, for every heap and every number of helpers.  *)
(*                                                                         *)
(* A thread that the barrier has released but that has not yet left Sync   *)
(* is taken to be where Sync leads (at): then all markers pass a Sync in   *)
(* one step, and are in the same phase at any time (InStep).  Work in the  *)
(* blocks is always some marker's duty (Served), a marked object is either *)
(* in some block or list or was scanned (Covered), and in a round in which *)
(* nobody finds more to mark every key that was looked at stays white      *)
(* (RoundIsQuiet).  Whoever has gone through the deferred objects leaves   *)
(* none behind but Instructions, and none at all the second time           *)
(* (DeferredDone).                                                         *)
(*                                                                         *)
(* Most steps are first-order reasoning about sets and functions, which    *)
(* Zenon does; the others cite SMT.                                        *)
(***************************************************************************)
EXTENDS ParallelMark, FiniteSetTheorems, TLAPS

USE ZenonT(30)

\* Where t is, or will be when it is scheduled.
Released(t) == t \in DOMAIN syncing /\ syncing[t] # generation
at == [t \in Threads |-> IF Released(t) THEN AfterSync(t) ELSE pc[t]]

Outside == {"new", "queued", "gone"}
First == {"spawn", "entered", "roots", "deferred", "drain", "drain_weak", "wait_for_work",
          "waiting", "sync1"}
Phase(l) ==
  IF l \in First THEN 0
  ELSE IF l \in {"pending", "round_weak", "sync2"} THEN 1
  ELSE IF l \in {"decide", "sync3"} THEN 2
  ELSE IF l \in {"deferred2", "sync4"} THEN 3
  ELSE IF l \in {"mourn", "sync5"} THEN 4
  ELSE 5
Places == Outside \cup First \cup
  {"pending", "round_weak", "sync2", "decide", "sync3", "deferred2", "sync4", "mourn",
   "sync5", "release", "finalize"}

Now == Phase(at[Main])
Members == {t \in Threads : at[t] \notin Outside}
Awaited == {t \in Members : ~(t \in DOMAIN syncing /\ syncing[t] = generation)}

-----------------------------------------------------------------------------
(* The barrier *)

BarrierTypes ==
  /\ pc \in [Threads -> Places]
  /\ generation \in Nat /\ participating \in Nat /\ remaining \in Nat
  /\ DOMAIN syncing \subseteq Threads
  /\ \A t \in DOMAIN syncing :
       pc[t] \in Syncs /\ syncing[t] \in Nat /\ syncing[t] <= generation

\* The barrier counts the markers that have yet to arrive.
Counted ==
  Now < 5 => participating = Cardinality(Members) /\ remaining = Cardinality(Awaited)

InStep == \A t \in Members : Phase(at[t]) = Now

FirstGeneration == generation = 0 => Now = 0

MainIsIn ==
  /\ at[Main] \notin Outside
  /\ \A t \in Threads : /\ at[t] = "new" => at[Main] = "spawn"
                        /\ at[t] \in {"spawn", "finalize"} => t = Main

BarrierInv == BarrierTypes /\ Counted /\ InStep /\ FirstGeneration /\ MainIsIn

-----------------------------------------------------------------------------
(* The work *)

WorkTypes ==
  /\ local \in [Threads -> SUBSET Objects] /\ stack \subseteq Objects
  /\ delayed \in [Threads -> SUBSET WeakProps] /\ todo \in [Threads -> SUBSET WeakProps]
  /\ more \in [Threads -> BOOLEAN] /\ slice \in BOOLEAN
  /\ marked \subseteq Objects
  /\ deferred \subseteq Objects /\ deferred_work \in [Threads -> SUBSET Objects]

Busy ==
  {t \in Threads : \/ at[t] \in {"roots", "deferred", "drain", "drain_weak", "wait_for_work"}
                   \/ at[t] \in {"sync2", "decide", "sync3"} /\ more[t]}
BusyCounted == num_busy = Cardinality(Busy)

\* Who will look at the shared stack.
Active(t) ==
  \/ at[t] \in {"spawn", "entered", "roots", "deferred", "drain"}
  \/ at[t] \in {"drain_weak", "round_weak", "sync2", "decide", "sync3"} /\ more[t]

Served ==
  /\ stack # {} => \E t \in Threads : Active(t)
  /\ \A t \in Threads :
       /\ local[t] # {} => at[t] = "new" \/ Active(t)
       /\ todo[t] # {} => at[t] \in {"drain_weak", "round_weak"}
       /\ at[t] \in {"queued", "gone", "sync5", "release"} => delayed[t] = {}
       /\ at[t] \in {"wait_for_work", "waiting", "sync1", "pending"} => ~more[t]

\* What precedes the drain is done by whoever drains.
Before == Outside \cup {"spawn", "entered", "roots"}
RootsDone == \A t \in Threads : at[t] \notin Before => slice

\* How far a marker is with the deferred objects: not yet there, at them, past
\* them, or past them for the second time.
Stage(l) ==
  IF l \in Before THEN "before"
  ELSE IF l = "deferred" THEN "deferred"
  ELSE IF l \in Mourning \cup {"sync4"} THEN "done"
  ELSE "past"
DeferredDone ==
  \A t \in Threads :
    /\ Stage(at[t]) \in {"past", "done"} => deferred \subseteq Instructions
    /\ Stage(at[t]) \in {"before", "done"} => deferred_work[t] = {}
    /\ Stage(at[t]) = "done" => deferred = {}
    /\ \A o \in deferred_work[t] \ Instructions :
         Stage(at[t]) = "deferred" /\ deferred_work[t] = {o}

\* Markers that have looked at num_busy go the same way.
Agreed ==
  \A t, u \in Threads :
    at[t] \in {"decide", "sync3"} /\ more[t] /\ at[u] = "sync3" => more[u]

InRound == {"pending", "round_weak", "sync2", "decide", "sync3"}
Looked == {"round_weak", "sync2", "decide", "sync3"}
White(s) == \A w \in s : Key[w] \notin marked
RoundIsQuiet ==
  \/ \E t \in Threads : at[t] \in InRound /\ more[t]
  \/ \A t \in Threads : at[t] \in Looked => White(delayed[t])

\* The lists in which an object waits to be scanned.
Listed(o) == o \in stack \/ \E t \in Threads : o \in local[t] \/ o \in delayed[t] \/ o \in todo[t]
Found == marked \cup PutOff
Covered ==
  /\ GrayAll \cup PendingAll \subseteq marked
  /\ slice => Roots \subseteq Found
  /\ \A o \in Deferred \ PutOff : {o} \cup Pointers(o) \subseteq Found
  /\ \A o \in marked : \/ Listed(o) \/ Pointers(o) \subseteq Found
                       \/ Now >= 3 /\ o \in WeakProps /\ Key[o] \notin marked

Finished ==
  Now >= 3 => stack = {} /\ \A t \in Threads : local[t] = {} /\ White(delayed[t])

WorkInv ==
  /\ WorkTypes /\ BusyCounted /\ Served /\ RootsDone /\ DeferredDone /\ Agreed
  /\ RoundIsQuiet /\ Covered /\ Finished

Inv == BarrierInv /\ WorkInv

-----------------------------------------------------------------------------
\* Threads are finitely many: what the proofs use of cardinalities.
LEMMA Counting ==
  \A S \in SUBSET Threads :
    /\ Cardinality(S) \in Nat /\ (Cardinality(S) = 0 <=> S = {})
    /\ Cardinality(S) = 1 <=> \E t \in Threads : S = {t}
    /\ \A t \in Threads \ S : Cardinality(S \cup {t}) = Cardinality(S) + 1
    /\ \A t \in S : Cardinality(S \ {t}) = Cardinality(S) - 1
  <1> SUFFICES ASSUME NEW S \in SUBSET Threads
               PROVE  /\ Cardinality(S) \in Nat /\ (Cardinality(S) = 0 <=> S = {})
                      /\ Cardinality(S) = 1 <=> \E t \in Threads : S = {t}
                      /\ \A t \in Threads \ S : Cardinality(S \cup {t}) = Cardinality(S) + 1
                      /\ \A t \in S : Cardinality(S \ {t}) = Cardinality(S) - 1
    OBVIOUS
  <1>1. IsFiniteSet(S)
    BY SMT, ParallelMarkAssumption, FS_Subset
  <1>2. Cardinality(S) \in Nat /\ (Cardinality(S) = 0 <=> S = {})
    BY SMT, <1>1, FS_CardinalityType, FS_EmptySet
  <1>3. Cardinality(S) = 1 <=> \E t \in Threads : S = {t}
    BY SMT, <1>1, FS_Singleton
  <1>4. \A t \in Threads \ S : Cardinality(S \cup {t}) = Cardinality(S) + 1
    BY SMT, <1>1, FS_AddElement
  <1>5. \A t \in S : Cardinality(S \ {t}) = Cardinality(S) - 1
    BY SMT, <1>1, FS_RemoveElement
  <1> QED BY SMT, <1>2, <1>3, <1>4, <1>5

LEMMA AtIsAPlace ==
  ASSUME BarrierTypes
  PROVE  /\ at \in [Threads -> Places]
         /\ \A t \in Threads : ~Released(t) => at[t] = pc[t]
         /\ \A t \in Threads : Released(t) => at[t] = AfterSync(t)
  <1>1. ASSUME NEW t \in Threads, Released(t) PROVE AfterSync(t) \in Places
    BY <1>1 DEF Released, AfterSync, BarrierTypes, Syncs, Places, Outside, First
  <1> QED BY <1>1 DEF at, BarrierTypes

\* A thread that is not in Sync moves, and nobody else does.
LEMMA LocalStep ==
  ASSUME BarrierInv, NEW t \in Threads, NEW l \in Places, pc[t] \notin Syncs,
         pc' = [pc EXCEPT ![t] = l], UNCHANGED <<syncing, generation>>,
         \A u \in Threads \ {t} : more'[u] = more[u]
  PROVE  at[t] = pc[t] /\ at' = [at EXCEPT ![t] = l] /\ pc' \in [Threads -> Places]
         /\ at \in [Threads -> Places]
  <1>1. BarrierTypes /\ at \in [Threads -> Places]
    BY AtIsAPlace DEF BarrierInv
  <1>2. ~Released(t) /\ ~Released(t)'
    BY <1>1 DEF Released, BarrierTypes
  <1>3. ASSUME NEW u \in Threads \ {t}
        PROVE  (Released(u)' <=> Released(u)) /\ AfterSync(u)' = AfterSync(u) /\ pc'[u] = pc[u]
    <2>1. pc'[u] = pc[u] /\ more'[u] = more[u]
      BY <1>1, <1>3 DEF BarrierTypes
    <2>2. AfterSync(u)' = AfterSync(u)
      BY <2>1 DEF AfterSync
    <2> QED BY <2>1, <2>2 DEF Released
  <1>4. \A u \in Threads : at'[u] = [at EXCEPT ![t] = l][u]
    BY <1>1, <1>2, <1>3 DEF at, BarrierTypes
  <1>5. at' = [u \in Threads |-> at'[u]]
    BY SMT DEF at
  <1> QED BY <1>1, <1>2, <1>4, <1>5 DEF at, BarrierTypes

\* Outside Sync the place is pc.
LEMMA OutsideIsOutside ==
  ASSUME BarrierTypes, NEW t \in Threads
  PROVE  /\ at[t] \in Outside \cup {"spawn"} \/ pc[t] \in Outside \cup {"spawn"} => at[t] = pc[t]
         /\ at[t] \in Syncs => pc[t] = at[t]
  <1>1. Released(t) => AfterSync(t) \notin Outside \cup {"spawn"} \cup Syncs
        /\ pc[t] \notin Outside \cup {"spawn"}
    BY DEF Released, AfterSync, BarrierTypes, Syncs, Outside
  <1> QED BY <1>1, AtIsAPlace

Moves(t, l) ==
  /\ at \in [Threads -> Places] /\ at' = [at EXCEPT ![t] = l]
  /\ at[t] = pc[t] /\ at'[t] = l /\ Now' = Now

\* A marker moves on in its phase.
LEMMA PhaseStep ==
  ASSUME BarrierInv, NEW t \in Threads, NEW l \in Places, pc[t] \notin Syncs,
         pc' = [pc EXCEPT ![t] = l], UNCHANGED <<participating, remaining, syncing, generation>>,
         \A u \in Threads \ {t} : more'[u] = more[u],
         pc[t] \notin Outside, l \notin Outside \cup {"spawn", "finalize"},
         Phase(l) = Phase(pc[t]),
         pc[t] = "spawn" => \A u \in Threads : pc[u] # "new"
  PROVE  BarrierInv' /\ Moves(t, l)
  <1>1. /\ at[t] = pc[t] /\ at' = [at EXCEPT ![t] = l] /\ pc' \in [Threads -> Places]
        /\ at \in [Threads -> Places] /\ BarrierTypes
    BY LocalStep DEF BarrierInv
  <1>2. Now' = Now
    BY <1>1, ParallelMarkAssumption DEF Now
  <1>3. Members' = Members
    BY <1>1 DEF Members
  <1>4. Awaited' = Awaited
    BY <1>3 DEF Awaited
  <1>5. BarrierTypes'
    BY <1>1 DEF BarrierTypes
  <1>6. Counted' /\ FirstGeneration'
    BY <1>2, <1>3, <1>4 DEF BarrierInv, Counted, FirstGeneration
  <1>7. InStep'
    BY SMT, <1>1, <1>2, <1>3 DEF BarrierInv, InStep
  <1>8. MainIsIn'
    <2>1. ASSUME NEW u \in Threads, at'[u] = "new" PROVE at'[Main] = "spawn"
      <3>1. u # t /\ at[u] = "new" /\ pc[u] = "new"
        BY <1>1, <2>1, OutsideIsOutside DEF Outside
      <3>2. at[Main] = "spawn"
        BY <3>1 DEF BarrierInv, MainIsIn
      <3>3. t # Main
        BY <1>1, <3>1, <3>2
      <3> QED BY <1>1, <3>2, <3>3, ParallelMarkAssumption
    <2>2. ASSUME NEW u \in Threads, at'[u] \in {"spawn", "finalize"} PROVE u = Main
      BY <1>1, <2>2 DEF BarrierInv, MainIsIn
    <2>3. at'[Main] \notin Outside
      BY <1>1, ParallelMarkAssumption DEF BarrierInv, MainIsIn
    <2> QED BY <2>1, <2>2, <2>3 DEF MainIsIn
  <1> QED BY <1>1, <1>2, <1>5, <1>6, <1>7, <1>8 DEF BarrierInv, Moves

\* A helper that does not take part moves.
LEMMA OutsiderStep ==
  ASSUME BarrierInv, NEW h \in Threads, NEW l \in {"queued", "gone"}, pc[h] \in Outside,
         pc' = [pc EXCEPT ![h] = l],
         UNCHANGED <<participating, remaining, syncing, generation, more>>
  PROVE  BarrierInv' /\ Now' = Now /\ at' = [at EXCEPT ![h] = l] /\ at[h] = pc[h] /\ h # Main
  <1>1. /\ at[h] = pc[h] /\ at' = [at EXCEPT ![h] = l] /\ pc' \in [Threads -> Places]
        /\ at \in [Threads -> Places] /\ BarrierTypes
    BY LocalStep DEF BarrierInv, Outside, Syncs, Places
  <1>2. h # Main
    BY <1>1 DEF BarrierInv, MainIsIn
  <1>3. Now' = Now /\ at'[Main] = at[Main]
    BY <1>1, <1>2, ParallelMarkAssumption DEF Now
  <1>4. Members' = Members
    BY <1>1 DEF Members, Outside
  <1>5. Awaited' = Awaited
    BY <1>4 DEF Awaited
  <1>6. BarrierTypes'
    BY <1>1 DEF BarrierTypes, Outside, Syncs
  <1>7. Counted' /\ FirstGeneration'
    BY <1>3, <1>4, <1>5 DEF BarrierInv, Counted, FirstGeneration
  <1>8. InStep'
    BY <1>1, <1>3, <1>4 DEF BarrierInv, InStep, Members, Outside
  <1>9. MainIsIn'
    BY <1>1, <1>2, <1>3 DEF BarrierInv, MainIsIn
  <1> QED BY <1>1, <1>2, <1>3, <1>6, <1>7, <1>8, <1>9 DEF BarrierInv

LEMMA HelperEntersBarrier ==
  ASSUME BarrierInv, NEW h \in Helpers, HelperEnters(h)
  PROVE  BarrierInv' /\ Now' = Now /\ at' = [at EXCEPT ![h] = "entered"] /\ at[h] = "queued"
         /\ Now = 0
  <1> USE DEF HelperEnters, TryEnter, CanEnter, Goto
  <1>0. h \in Threads /\ h # Main /\ Main \in Threads
    BY ParallelMarkAssumption DEF Helpers
  <1>1. /\ at[h] = "queued" /\ at' = [at EXCEPT ![h] = "entered"] /\ pc' \in [Threads -> Places]
        /\ at \in [Threads -> Places] /\ BarrierTypes
    BY <1>0, LocalStep DEF BarrierInv, Syncs, Places, First, visitors
  <1>2. Now' = Now /\ at'[Main] = at[Main] /\ Now = 0
    BY <1>0, <1>1 DEF Now, BarrierInv, FirstGeneration
  <1>3. Members' = Members \cup {h} /\ h \notin Members
    BY <1>0, <1>1 DEF Members, Outside
  <1>4. Awaited' = Awaited \cup {h} /\ h \notin Awaited
    <2>1. h \notin DOMAIN syncing /\ syncing' = syncing /\ generation' = generation
      BY <1>1 DEF BarrierTypes, Syncs
    <2> QED BY <1>3, <2>1 DEF Awaited
  <1>5. Members \in SUBSET Threads /\ Awaited \in SUBSET Threads
    BY DEF Members, Awaited
  <1>6. /\ Cardinality(Members') = Cardinality(Members) + 1
        /\ Cardinality(Awaited') = Cardinality(Awaited) + 1
    BY <1>0, <1>3, <1>4, <1>5, Counting
  <1>7. BarrierTypes'
    BY SMT, <1>1 DEF BarrierTypes, Syncs
  <1>8. Counted' /\ FirstGeneration'
    BY <1>2, <1>6 DEF BarrierInv, Counted, FirstGeneration
  <1>9. InStep'
    BY <1>1, <1>2, <1>3 DEF BarrierInv, InStep, Members, Outside, Phase, First
  <1>10. MainIsIn'
    BY <1>1, <1>2 DEF BarrierInv, MainIsIn
  <1> QED BY <1>1, <1>2, <1>7, <1>8, <1>9, <1>10 DEF BarrierInv

LEMMA LeaveBarrier ==
  ASSUME BarrierInv, NEW t \in Threads, Leave(t)
  PROVE  /\ BarrierInv' /\ Now' = 5 /\ Now = 5 /\ at[t] = "release"
         /\ at' = [at EXCEPT ![t] = IF t = Main THEN "finalize" ELSE "gone"]
  <1> USE DEF Leave, Release, Goto
  <1> DEFINE l == IF t = Main THEN "finalize" ELSE "gone"
  <1>1. /\ at[t] = "release" /\ at' = [at EXCEPT ![t] = l] /\ pc' \in [Threads -> Places]
        /\ at \in [Threads -> Places] /\ BarrierTypes
    BY LocalStep DEF BarrierInv, Syncs, Places, Outside, visitors
  <1>2. Now = 5 /\ Now' = 5
    BY <1>1, ParallelMarkAssumption DEF BarrierInv, InStep, Members, Outside, Phase, First, Now
  <1>3. Members' \subseteq Members
    BY <1>1 DEF Members, Outside
  <1>4. BarrierTypes'
    BY <1>1 DEF BarrierTypes, Syncs
  <1>5. Counted' /\ FirstGeneration'
    BY SMT, <1>2 DEF BarrierInv, Counted, FirstGeneration
  <1>6. InStep'
    BY <1>1, <1>2, <1>3 DEF BarrierInv, InStep, Members, Outside, Phase, First
  <1>7. MainIsIn'
    BY <1>1, ParallelMarkAssumption DEF BarrierInv, MainIsIn, Outside
  <1> QED BY <1>1, <1>2, <1>4, <1>5, <1>6, <1>7 DEF BarrierInv

\* Waiting in Sync and waking up change nobody's place.
LEMMA SyncWaits ==
  ASSUME BarrierInv, NEW t \in Threads, pc[t] \in Syncs, SyncWait(t), UNCHANGED <<pc, more>>
  PROVE  BarrierInv' /\ at' = at
  <1> USE DEF SyncWait, SyncIsLast
  <1>1. BarrierTypes /\ at[t] = pc[t] /\ at \in [Threads -> Places]
    BY AtIsAPlace, ParallelMarkAssumption DEF BarrierInv, Released
  <1>2. DOMAIN syncing' = DOMAIN syncing \cup {t} /\ syncing'[t] = generation
        /\ generation' = generation /\ \A u \in DOMAIN syncing : syncing'[u] = syncing[u]
    OBVIOUS
  <1>3. ASSUME NEW u \in Threads PROVE Released(u)' <=> Released(u)
    BY <1>2 DEF Released
  <1>4. at' = at
    <2>1. \A u \in Threads : AfterSync(u)' = AfterSync(u)
      BY DEF AfterSync
    <2> QED BY <1>3, <2>1 DEF at
  <1>5. Members' = Members /\ t \in Members /\ Now' = Now /\ Now < 5
    BY SMT, <1>1, <1>4 DEF Members, Now, BarrierInv, InStep, Phase, Outside, Syncs, First
  <1>6. Awaited' = Awaited \ {t} /\ t \in Awaited
    BY <1>2, <1>5 DEF Awaited
  <1>7. Cardinality(Awaited') = Cardinality(Awaited) - 1 /\ Cardinality(Awaited) \in Nat
        /\ Cardinality(Awaited') \in Nat
    <2>1. Awaited \in SUBSET Threads /\ Awaited' \in SUBSET Threads
      BY <1>6 DEF Awaited, Members
    <2> QED BY <1>6, <2>1, Counting
  <1>8. Counted' /\ remaining' \in Nat
    BY <1>5, <1>7 DEF BarrierInv, Counted
  <1>9. BarrierTypes'
    BY SMT, <1>1, <1>2, <1>8 DEF BarrierTypes
  <1> QED BY <1>4, <1>5, <1>8, <1>9 DEF BarrierInv, InStep, FirstGeneration, MainIsIn

LEMMA SyncEnds ==
  ASSUME BarrierInv, NEW t \in Threads, pc[t] \in Syncs, SyncWakes(t), Goto(t, AfterSync(t)),
         UNCHANGED more
  PROVE  BarrierInv' /\ at' = at
  <1> USE DEF SyncWakes, Goto
  <1>1. BarrierTypes /\ at[t] = AfterSync(t) /\ at \in [Threads -> Places] /\ Released(t)
    BY AtIsAPlace DEF BarrierInv, Released
  <1>2. DOMAIN syncing' = DOMAIN syncing \ {t}
        /\ generation' = generation /\ \A u \in DOMAIN syncing \ {t} : syncing'[u] = syncing[u]
    OBVIOUS
  <1>3. pc' = [pc EXCEPT ![t] = AfterSync(t)] /\ pc' \in [Threads -> Places]
    BY <1>1 DEF BarrierTypes
  <1>4. ASSUME NEW u \in Threads \ {t}
        PROVE  (Released(u)' <=> Released(u)) /\ pc'[u] = pc[u] /\ AfterSync(u)' = AfterSync(u)
    <2>1. pc'[u] = pc[u]
      BY <1>1 DEF BarrierTypes
    <2> QED BY <1>2, <2>1 DEF Released, AfterSync
  <1>5. at' = at
    <2>1. ~Released(t)' /\ pc'[t] = at[t]
      BY <1>1, <1>2, <1>3 DEF Released, BarrierTypes
    <2>2. \A u \in Threads : at'[u] = at[u]
      BY <1>1, <1>4, <2>1 DEF at
    <2> QED BY <1>1, <2>2 DEF at
  <1>6. Members' = Members /\ Now' = Now
    BY <1>5 DEF Members, Now
  <1>7. Awaited' = Awaited
    BY <1>1, <1>2, <1>6 DEF Awaited, Released
  <1>8. BarrierTypes'
    BY <1>1, <1>2, <1>3 DEF BarrierTypes
  <1> QED BY <1>5, <1>6, <1>7, <1>8 DEF BarrierInv, Counted, InStep, FirstGeneration, MainIsIn

\* The last marker to arrive takes all the others along.
LEMMA SyncTurns ==
  ASSUME BarrierInv, Agreed, NEW t \in Threads, pc[t] \in Syncs, SyncLast(t), Goto(t, AfterSync(t)),
         UNCHANGED more
  PROVE  /\ BarrierInv'
         /\ \A u \in Members : at[u] = pc[t] /\ at'[u] = AfterSync(u)
         /\ \A u \in Threads \ Members : at'[u] = at[u]
         /\ t \in Members /\ Members' = Members
  <1> USE DEF SyncLast, SyncIsLast, Goto
  <1>1. BarrierTypes /\ at[t] = pc[t] /\ at \in [Threads -> Places] /\ ~Released(t)
        /\ Main \in Threads
    BY AtIsAPlace, ParallelMarkAssumption DEF BarrierInv, Released
  <1>2. t \in Awaited /\ t \in Members /\ Now < 5
    BY SMT, <1>1 DEF Awaited, Members, Now, BarrierInv, InStep, Phase, Outside, Syncs, First
  <1>3. Awaited = {t}
    <2>1. Cardinality(Awaited) = 1
      BY <1>2 DEF BarrierInv, Counted
    <2>2. Awaited \in SUBSET Threads
      BY DEF Awaited, Members
    <2>3. PICK x \in Threads : Awaited = {x}
      BY <2>1, <2>2, Counting
    <2> QED BY <1>2, <2>3
  <1>4. ASSUME NEW u \in Members
        PROVE at[u] = pc[t] /\ (u # t => u \in DOMAIN syncing /\ syncing[u] = generation)
    <2>1. CASE u = t
      BY <1>1, <2>1
    <2>2. CASE u # t
      <3>1. u \in Threads /\ u \in DOMAIN syncing /\ syncing[u] = generation
        BY SMT, <1>3, <2>2 DEF Awaited, Members
      <3>2. at[u] = pc[u] /\ pc[u] \in Syncs
        BY <1>1, <3>1, AtIsAPlace DEF Released, BarrierTypes
      <3>3. Phase(at[u]) = Phase(at[t])
        BY <1>2 DEF BarrierInv, InStep
      <3>4. at[u] = pc[t]
        BY SMT, <1>1, <3>2, <3>3 DEF Phase, Syncs, First
      <3> QED BY <3>1, <3>4
    <2> QED BY <2>1, <2>2
  <1>5. generation' = generation + 1 /\ syncing' = syncing /\ generation \in Nat
    BY <1>1 DEF BarrierTypes
  <1>6. ASSUME NEW u \in Members PROVE at'[u] = AfterSync(u)
    <2>1. u \in Threads
      BY DEF Members
    <2>2. CASE u = t
      <3>1. ~Released(u)'
        BY <2>2 DEF Released
      <3>2. pc'[u] = AfterSync(u)
        BY <1>1, <2>2 DEF BarrierTypes
      <3> QED BY <2>1, <3>1, <3>2 DEF at
    <2>3. CASE u # t
      <3>1. Released(u)'
        BY SMT, <1>4, <1>5, <2>3 DEF Released
      <3>2. pc'[u] = pc[u]
        BY <1>1, <2>1, <2>3 DEF BarrierTypes
      <3>3. AfterSync(u)' = AfterSync(u)
        BY <3>2 DEF AfterSync
      <3> QED BY <2>1, <3>1, <3>3 DEF at
    <2> QED BY <2>2, <2>3
  <1>7. ASSUME NEW u \in Threads \ Members PROVE at'[u] = at[u] /\ u \notin DOMAIN syncing
    <2>1. at[u] = pc[u] /\ pc[u] \in Outside
      BY <1>1, OutsideIsOutside DEF Members
    <2>2. u \notin DOMAIN syncing
      BY <1>1, <2>1 DEF BarrierTypes, Outside, Syncs
    <2>3. ~Released(u)' /\ pc'[u] = pc[u]
      BY <1>1, <1>2, <1>5, <2>2 DEF Released, BarrierTypes
    <2> QED BY <2>1, <2>2, <2>3 DEF at
  <1>8. \A u \in Members : at[u] \in Syncs /\ pc[u] = at[u] /\ u \in Threads
    BY <1>1, <1>4, OutsideIsOutside DEF Members
  <1>9. \A u \in Members : at'[u] \notin Outside \cup {"spawn", "finalize", "new"}
    BY <1>6, <1>8 DEF AfterSync, Outside, Syncs
  <1>10. Members' = Members
    <2>1. \A u \in Threads : u \in Members' <=> u \in Members
      BY <1>7, <1>9 DEF Members
    <2> QED BY <2>1 DEF Members
  <1>11. Main \in Members
    BY <1>1 DEF Members, BarrierInv, MainIsIn
  <1>12. ASSUME NEW u \in Members PROVE at'[u] = at'[Main]
    <2>1. pc[u] = pc[t] /\ pc[Main] = pc[t]
      BY <1>4, <1>8, <1>11
    <2>2. pc[t] = "sync3" => (more[u] <=> more[Main])
      BY <1>4, <1>8, <1>11 DEF Agreed
    <2>3. AfterSync(u) = AfterSync(Main)
      BY <2>1, <2>2 DEF AfterSync
    <2> QED BY <1>6, <1>11, <2>3
  <1>13. InStep'
    BY <1>10, <1>12 DEF InStep, Now
  <1>14. BarrierTypes'
    <2>1. AfterSync(t) \in Places
      BY <1>1, <1>2, <1>6 DEF AfterSync, Syncs, Places, Outside, First
    <2> QED BY SMT, <1>1, <1>5, <2>1 DEF BarrierTypes
  <1>15. Awaited' = Members
    <2>1. \A u \in Members : ~(u \in DOMAIN syncing' /\ syncing'[u] = generation')
      BY SMT, <1>4, <1>5
    <2> QED BY <1>10, <2>1 DEF Awaited
  <1>16. Counted' /\ FirstGeneration'
    BY SMT, <1>2, <1>5, <1>10, <1>15 DEF Counted, FirstGeneration, BarrierInv
  <1>17. MainIsIn'
    <2>1. \A u \in Threads : at'[u] # "new"
      BY <1>4, <1>7, <1>9, <1>11 DEF BarrierInv, MainIsIn, Syncs
    <2>2. \A u \in Threads : at'[u] \notin {"spawn", "finalize"}
      BY <1>7, <1>9 DEF Members, Outside
    <2> QED BY <1>9, <1>11, <2>1, <2>2 DEF MainIsIn
  <1> QED BY <1>2, <1>4, <1>6, <1>7, <1>10, <1>13, <1>14, <1>16, <1>17 DEF BarrierInv

LEMMA PhaseOf ==
  ASSUME BarrierInv, NEW t \in Threads, pc[t] \notin Outside \cup Syncs
  PROVE  Phase(pc[t]) = Now
  <1>1. at[t] = pc[t]
    BY AtIsAPlace DEF BarrierInv, BarrierTypes, Released
  <1> QED BY <1>1 DEF BarrierInv, InStep, Members

LEMMA FirstPhaseStep ==
  ASSUME BarrierInv, NEW t \in Threads, NEW l \in First \ {"spawn"}, pc[t] \in First \ {"sync1"},
         pc' = [pc EXCEPT ![t] = l], UNCHANGED <<participating, remaining, syncing, generation>>,
         \A u \in Threads \ {t} : more'[u] = more[u],
         pc[t] = "spawn" => \A u \in Threads : pc[u] # "new"
  PROVE  BarrierInv' /\ Moves(t, l) /\ Now = 0
  <1>1. Phase(pc[t]) = Now /\ Phase(pc[t]) = 0 /\ Phase(l) = 0
    BY PhaseOf DEF Outside, Syncs, Phase, First
  <1>2. pc[t] \notin Outside \cup Syncs /\ l \notin Outside \cup {"spawn", "finalize"}
        /\ l \in Places
    BY DEF Outside, Syncs, First, Places
  <1> QED BY <1>1, <1>2, PhaseStep

\* Outside the round's decision there is nothing to agree on.
LEMMA NotInRound ==
  ASSUME BarrierInv', Now' \notin {1, 2}
  PROVE  Agreed' /\ RoundIsQuiet'
  <1>1. \A t \in Threads : at'[t] \notin InRound
    <2>1. ASSUME NEW t \in Threads, at'[t] \in InRound PROVE FALSE
      <3>1. Phase(at'[t]) = Now'
        BY <2>1 DEF BarrierInv, InStep, Members, InRound, Outside
      <3> QED BY <2>1, <3>1 DEF Phase, First, InRound
    <2> QED BY <2>1
  <1> QED BY <1>1 DEF Agreed, RoundIsQuiet, InRound, Looked

LEMMA FirstPhase ==
  ASSUME BarrierInv', Now' = 0
  PROVE  Agreed' /\ RoundIsQuiet' /\ Finished'
  BY SMT, NotInRound DEF Finished

-----------------------------------------------------------------------------
(* Marking *)

LEMMA MarkFacts ==
  ASSUME WorkTypes, NEW t \in Threads, NEW rest, NEW off, NEW s,
         rest \subseteq Objects, s \subseteq Objects, Mark(t, rest, off, s)
  PROVE  /\ local' \in [Threads -> SUBSET Objects] /\ stack' \subseteq Objects
         /\ stack \subseteq stack' /\ \A u \in Threads \ {t} : local'[u] = local[u]
         /\ \A o \in rest \cup (s \ (marked \cup Instructions)) : o \in stack' \/ o \in local'[t]
         /\ s \subseteq marked \cup Instructions => stack' = stack /\ local'[t] = rest
  <1> DEFINE new == s \ (marked \cup Instructions)
  <1>1. PICK p \in SUBSET (rest \cup new) :
          /\ p = {} \/ new \ p # {}
          /\ local' = [local EXCEPT ![t] = (rest \cup new) \ p]
          /\ stack' = stack \cup p
    BY DEF Mark, Push, Fills
  <1>2. local'[t] = (rest \cup new) \ p
    BY <1>1 DEF WorkTypes
  <1>3. s \subseteq marked \cup Instructions => p = {} /\ new = {}
    BY <1>1
  <1> QED BY <1>1, <1>2, <1>3 DEF WorkTypes

LEMMA DeferFacts ==
  ASSUME WorkTypes, NEW t \in Threads, NEW off, NEW s, off \subseteq Objects, s \subseteq Objects,
         Defer(t, off, s)
  PROVE  /\ deferred' \subseteq Objects /\ deferred_work' \in [Threads -> SUBSET Objects]
         /\ deferred \subseteq deferred' /\ deferred' \subseteq deferred \cup off \cup Instructions
         /\ \A u \in Threads \ {t} : deferred_work'[u] = deferred_work[u]
         /\ deferred_work'[t] \subseteq off \cup Instructions
         /\ \A o \in off \cup ((s \cap Instructions) \ marked) :
              o \in deferred' \/ o \in deferred_work'[t]
         /\ s = {} => deferred' = deferred /\ deferred_work'[t] = off
  <1> DEFINE new == (s \cap Instructions) \ marked
  <1>1. PICK p \in SUBSET (off \cup new) :
          /\ p = {} \/ new \ p # {}
          /\ deferred_work' = [deferred_work EXCEPT ![t] = (off \cup new) \ p]
          /\ deferred' = deferred \cup p
    BY DEF Defer, Fills
  <1>2. deferred_work'[t] = (off \cup new) \ p
    BY <1>1 DEF WorkTypes
  <1>3. s = {} => p = {} /\ new = {}
    BY <1>1
  <1> QED BY <1>1, <1>2, <1>3 DEF WorkTypes

\* What a marker meets is marked or put off, and so is what it puts off no more.
LEMMA MarkFinds ==
  ASSUME WorkTypes, NEW t \in Threads, NEW rest, NEW off, NEW s, off \subseteq deferred_work[t],
         s \subseteq Objects, Mark(t, rest, off, s),
         marked \cup (s \ Instructions) \cup (deferred_work[t] \ off) \subseteq marked'
  PROVE  Found \subseteq Found' /\ s \subseteq Found' /\ PutOff \ PutOff' \subseteq marked' \cap (deferred_work[t] \ off)
  <1>1. off \subseteq Objects /\ Defer(t, off, s) /\ deferred_work[t] \subseteq Objects
    BY DEF WorkTypes, Mark
  <1>2. /\ deferred \subseteq deferred'
        /\ \A u \in Threads \ {t} : deferred_work'[u] = deferred_work[u]
    BY SMT, <1>1, DeferFacts
  <1>3. \A o \in off \cup ((s \cap Instructions) \ marked) :
          o \in deferred' \/ o \in deferred_work'[t]
    BY SMT, <1>1, DeferFacts
  <1>4. \A o \in off \cup ((s \cap Instructions) \ marked) : o \in PutOff'
    BY <1>1, <1>3 DEF PutOff
  <1>5. \A o \in PutOff : o \in PutOff' \/ o \in deferred_work[t] \ off
    BY <1>2, <1>4 DEF PutOff
  <1> QED BY <1>4, <1>5 DEF Found

\* Marking loses no object.
LEMMA CoveredStep ==
  ASSUME WorkInv, Now < 3, marked \subseteq marked', Found \subseteq Found',
         slice' => slice \/ Roots \subseteq Found',
         \A o \in Deferred \ PutOff' : o \notin PutOff \/ {o} \cup Pointers(o) \subseteq Found',
         \A o \in marked' \ marked : Listed(o)' \/ Pointers(o) \subseteq Found',
         \A o \in marked : Listed(o) => Listed(o)' \/ Pointers(o) \subseteq Found'
  PROVE  Covered'
  <1>1. Covered /\ ~(Now >= 3)
    BY SMT DEF WorkInv, Now, Phase
  <1>3. (GrayAll \cup PendingAll \subseteq marked)'
    BY <1>1 DEF Covered, GrayAll, PendingAll
  <1>4. \A o \in marked' : Listed(o)' \/ Pointers(o) \subseteq Found'
    BY <1>1 DEF Covered
  <1>5. \A o \in Deferred \ PutOff' : {o} \cup Pointers(o) \subseteq Found'
    BY <1>1 DEF Covered
  <1>6. slice' => Roots \subseteq Found'
    BY <1>1 DEF Covered
  <1> QED BY <1>3, <1>4, <1>5, <1>6 DEF Covered, Pointers

\* A step that neither marks nor puts off.
LEMMA CoveredSame ==
  ASSUME Covered, UNCHANGED <<marked, deferred, deferred_work, slice>>, Now >= 3 => Now' >= 3,
         \A o \in marked : Listed(o) => \/ Listed(o)'
                                        \/ Now' >= 3 /\ o \in WeakProps /\ Key[o] \notin marked
  PROVE  Covered'
  <1>1. Found' = Found /\ PutOff' = PutOff
    BY DEF Found, PutOff
  <1>2. (GrayAll \cup PendingAll \subseteq marked)'
    BY DEF Covered, GrayAll, PendingAll
  <1>3. \A o \in marked' : \/ Listed(o)' \/ Pointers(o) \subseteq Found'
                           \/ Now' >= 3 /\ o \in WeakProps /\ Key[o] \notin marked'
    BY <1>1 DEF Covered
  <1>4. \A o \in Deferred \ PutOff' : {o} \cup Pointers(o) \subseteq Found'
    BY <1>1 DEF Covered
  <1>5. slice' => Roots \subseteq Found'
    BY <1>1 DEF Covered
  <1> QED BY <1>2, <1>3, <1>4, <1>5 DEF Covered, Pointers

LEMMA DeferKept ==
  ASSUME WorkInv, UNCHANGED <<deferred, deferred_work>>,
         \A u \in Threads : \/ Stage(at'[u]) = Stage(at[u])
                            \/ /\ deferred_work[u] = {}
                               /\ deferred = {} \/ Stage(at'[u]) \in {"before", "deferred"}
  PROVE  DeferredDone'
  <1>1. DeferredDone
    BY DEF WorkInv
  <1> SUFFICES ASSUME NEW u \in Threads
               PROVE  /\ Stage(at'[u]) \in {"past", "done"} => deferred \subseteq Instructions
                      /\ Stage(at'[u]) \in {"before", "done"} => deferred_work[u] = {}
                      /\ Stage(at'[u]) = "done" => deferred = {}
                      /\ \A o \in deferred_work[u] \ Instructions :
                           Stage(at'[u]) = "deferred" /\ deferred_work[u] = {o}
    BY DEF DeferredDone, Stage
  <1>2. CASE Stage(at'[u]) = Stage(at[u])
    BY <1>1, <1>2 DEF DeferredDone
  <1>3. CASE /\ deferred_work[u] = {}
             /\ deferred = {} \/ Stage(at'[u]) \in {"before", "deferred"}
    BY <1>3
  <1> QED BY <1>2, <1>3

\* A marker moves without touching a deferred object.
LEMMA DeferMoves ==
  ASSUME WorkInv, UNCHANGED <<deferred, deferred_work>>, NEW t \in Threads, NEW l,
         at \in [Threads -> Places], at' = [at EXCEPT ![t] = l],
         \/ Stage(l) = Stage(at[t])
         \/ /\ deferred_work[t] = {}
            /\ deferred = {} \/ Stage(l) \in {"before", "deferred"}
  PROVE  DeferredDone'
  <1>1. at'[t] = l /\ \A u \in Threads \ {t} : at'[u] = at[u]
    OBVIOUS
  <1>2. \A u \in Threads \ {t} : Stage(at'[u]) = Stage(at[u])
    BY <1>1
  <1>3. \/ Stage(at'[t]) = Stage(at[t])
        \/ /\ deferred_work[t] = {}
           /\ deferred = {} \/ Stage(at'[t]) \in {"before", "deferred"}
    BY <1>1
  <1> QED BY <1>2, <1>3, DeferKept

LEMMA NotDone ==
  ASSUME BarrierInv, Now < 3
  PROVE  \A u \in Threads : Stage(at[u]) # "done"
  <1>1. ASSUME NEW u \in Threads, Stage(at[u]) = "done" PROVE FALSE
    <2>1. at[u] \in Mourning \cup {"sync4"} /\ at[u] \notin Outside
      BY <1>1 DEF Stage, Before
    <2>2. Phase(at[u]) = Now
      BY <2>1 DEF BarrierInv, InStep, Members
    <2> QED BY SMT, <2>1, <2>2 DEF Phase, First, Mourning
  <1> QED BY <1>1

\* A marker that is not through for the second time puts Instructions off.
LEMMA MarkDefers ==
  ASSUME WorkInv, BarrierInv, Now < 3, NEW t \in Threads, NEW off, NEW s,
         off \subseteq Instructions, off \subseteq Objects, s \subseteq Objects, Defer(t, off, s),
         \A u \in Threads \ {t} : at'[u] = at[u],
         \/ Stage(at'[t]) = "deferred"
         \/ Stage(at'[t]) = "past" /\ Stage(at[t]) = "past"
  PROVE  DeferredDone'
  <1>1. DeferredDone /\ WorkTypes
    BY DEF WorkInv
  <1>2. /\ deferred' \subseteq deferred \cup Instructions /\ deferred_work'[t] \subseteq Instructions
        /\ \A u \in Threads \ {t} : deferred_work'[u] = deferred_work[u]
    <2>1. /\ deferred' \subseteq deferred \cup off \cup Instructions
          /\ deferred_work'[t] \subseteq off \cup Instructions
      BY SMT, <1>1, DeferFacts
    <2>2. \A u \in Threads \ {t} : deferred_work'[u] = deferred_work[u]
      BY <1>1, DeferFacts
    <2> QED BY <2>1, <2>2
  <1> SUFFICES ASSUME NEW u \in Threads
               PROVE  /\ Stage(at'[u]) \in {"past", "done"} => deferred' \subseteq Instructions
                      /\ Stage(at'[u]) \in {"before", "done"} => deferred_work'[u] = {}
                      /\ Stage(at'[u]) = "done" => deferred' = {}
                      /\ \A o \in deferred_work'[u] \ Instructions :
                           Stage(at'[u]) = "deferred" /\ deferred_work'[u] = {o}
    BY DEF DeferredDone, Stage
  <1>3. CASE u = t
    BY <1>1, <1>2, <1>3 DEF DeferredDone
  <1>4. CASE u # t
    <2>1. at'[u] = at[u] /\ deferred_work'[u] = deferred_work[u] /\ Stage(at[u]) # "done"
      BY <1>2, <1>4, NotDone
    <2> QED BY <1>1, <1>2, <2>1 DEF DeferredDone
  <1> QED BY <1>3, <1>4

LEMMA BusyGrows ==
  ASSUME WorkInv, NEW t \in Threads, t \notin Busy, Busy' = Busy \cup {t}, num_busy' = num_busy + 1
  PROVE  BusyCounted'
  <1>1. Busy \in SUBSET Threads
    BY DEF Busy
  <1> QED BY <1>1, Counting DEF WorkInv, BusyCounted

LEMMA BusyShrinks ==
  ASSUME WorkInv, NEW t \in Threads, t \in Busy, Busy' = Busy \ {t}, num_busy' = num_busy - 1
  PROVE  BusyCounted'
  <1>1. Busy \in SUBSET Threads
    BY DEF Busy
  <1> QED BY <1>1, Counting DEF WorkInv, BusyCounted

LEMMA BecomesBusyInv ==
  ASSUME Inv, NEW t \in Threads, BecomesBusy(t)
  PROVE  Inv'
  <1> USE DEF BecomesBusy, Goto, visitors, heap, barrier
  <1>1. BarrierInv' /\ Moves(t, "roots") /\ at[t] = "entered" /\ Now = 0
    BY FirstPhaseStep DEF Inv, First, Moves
  <1>2. WorkTypes'
    BY DEF Inv, WorkInv, WorkTypes
  <1>3. BusyCounted'
    <2>1. t \notin Busy /\ Busy' = Busy \cup {t}
      BY <1>1 DEF Busy, Moves
    <2> QED BY <2>1, BusyGrows DEF Inv
  <1>4. Served'
    <2>1. \A u \in Threads : Active(u) => Active(u)'
      BY <1>1 DEF Active, Moves
    <2> QED BY <1>1, <2>1 DEF Inv, WorkInv, Served, Moves
  <1>5. RootsDone'
    BY <1>1 DEF Inv, WorkInv, RootsDone, Moves, Before
  <1>7. DeferredDone'
    BY <1>1, DeferMoves DEF Inv, Moves, Stage, Before
  <1>6. Covered'
    <2>1. \A o : Listed(o) => Listed(o)'
      BY DEF Listed
    <2> QED BY <1>1, <2>1, CoveredSame DEF Inv, WorkInv, Moves
  <1> QED BY <1>1, <1>2, <1>3, <1>4, <1>5, <1>6, <1>7, FirstPhase DEF Inv, WorkInv, Moves

LEMMA IterateRootsInv ==
  ASSUME Inv, NEW t \in Threads, IterateRoots(t)
  PROVE  Inv'
  <1> USE DEF IterateRoots, Goto, barrier
  <1>1. BarrierInv' /\ Moves(t, "deferred") /\ at[t] = "roots" /\ Now = 0
    BY FirstPhaseStep DEF Inv, First, Moves
  <1>0. WorkTypes /\ Roots \subseteq Objects /\ local[t] \subseteq Objects /\ deferred_work[t] = {}
    BY <1>1, ParallelMarkAssumption DEF Inv, WorkInv, WorkTypes, DeferredDone, Stage, Before
  <1>2. /\ local' \in [Threads -> SUBSET Objects] /\ stack' \subseteq Objects
        /\ stack \subseteq stack' /\ \A u \in Threads \ {t} : local'[u] = local[u]
        /\ \A o \in local[t] : o \in stack' \/ o \in local'[t]
        /\ marked \subseteq marked' /\ marked' \subseteq Objects
        /\ \A o \in marked' \ marked : o \in stack' \/ o \in local'[t]
    <2>1. CASE slice
      BY <1>0, <2>1 DEF WorkTypes
    <2>2. CASE ~slice
      BY SMT, <1>0, <2>2, MarkFacts DEF WorkTypes, MarkBits
    <2> QED BY <2>1, <2>2
  <1>8. /\ deferred' \subseteq Objects /\ deferred_work' \in [Threads -> SUBSET Objects]
        /\ Found \subseteq Found' /\ Roots \subseteq Found' /\ PutOff \subseteq PutOff'
        /\ DeferredDone'
    <2>1. CASE slice
      <3>1. DeferredDone'
        BY <1>0, <1>1, <2>1, DeferMoves DEF Inv, Moves, Stage, Before, Outside
      <3>2. PutOff' = PutOff /\ Found' = Found
        BY <2>1 DEF PutOff, Found
      <3> QED BY <1>0, <2>1, <3>1, <3>2 DEF WorkTypes, Inv, WorkInv, Covered
    <2>2. CASE ~slice
      <3>1. Mark(t, local[t], deferred_work[t], Roots) /\ Defer(t, deferred_work[t], Roots)
            /\ marked' = marked \cup (Roots \ Instructions) /\ deferred_work[t] \subseteq Objects
        BY <1>0, <2>2 DEF Mark, MarkBits
      <3>2. deferred' \subseteq Objects /\ deferred_work' \in [Threads -> SUBSET Objects]
        BY <1>0, <3>1, DeferFacts
      <3>3. Found \subseteq Found' /\ Roots \subseteq Found' /\ PutOff \subseteq PutOff'
        BY <1>0, <3>1, MarkFinds
      <3>4. Stage(at'[t]) = "deferred" /\ \A u \in Threads \ {t} : at'[u] = at[u]
        BY <1>1 DEF Moves, Stage, Before, Outside
      <3>5. Now < 3 /\ WorkInv /\ BarrierInv /\ deferred_work[t] \subseteq Instructions
        BY SMT, <1>0, <1>1 DEF Inv
      <3> HIDE DEF IterateRoots
      <3>6. DeferredDone'
        BY <1>0, <3>1, <3>4, <3>5, MarkDefers
      <3> QED BY <3>2, <3>3, <3>6
    <2> QED BY <2>1, <2>2
  <1>3. WorkTypes'
    BY <1>2, <1>8 DEF Inv, WorkInv, WorkTypes
  <1>4. BusyCounted'
    <2>1. Busy' = Busy
      BY <1>1 DEF Busy, Moves
    <2> QED BY <2>1 DEF Inv, WorkInv, BusyCounted
  <1>5. Served'
    <2>1. \A u \in Threads : Active(u)' <=> Active(u)
      BY <1>1 DEF Active, Moves
    <2>2. Active(t)'
      BY <1>1 DEF Active, Moves
    <2> QED BY <1>1, <1>2, <2>1, <2>2 DEF Inv, WorkInv, Served, Moves
  <1>6. RootsDone'
    BY <1>1 DEF Inv, WorkInv, RootsDone, Moves, Before
  <1>7. Covered'
    <2>1. \A o : Listed(o) => Listed(o)'
      BY <1>2 DEF Listed
    <2>2. \A o \in marked' \ marked : Listed(o)'
      BY <1>2 DEF Listed
    <2>3. WorkInv /\ Now < 3
      BY SMT, <1>1 DEF Inv
    <2> HIDE DEF IterateRoots
    <2> QED BY <1>2, <1>8, <2>1, <2>2, <2>3, CoveredStep
  <1> QED BY <1>1, <1>3, <1>4, <1>5, <1>6, <1>7, <1>8, FirstPhase DEF Inv, WorkInv, Moves

\* A marker goes through the deferred objects before the loop.
LEMMA DeferredStepInv ==
  ASSUME Inv, NEW t \in Threads, NEW o, pc[t] = "deferred", ProcessDeferredMarking(t, o)
  PROVE  Inv'
  <1> USE DEF barrier
  <1>0. /\ o \in deferred_work[t] /\ Mark(t, local[t], deferred_work[t] \ {o}, Pointers(o))
        /\ marked' = marked \cup {o} \cup (Pointers(o) \ Instructions)
        /\ UNCHANGED <<barrier, pc, num_busy, delayed, todo, more, slice>>
    BY DEF ProcessDeferredMarking
  <1>1. BarrierInv' /\ Moves(t, "deferred") /\ at[t] = "deferred" /\ Now = 0
    <2>1. pc' = [pc EXCEPT ![t] = "deferred"]
      BY <1>0 DEF Inv, BarrierInv, BarrierTypes
    <2> QED BY <1>0, <2>1, FirstPhaseStep DEF Inv, First, Moves
  <1>2. at' = at
    BY <1>1 DEF Moves
  <1>3. /\ Pointers(o) \subseteq Objects /\ o \in Objects /\ local[t] \subseteq Objects /\ WorkTypes
        /\ deferred_work[t] \ {o} \subseteq Objects
    BY <1>0, ParallelMarkAssumption DEF Pointers, Inv, WorkInv, WorkTypes
  <1>4. /\ local' \in [Threads -> SUBSET Objects] /\ stack' \subseteq Objects
        /\ stack \subseteq stack' /\ \A u \in Threads \ {t} : local'[u] = local[u]
        /\ \A x \in local[t] \cup (Pointers(o) \ (marked \cup Instructions)) :
             x \in stack' \/ x \in local'[t]
    BY SMT, <1>0, <1>3, MarkFacts
  <1>5. /\ Found \subseteq Found' /\ Pointers(o) \subseteq Found'
        /\ PutOff \ PutOff' \subseteq {o} /\ o \in Found'
    <2>1. marked \cup (Pointers(o) \ Instructions) \cup (deferred_work[t] \ (deferred_work[t] \ {o}))
            \subseteq marked'
      BY <1>0
    <2>2. Found \subseteq Found' /\ Pointers(o) \subseteq Found'
      BY SMT, <1>0, <1>3, <2>1, MarkFinds
    <2>3. PutOff \ PutOff' \subseteq marked' \cap (deferred_work[t] \ (deferred_work[t] \ {o}))
      BY SMT, <1>0, <1>3, <2>1, MarkFinds
    <2> QED BY <1>0, <2>2, <2>3 DEF Found
  <1>6. DeferredDone' /\ WorkTypes'
    <2>1. Defer(t, deferred_work[t] \ {o}, Pointers(o))
      BY <1>0 DEF Mark
    <2>2. deferred' \subseteq Objects /\ deferred_work' \in [Threads -> SUBSET Objects]
      BY <1>3, <2>1, DeferFacts
    <2>3. WorkTypes'
      BY <1>0, <1>3, <1>4, <2>2 DEF WorkTypes
    <2>4. deferred_work[t] \ {o} \subseteq Instructions
      BY <1>0 DEF Inv, WorkInv, DeferredDone
    <2>5. Stage(at'[t]) = "deferred" /\ \A u \in Threads \ {t} : at'[u] = at[u]
      BY <1>1, <1>2 DEF Stage, Before, Outside
    <2>6. Now < 3 /\ WorkInv /\ BarrierInv
      BY SMT, <1>1 DEF Inv
    <2>7. DeferredDone'
      BY <1>3, <2>1, <2>4, <2>5, <2>6, MarkDefers
    <2> QED BY <2>3, <2>7
  <1>7. BusyCounted'
    BY <1>0, <1>2 DEF Inv, WorkInv, BusyCounted, Busy
  <1>8. Served'
    <2>1. \A u \in Threads : Active(u)' <=> Active(u)
      BY <1>0, <1>2 DEF Active
    <2>2. Active(t)
      BY <1>1 DEF Active
    <2> QED BY <1>0, <1>2, <1>4, <2>1, <2>2 DEF Inv, WorkInv, Served
  <1>9. RootsDone'
    BY <1>0, <1>2 DEF Inv, WorkInv, RootsDone
  <1>10. Covered'
    <2>1. \A x : Listed(x) => Listed(x)'
      BY <1>0, <1>4 DEF Listed
    <2>2. \A x \in marked' \ marked : Listed(x)' \/ Pointers(x) \subseteq Found'
      BY <1>0, <1>4, <1>5 DEF Listed
    <2>3. WorkInv /\ Now < 3 /\ marked \subseteq marked' /\ slice' = slice
      BY SMT, <1>0, <1>1 DEF Inv
    <2>4. \A x \in Deferred \ PutOff' : x \notin PutOff \/ {x} \cup Pointers(x) \subseteq Found'
      BY <1>5
    <2> QED BY <1>5, <2>1, <2>2, <2>3, <2>4, CoveredStep
  <1> QED BY <1>1, <1>6, <1>7, <1>8, <1>9, <1>10, FirstPhase DEF Inv, WorkInv, Moves

\* After the loop only Instructions are left, which point to nothing.
LEMMA DeferredAgainInv ==
  ASSUME Inv, NEW t \in Threads, NEW o, pc[t] = "deferred2", ProcessDeferredMarking(t, o)
  PROVE  Inv'
  <1> USE DEF barrier
  <1>0. /\ o \in deferred_work[t] /\ Mark(t, local[t], deferred_work[t] \ {o}, Pointers(o))
        /\ marked' = marked \cup {o} \cup (Pointers(o) \ Instructions)
        /\ UNCHANGED <<barrier, pc, num_busy, delayed, todo, more, slice>>
    BY DEF ProcessDeferredMarking
  <1>1. BarrierInv' /\ Moves(t, "deferred2") /\ at[t] = "deferred2" /\ Now = 3
    <2>1. pc' = [pc EXCEPT ![t] = "deferred2"]
      BY <1>0 DEF Inv, BarrierInv, BarrierTypes
    <2>2. "deferred2" \in Places \ (Outside \cup Syncs \cup {"spawn", "finalize"}) /\ Phase("deferred2") = 3
      BY DEF Outside, Syncs, First, Places, Phase
    <2>3. BarrierInv' /\ Moves(t, "deferred2")
      BY <1>0, <2>1, <2>2, PhaseStep DEF Inv
    <2>4. Now = 3
      BY <2>2, PhaseOf DEF Inv
    <2> QED BY <2>3, <2>4 DEF Moves
  <1>2. at' = at /\ Now' = Now
    BY <1>1 DEF Moves
  <1>3. WorkTypes /\ Stage(at[t]) = "past" /\ DeferredDone
    BY <1>1 DEF Inv, WorkInv, Stage, Before, Outside, Mourning
  <1>4. deferred_work[t] \subseteq Instructions /\ o \in Instructions /\ o \in Objects
    BY <1>0, <1>3 DEF DeferredDone, WorkTypes
  <1>5. Pointers(o) = {} /\ \A w \in WeakProps : Key[w] # o
    BY <1>4, InstructionsAssumption DEF Pointers
  <1>6. stack' = stack /\ local' = local
    <2>1. local[t] \subseteq Objects /\ Pointers(o) \subseteq Objects
      BY <1>3, <1>5 DEF WorkTypes
    <2>2. stack' = stack /\ local'[t] = local[t] /\ local' \in [Threads -> SUBSET Objects]
          /\ \A u \in Threads \ {t} : local'[u] = local[u]
      BY SMT, <1>0, <1>3, <1>5, <2>1, MarkFacts
    <2>3. \A u \in Threads : local'[u] = local[u]
      BY <2>2
    <2> QED BY SMT, <1>3, <2>2, <2>3 DEF WorkTypes
  <1>7. /\ deferred' = deferred /\ deferred_work' \in [Threads -> SUBSET Objects]
        /\ deferred_work'[t] = deferred_work[t] \ {o}
        /\ \A u \in Threads \ {t} : deferred_work'[u] = deferred_work[u]
    <2>1. Defer(t, deferred_work[t] \ {o}, {}) /\ deferred_work[t] \ {o} \subseteq Objects
      BY <1>0, <1>3, <1>5 DEF Mark, WorkTypes
    <2>2. deferred' = deferred /\ deferred_work'[t] = deferred_work[t] \ {o}
      BY SMT, <1>3, <2>1, DeferFacts
    <2>3. /\ deferred_work' \in [Threads -> SUBSET Objects]
          /\ \A u \in Threads \ {t} : deferred_work'[u] = deferred_work[u]
      BY SMT, <1>3, <2>1, DeferFacts
    <2> QED BY <2>2, <2>3
  <1>8. marked' = marked \cup {o}
    BY <1>0, <1>5
  <1>9. WorkTypes'
    BY <1>0, <1>3, <1>4, <1>6, <1>7, <1>8 DEF WorkTypes
  <1>10. BusyCounted' /\ Served' /\ RootsDone'
    <2>1. \A u \in Threads : Active(u)' <=> Active(u)
      BY <1>0, <1>2 DEF Active
    <2>2. BusyCounted' /\ RootsDone'
      BY <1>0, <1>2 DEF Inv, WorkInv, BusyCounted, Busy, RootsDone
    <2> QED BY <1>0, <1>2, <1>6, <2>1, <2>2 DEF Inv, WorkInv, Served
  <1>11. DeferredDone'
    <2> SUFFICES ASSUME NEW u \in Threads
                 PROVE  /\ Stage(at[u]) \in {"past", "done"} => deferred' \subseteq Instructions
                        /\ Stage(at[u]) \in {"before", "done"} => deferred_work'[u] = {}
                        /\ Stage(at[u]) = "done" => deferred' = {}
                        /\ \A x \in deferred_work'[u] \ Instructions :
                             Stage(at[u]) = "deferred" /\ deferred_work'[u] = {x}
      BY <1>2 DEF DeferredDone, Stage
    <2>1. CASE u = t
      BY <1>3, <1>4, <1>7, <2>1 DEF DeferredDone
    <2>2. CASE u # t
      BY <1>3, <1>7, <2>2 DEF DeferredDone
    <2> QED BY <2>1, <2>2
  <1>12. Found \subseteq Found' /\ PutOff \ PutOff' \subseteq {o} /\ o \in Found'
    BY <1>7, <1>8 DEF Found, PutOff
  <1>13. Covered'
    <2>1. Covered /\ \A x : Listed(x)' <=> Listed(x)
      BY <1>0, <1>6 DEF Inv, WorkInv, Listed
    <2>2. (GrayAll \cup PendingAll \subseteq marked)'
      BY <1>8, <2>1 DEF Covered, GrayAll, PendingAll
    <2>3. slice' => Roots \subseteq Found'
      BY <1>0, <1>12, <2>1 DEF Covered
    <2>4. \A x \in Deferred \ PutOff' : {x} \cup Pointers(x) \subseteq Found'
      <3>1. ASSUME NEW x \in Deferred \ PutOff' PROVE {x} \cup Pointers(x) \subseteq Found'
        <4>1. CASE x = o
          BY <1>5, <1>12, <4>1
        <4>2. CASE x # o
          BY <1>12, <2>1, <3>1, <4>2 DEF Covered
        <4> QED BY <4>1, <4>2
      <3> QED BY <3>1
    <2>5. \A x \in marked' : \/ Listed(x)' \/ Pointers(x) \subseteq Found'
                             \/ Now' >= 3 /\ x \in WeakProps /\ Key[x] \notin marked'
      <3>1. ASSUME NEW x \in marked'
            PROVE \/ Listed(x)' \/ Pointers(x) \subseteq Found'
                  \/ Now' >= 3 /\ x \in WeakProps /\ Key[x] \notin marked'
        <4>1. CASE x = o
          BY <1>5, <4>1
        <4>2. CASE x \in marked
          <5>1. \/ Listed(x) \/ Pointers(x) \subseteq Found
                \/ Now >= 3 /\ x \in WeakProps /\ Key[x] \notin marked
            BY <2>1, <4>2 DEF Covered
          <5> QED BY <1>2, <1>5, <1>8, <1>12, <2>1, <5>1
        <4> QED BY <1>8, <4>1, <4>2
      <3> QED BY <3>1
    <2> QED BY <2>2, <2>3, <2>4, <2>5 DEF Covered, Pointers
  <1>14. Finished'
    <2>1. \A u \in Threads : White(delayed[u]) => White(delayed[u])'
      BY <1>0, <1>3, <1>5, <1>8 DEF White, WorkTypes
    <2>2. Finished /\ Now' = Now
      BY <1>2 DEF Inv, WorkInv
    <2> QED BY <1>0, <1>6, <2>1, <2>2 DEF Finished
  <1>15. Agreed' /\ RoundIsQuiet'
    BY SMT, <1>1, <1>2, NotInRound
  <1> QED BY <1>1, <1>9, <1>10, <1>11, <1>13, <1>14, <1>15 DEF Inv, WorkInv

LEMMA TakeDeferredInv ==
  ASSUME Inv, NEW t \in Threads, TakeDeferred(t)
  PROVE  Inv'
  <1> USE DEF barrier, work, visitors
  <1>0. /\ pc[t] \in {"deferred", "deferred2"} /\ deferred_work[t] = {}
        /\ UNCHANGED <<barrier, pc, work, visitors, marked, slice>> /\ WorkTypes
        /\ Inv /\ WorkInv /\ DeferredDone
    BY DEF TakeDeferred, Inv, WorkInv
  <1>1. PICK o \in deferred : deferred' = deferred \ {o}
                              /\ deferred_work' = [deferred_work EXCEPT ![t] = {o}]
    BY DEF TakeDeferred
  <1>2. /\ deferred_work'[t] = {o} /\ deferred_work' \in [Threads -> SUBSET Objects]
        /\ \A u \in Threads \ {t} : deferred_work'[u] = deferred_work[u]
    BY <1>0, <1>1 DEF WorkTypes
  <1>3. BarrierInv' /\ Moves(t, pc[t]) /\ at' = at /\ at[t] = pc[t]
    <2>1. pc' = [pc EXCEPT ![t] = pc[t]] /\ \A u \in Threads \ {t} : more'[u] = more[u]
      BY <1>0 DEF Inv, BarrierInv, BarrierTypes
    <2>2. pc[t] \in Places \ (Outside \cup Syncs \cup {"spawn", "finalize"})
      BY <1>0 DEF Outside, Syncs, First, Places
    <2>3. BarrierInv' /\ Moves(t, pc[t])
      BY <1>0, <2>1, <2>2, PhaseStep DEF Inv
    <2> QED BY <2>3 DEF Moves
  <1>4. Now' = Now
    BY <1>3 DEF Now
  <1>5. WorkTypes'
    BY <1>0, <1>1, <1>2 DEF WorkTypes
  <1>6. BusyCounted' /\ RootsDone' /\ Agreed' /\ RoundIsQuiet' /\ Finished'
    BY <1>0, <1>3, <1>4
    DEF WorkInv, BusyCounted, Busy, RootsDone, Agreed, RoundIsQuiet, Finished, White
  <1>7. Served'
    BY <1>0, <1>3 DEF WorkInv, Served, Active
  <1>8. DeferredDone'
    <2> SUFFICES ASSUME NEW u \in Threads
                 PROVE  /\ Stage(at[u]) \in {"past", "done"} => deferred' \subseteq Instructions
                        /\ Stage(at[u]) \in {"before", "done"} => deferred_work'[u] = {}
                        /\ Stage(at[u]) = "done" => deferred' = {}
                        /\ \A x \in deferred_work'[u] \ Instructions :
                             Stage(at[u]) = "deferred" /\ deferred_work'[u] = {x}
      BY <1>3 DEF DeferredDone, Stage
    <2>1. CASE u = t
      <3>1. Stage(at[t]) \in {"deferred", "past"}
        BY <1>0, <1>3 DEF Stage, Before, Outside, Mourning
      <3> QED BY <1>0, <1>1, <1>2, <2>1, <3>1 DEF DeferredDone
    <2>2. CASE u # t
      BY <1>0, <1>1, <1>2, <2>2 DEF DeferredDone
    <2> QED BY <2>1, <2>2
  <1>9. Covered'
    <2>1. PutOff' = PutOff
      BY <1>0, <1>1, <1>2 DEF PutOff
    <2>2. Found' = Found /\ \A x : Listed(x)' <=> Listed(x)
      BY <1>0, <2>1 DEF Found, Listed
    <2>3. Covered
      BY <1>0 DEF WorkInv
    <2> QED BY <1>0, <1>4, <2>1, <2>2, <2>3 DEF Covered, GrayAll, PendingAll, Pointers
  <1> QED BY <1>3, <1>5, <1>6, <1>7, <1>8, <1>9 DEF Inv, WorkInv

LEMMA DeferredEndsInv ==
  ASSUME Inv, NEW t \in Threads, DeferredMarkingEnds(t)
  PROVE  Inv'
  <1> USE DEF barrier, Goto, work, visitors, heap, DeferredMarkingEnds
  <1> DEFINE l == IF pc[t] = "deferred" THEN "drain" ELSE "sync4"
  <1>1. BarrierInv' /\ Moves(t, l)
    <2>1. Phase(l) = Phase(pc[t]) /\ l \notin Outside \cup {"spawn", "finalize"} /\ l \in Places
          /\ pc[t] \notin Outside \cup Syncs
      BY DEF Outside, Syncs, First, Places, Phase
    <2> QED BY <2>1, PhaseStep DEF Inv
  <1>2. at[t] = pc[t]
    BY <1>1 DEF Moves
  <1>3. WorkTypes'
    BY DEF Inv, WorkInv, WorkTypes
  <1>4. BusyCounted'
    <2>1. Busy' = Busy
      BY <1>1 DEF Busy, Moves
    <2> QED BY <2>1 DEF Inv, WorkInv, BusyCounted
  <1>5. Served'
    <2>1. \A u \in Threads : Active(u)' <=> Active(u)
      BY <1>1 DEF Active, Moves
    <2> QED BY <1>1, <2>1 DEF Inv, WorkInv, Served, Moves
  <1>6. RootsDone' /\ DeferredDone'
    <2>1. RootsDone'
      BY <1>1 DEF Inv, WorkInv, RootsDone, Moves, Before, Outside
    <2>2. DeferredDone'
      BY <1>1, DeferMoves DEF Inv, Moves
    <2> QED BY <2>1, <2>2
  <1>7. Covered' /\ Finished'
    <2>1. Finished'
      BY <1>1 DEF Inv, WorkInv, Finished, Moves, White
    <2>2. \A o : Listed(o) => Listed(o)'
      BY DEF Listed
    <2> QED BY <1>1, <2>1, <2>2, CoveredSame DEF Inv, WorkInv, Moves
  <1>8. Agreed' /\ RoundIsQuiet'
    <2>1. Now' \notin {1, 2}
      BY SMT, <1>1, PhaseOf DEF Inv, Moves, Phase, First, Outside, Syncs
    <2> QED BY <1>1, <2>1, NotInRound
  <1> QED BY <1>1, <1>3, <1>4, <1>5, <1>6, <1>7, <1>8 DEF Inv, WorkInv

LEMMA DrainEndsInv ==
  ASSUME Inv, NEW t \in Threads, DrainEnds(t)
  PROVE  Inv'
  <1> USE DEF barrier, Goto, DrainEnds, work, visitors, heap
  <1> DEFINE l == IF more[t] THEN "drain" ELSE "wait_for_work"
  <1>1. BarrierInv' /\ Moves(t, l) /\ at[t] = "drain_weak" /\ Now = 0
    BY FirstPhaseStep DEF Inv, First, Moves
  <1>2. WorkTypes'
    BY DEF Inv, WorkInv, WorkTypes
  <1>3. BusyCounted'
    <2>1. Busy' = Busy
      BY <1>1 DEF Busy, Moves
    <2> QED BY <2>1 DEF Inv, WorkInv, BusyCounted
  <1>4. Served'
    <2>1. \A u \in Threads : Active(u)' <=> Active(u)
      BY <1>1 DEF Active, Moves
    <2> QED BY <1>1, <2>1 DEF Inv, WorkInv, Served, Moves
  <1>5. RootsDone'
    BY <1>1 DEF Inv, WorkInv, RootsDone, Moves, Before, Outside
  <1>7. DeferredDone'
    <2>1. Stage(l) = Stage(at[t])
      BY <1>1 DEF Stage, Before, Outside, Mourning
    <2> QED BY <1>1, <2>1, DeferMoves DEF Inv, Moves
  <1>6. Covered'
    <2>1. \A o : Listed(o) => Listed(o)'
      BY DEF Listed
    <2> QED BY <1>1, <2>1, CoveredSame DEF Inv, WorkInv, Moves
  <1> QED BY <1>1, <1>2, <1>3, <1>4, <1>5, <1>6, <1>7, FirstPhase DEF Inv, WorkInv, Moves

\* A marker in the drain, or on its way there, takes a block.
LEMMA TakeBlockInv ==
  ASSUME Inv, NEW t \in Threads, TakeBlock(t), Goto(t, "drain"),
         UNCHANGED <<barrier, delayed, todo, more, heap>>,
         \/ pc[t] \in {"drain", "wait_for_work"} /\ num_busy' = num_busy
         \/ pc[t] = "waiting" /\ num_busy' = num_busy + 1
  PROVE  Inv'
  <1> USE DEF barrier, Goto, heap
  <1>1. BarrierInv' /\ Moves(t, "drain") /\ at[t] = pc[t] /\ Now = 0
    BY FirstPhaseStep DEF Inv, First, Moves
  <1>2. PICK o \in stack : /\ stack' = stack \ {o}
                           /\ local' = [local EXCEPT ![t] = local[t] \cup {o}]
    BY DEF TakeBlock
  <1>3. WorkTypes'
    BY <1>2 DEF Inv, WorkInv, WorkTypes
  <1>4. BusyCounted'
    <2>1. CASE pc[t] \in {"drain", "wait_for_work"} /\ num_busy' = num_busy
      <3>1. Busy' = Busy
        BY <1>1, <2>1 DEF Busy, Moves
      <3> QED BY <2>1, <3>1 DEF Inv, WorkInv, BusyCounted
    <2>2. CASE pc[t] = "waiting" /\ num_busy' = num_busy + 1
      <3>1. t \notin Busy /\ Busy' = Busy \cup {t}
        BY <1>1, <2>2 DEF Busy, Moves
      <3> QED BY <2>2, <3>1, BusyGrows DEF Inv
    <2> QED BY <2>1, <2>2
  <1>5. Served'
    <2>1. \A u \in Threads : Active(u) => Active(u)'
      BY <1>1 DEF Active, Moves
    <2>2. Active(t)' /\ \A u \in Threads \ {t} : local'[u] = local[u]
      BY <1>1, <1>2 DEF Active, Moves, Inv, WorkInv, WorkTypes
    <2> QED BY <1>1, <2>1, <2>2 DEF Inv, WorkInv, Served, Moves
  <1>6. RootsDone'
    BY <1>1 DEF Inv, WorkInv, RootsDone, Moves, Before, Outside
  <1>8. DeferredDone'
    BY <1>1, DeferMoves DEF Inv, Moves, Stage, Before, Outside, Mourning
  <1>7. Covered'
    <2>1. \A x : Listed(x) => Listed(x)'
      BY <1>2 DEF Listed, Inv, WorkInv, WorkTypes
    <2> QED BY <1>1, <2>1, CoveredSame DEF Inv, WorkInv, Moves
  <1> QED BY <1>1, <1>3, <1>4, <1>5, <1>6, <1>7, <1>8, FirstPhase DEF Inv, WorkInv, Moves

\* A marker without work waits for the others.
LEMMA IdleInv ==
  ASSUME Inv, NEW t \in Threads, NEW l \in {"waiting", "sync1"}, Goto(t, l),
         UNCHANGED <<barrier, delayed, todo, more, heap, stack, local>>,
         \/ pc[t] = "wait_for_work" /\ num_busy' = num_busy - 1
         \/ pc[t] = "waiting" /\ num_busy' = num_busy
  PROVE  Inv'
  <1> USE DEF barrier, Goto, heap
  <1>1. BarrierInv' /\ Moves(t, l) /\ at[t] = pc[t] /\ Now = 0
    BY FirstPhaseStep DEF Inv, First, Moves
  <1>2. WorkTypes'
    BY DEF Inv, WorkInv, WorkTypes
  <1>3. BusyCounted'
    <2>1. CASE pc[t] = "waiting" /\ num_busy' = num_busy
      <3>1. Busy' = Busy
        BY <1>1, <2>1 DEF Busy, Moves
      <3> QED BY <2>1, <3>1 DEF Inv, WorkInv, BusyCounted
    <2>2. CASE pc[t] = "wait_for_work" /\ num_busy' = num_busy - 1
      <3>1. t \in Busy /\ Busy' = Busy \ {t}
        BY <1>1, <2>2 DEF Busy, Moves
      <3> QED BY <2>2, <3>1, BusyShrinks DEF Inv
    <2> QED BY <2>1, <2>2
  <1>4. Served'
    <2>1. \A u \in Threads : Active(u)' <=> Active(u)
      BY <1>1 DEF Active, Moves
    <2> QED BY <1>1, <2>1 DEF Inv, WorkInv, Served, Moves
  <1>5. RootsDone'
    BY <1>1 DEF Inv, WorkInv, RootsDone, Moves, Before, Outside
  <1>7. DeferredDone'
    BY <1>1, DeferMoves DEF Inv, Moves, Stage, Before, Outside, Mourning
  <1>6. Covered'
    <2>1. \A o : Listed(o) => Listed(o)'
      BY DEF Listed
    <2> QED BY <1>1, <2>1, CoveredSame DEF Inv, WorkInv, Moves
  <1> QED BY <1>1, <1>2, <1>3, <1>4, <1>5, <1>6, <1>7, FirstPhase DEF Inv, WorkInv, Moves

LEMMA PopBlockInv ==
  ASSUME Inv, NEW t \in Threads, PopBlock(t)
  PROVE  Inv'
  <1>1. Goto(t, "drain")
    BY DEF PopBlock, Goto, Inv, BarrierInv, BarrierTypes
  <1> QED BY <1>1, TakeBlockInv DEF PopBlock

LEMMA WaitForWorkInv ==
  ASSUME Inv, NEW t \in Threads, WaitForWork(t)
  PROVE  Inv'
  <1>1. CASE num_busy' = num_busy - 1 /\ UNCHANGED <<stack, local>> /\ Goto(t, "sync1")
    BY <1>1, IdleInv DEF WaitForWork
  <1>2. CASE num_busy' = num_busy - 1 /\ UNCHANGED <<stack, local>> /\ Goto(t, "waiting")
    BY <1>2, IdleInv DEF WaitForWork
  <1>3. CASE num_busy' = num_busy /\ TakeBlock(t) /\ Goto(t, "drain")
    BY <1>3, TakeBlockInv DEF WaitForWork
  <1> QED BY <1>1, <1>2, <1>3 DEF WaitForWork

LEMMA WorkWaiterWakesInv ==
  ASSUME Inv, NEW t \in Threads, WorkWaiterWakes(t)
  PROVE  Inv'
  <1>1. CASE UNCHANGED <<num_busy, stack, local>> /\ Goto(t, "sync1")
    BY <1>1, IdleInv DEF WorkWaiterWakes
  <1>2. CASE num_busy' = num_busy + 1 /\ TakeBlock(t) /\ Goto(t, "drain")
    BY <1>2, TakeBlockInv DEF WorkWaiterWakes
  <1>3. CASE UNCHANGED <<pc, num_busy, stack, local>>
    <2>1. Goto(t, "waiting")
      BY <1>3 DEF Goto, Inv, BarrierInv, BarrierTypes, WorkWaiterWakes
    <2> QED BY <1>3, <2>1, IdleInv DEF WorkWaiterWakes
  <1> QED BY <1>1, <1>2, <1>3 DEF WorkWaiterWakes, work

LEMMA ProcessObjectInv ==
  ASSUME Inv, NEW t \in Threads, NEW o \in Objects, ProcessObject(t, o)
  PROVE  Inv'
  <1> USE DEF barrier
  <1>1. BarrierInv' /\ Moves(t, "drain") /\ at[t] = "drain" /\ Now = 0 /\ at' = at
    <2>1. pc[t] = "drain" /\ pc' = [pc EXCEPT ![t] = "drain"] /\ UNCHANGED <<barrier, more>>
      BY DEF Inv, BarrierInv, BarrierTypes, ProcessObject
    <2>2. BarrierInv' /\ Moves(t, "drain") /\ Now = 0
      BY <2>1, FirstPhaseStep DEF Inv, First
    <2> QED BY <2>1, <2>2 DEF Moves
  <1>2. WorkTypes /\ pc[t] = "drain" /\ o \in local[t]
        /\ UNCHANGED <<num_busy, todo, more, slice>>
    BY DEF Inv, WorkInv, ProcessObject
  <1>3. /\ local' \in [Threads -> SUBSET Objects] /\ stack' \subseteq Objects
        /\ delayed' \in [Threads -> SUBSET WeakProps] /\ marked \subseteq marked'
             /\ marked' \subseteq Objects
        /\ stack \subseteq stack' /\ \A u \in Threads \ {t} : local'[u] = local[u]
             /\ delayed'[u] = delayed[u]
        /\ delayed[t] \subseteq delayed'[t]
        /\ \A x \in local[t] \ {o} : x \in stack' \/ x \in local'[t]
        /\ \A x \in marked' \ marked : x \in stack' \/ x \in local'[t]
    <2>1. CASE o \in WeakProps /\ IsWhite(Key[o])
      BY SMT, <1>2, <2>1 DEF ProcessObject, WorkTypes
    <2>2. CASE ~(o \in WeakProps /\ IsWhite(Key[o]))
      <3>1. Pointers(o) \subseteq Objects /\ local[t] \ {o} \subseteq Objects
        BY <1>2, ParallelMarkAssumption DEF Pointers, WorkTypes
      <3>2. /\ Mark(t, local[t] \ {o}, deferred_work[t], Pointers(o)) /\ delayed' = delayed
            /\ marked' = marked \cup (Pointers(o) \ Instructions)
        BY <2>2 DEF ProcessObject, MarkBits
      <3> QED BY SMT, <1>2, <3>1, <3>2, MarkFacts DEF WorkTypes
    <2> QED BY <2>1, <2>2
  <1>9. /\ deferred' \subseteq Objects /\ deferred_work' \in [Threads -> SUBSET Objects]
        /\ Found \subseteq Found' /\ PutOff \subseteq PutOff' /\ DeferredDone'
        /\ o \in delayed'[t] \/ Pointers(o) \subseteq Found'
    <2>1. CASE o \in WeakProps /\ IsWhite(Key[o])
      <3>1. o \in delayed'[t] /\ UNCHANGED <<marked, deferred, deferred_work>>
        BY <1>2, <2>1 DEF ProcessObject, WorkTypes
      <3>2. DeferredDone'
        BY <1>1, <3>1, DeferKept DEF Inv
      <3>3. PutOff' = PutOff /\ Found' = Found
        BY <3>1 DEF PutOff, Found
      <3> QED BY <1>2, <3>1, <3>2, <3>3 DEF WorkTypes
    <2>2. CASE ~(o \in WeakProps /\ IsWhite(Key[o]))
      <3>1. Pointers(o) \subseteq Objects /\ deferred_work[t] \subseteq Objects
        BY <1>2, ParallelMarkAssumption DEF Pointers, WorkTypes
      <3>2. /\ Mark(t, local[t] \ {o}, deferred_work[t], Pointers(o))
            /\ marked' = marked \cup (Pointers(o) \ Instructions)
        BY <2>2 DEF ProcessObject, MarkBits
      <3>3. Defer(t, deferred_work[t], Pointers(o))
        BY <3>2 DEF Mark
      <3>4. Found \subseteq Found' /\ Pointers(o) \subseteq Found' /\ PutOff \subseteq PutOff'
        BY SMT, <1>2, <3>1, <3>2, MarkFinds
      <3>5. deferred' \subseteq Objects /\ deferred_work' \in [Threads -> SUBSET Objects]
        BY <1>2, <3>1, <3>3, DeferFacts
      <3>6. Stage(at[t]) = "past" /\ Stage(at'[t]) = "past"
        BY <1>1 DEF Stage, Before, Outside, Mourning
      <3>7. Now < 3 /\ WorkInv /\ BarrierInv
        BY SMT, <1>1 DEF Inv
      <3>8. deferred_work[t] \subseteq Instructions
        BY <3>6, <3>7 DEF WorkInv, DeferredDone
      <3>9. DeferredDone'
        BY <1>1, <3>1, <3>3, <3>6, <3>7, <3>8, MarkDefers
      <3> QED BY <3>4, <3>5, <3>9
    <2> QED BY <2>1, <2>2
  <1>4. WorkTypes'
    BY <1>2, <1>3, <1>9 DEF WorkTypes
  <1>5. BusyCounted'
    BY <1>1, <1>2 DEF Inv, WorkInv, BusyCounted, Busy
  <1>6. Served'
    <2>1. Active(t)' /\ \A u \in Threads : Active(u)' <=> Active(u)
      BY <1>1, <1>2 DEF Active
    <2> QED BY <1>1, <1>2, <1>3, <2>1 DEF Inv, WorkInv, Served
  <1>7. RootsDone'
    BY <1>1, <1>2 DEF Inv, WorkInv, RootsDone
  <1>8. Covered'
    <2>1. \A x : Listed(x) => Listed(x)' \/ Pointers(x) \subseteq Found'
      <3>1. ASSUME NEW x, Listed(x), x # o PROVE Listed(x)'
        BY <1>2, <1>3, <3>1 DEF Listed
      <3>2. Listed(o)' \/ Pointers(o) \subseteq Found'
        BY <1>9 DEF Listed
      <3> QED BY <3>1, <3>2
    <2>2. \A x \in marked' \ marked : Listed(x)'
      BY <1>3 DEF Listed
    <2>3. WorkInv /\ Now < 3 /\ marked \subseteq marked' /\ slice' = slice
      BY SMT, <1>1, <1>2, <1>3 DEF Inv
    <2> QED BY <1>9, <2>1, <2>2, <2>3, CoveredStep
  <1> QED BY <1>1, <1>4, <1>5, <1>6, <1>7, <1>8, <1>9, FirstPhase DEF Inv, WorkInv, Moves

\* Nobody decides outside phase 2.
LEMMA NotDeciding ==
  ASSUME BarrierInv', Now' # 2
  PROVE  Agreed'
  <1>1. \A t \in Threads : at'[t] \notin {"decide", "sync3"}
    <2>1. ASSUME NEW t \in Threads, at'[t] \in {"decide", "sync3"} PROVE FALSE
      <3>1. Phase(at'[t]) = Now'
        BY <2>1 DEF BarrierInv, InStep, Members, Outside
      <3> QED BY <2>1, <3>1 DEF Phase, First
    <2> QED BY <2>1
  <1> QED BY <1>1 DEF Agreed

LEMMA PendingBeginsInv ==
  ASSUME Inv, NEW t \in Threads, PendingBegins(t)
  PROVE  Inv'
  <1> USE DEF barrier, Goto, heap, work
  <1> DEFINE l == IF pc[t] = "drain" THEN "drain_weak" ELSE "round_weak"
  <1>1. /\ pc[t] \in {"drain", "pending"} /\ pc' = [pc EXCEPT ![t] = l]
        /\ todo' = [todo EXCEPT ![t] = delayed[t]] /\ delayed' = [delayed EXCEPT ![t] = {}]
        /\ more' = [more EXCEPT ![t] = FALSE]
        /\ UNCHANGED <<barrier, num_busy, stack, waiters, local, marked, deferred, deferred_work,
                       slice>>
        /\ pc[t] = "drain" => local[t] = {} /\ stack = {}
    BY DEF PendingBegins
  <1>2. WorkTypes /\ more \in [Threads -> BOOLEAN]
    BY DEF Inv, WorkInv, WorkTypes
  <1>3. BarrierInv' /\ Moves(t, l) /\ at[t] = pc[t] /\ Now = Phase(pc[t]) /\ Now \in {0, 1}
    <2>1. Phase(l) = Phase(pc[t]) /\ l \notin Outside \cup {"spawn", "finalize"} /\ l \in Places
          /\ pc[t] \notin Outside \cup Syncs /\ Phase(pc[t]) \in {0, 1}
      BY <1>1 DEF Outside, Syncs, First, Places, Phase
    <2>2. \A u \in Threads \ {t} : more'[u] = more[u]
      BY <1>1, <1>2
    <2> QED BY <1>1, <2>1, <2>2, PhaseStep, PhaseOf DEF Inv, Moves
  <1>4. /\ todo'[t] = delayed[t] /\ delayed'[t] = {} /\ more'[t] = FALSE
        /\ \A u \in Threads \ {t} : todo'[u] = todo[u] /\ delayed'[u] = delayed[u]
             /\ more'[u] = more[u]
        /\ todo[t] = {} /\ (pc[t] = "pending" => ~more[t] /\ local[t] = {})
    BY <1>1, <1>2, <1>3 DEF WorkTypes, Inv, WorkInv, Served, Active
  <1>5. WorkTypes'
    BY <1>1, <1>2, ParallelMarkAssumption DEF WorkTypes
  <1>6. BusyCounted'
    <2>1. Busy' = Busy
      BY <1>1, <1>3, <1>4 DEF Busy, Moves
    <2> QED BY <1>1, <2>1 DEF Inv, WorkInv, BusyCounted
  <1>7. Served'
    <2>1. \A u \in Threads \ {t} : (Active(u)' <=> Active(u)) /\ at'[u] = at[u]
      BY <1>3, <1>4 DEF Active, Moves
    <2>2. stack # {} => ~Active(t)
      BY <1>1, <1>3, <1>4 DEF Active
    <2> QED BY <1>1, <1>3, <1>4, <2>1, <2>2 DEF Inv, WorkInv, Served, Moves
  <1>8. RootsDone'
    BY <1>1, <1>3 DEF Inv, WorkInv, RootsDone, Moves, Before, Outside
  <1>12. DeferredDone'
    <2>1. Stage(l) = Stage(at[t])
      BY <1>1, <1>3 DEF Stage, Before, Outside, Mourning
    <2> QED BY <1>1, <1>3, <2>1, DeferMoves DEF Inv, Moves
  <1>9. RoundIsQuiet'
    <2>1. CASE pc[t] = "drain"
      BY SMT, <1>3, <2>1, NotInRound DEF Moves, Phase, First
    <2>2. CASE pc[t] = "pending" /\ \E u \in Threads : at[u] \in InRound /\ more[u]
      BY <1>3, <1>4, <2>2 DEF Moves, RoundIsQuiet
    <2>3. CASE pc[t] = "pending" /\ \A u \in Threads : at[u] \in Looked => White(delayed[u])
      BY <1>1, <1>3, <1>4, <2>3 DEF Moves, RoundIsQuiet, White
    <2> QED BY <1>1, <2>1, <2>2, <2>3 DEF Inv, WorkInv, RoundIsQuiet
  <1>10. Covered'
    <2>1. \A x : Listed(x) => Listed(x)'
      BY <1>1, <1>4 DEF Listed
    <2> QED BY <1>1, <1>3, <2>1, CoveredSame DEF Inv, WorkInv, Moves
  <1>11. Agreed' /\ Finished'
    <2>1. Now' \in {0, 1}
      BY <1>3 DEF Moves
    <2>2. Agreed'
      BY SMT, <1>3, <2>1, NotDeciding
    <2> QED BY SMT, <2>1, <2>2 DEF Finished
  <1> QED BY <1>3, <1>5, <1>6, <1>7, <1>8, <1>9, <1>10, <1>11, <1>12 DEF Inv, WorkInv

LEMMA PendingStepInv ==
  ASSUME Inv, NEW t \in Threads, NEW w \in WeakProps, PendingStep(t, w)
  PROVE  Inv'
  <1> USE DEF barrier
  <1>1. /\ pc[t] \in {"drain_weak", "round_weak"} /\ w \in todo[t] /\ WorkTypes
        /\ todo' = [todo EXCEPT ![t] = todo[t] \ {w}]
        /\ UNCHANGED <<barrier, pc, num_busy, slice>>
    BY DEF PendingStep, Inv, WorkInv
  <1>2. \/ /\ Key[w] \notin marked /\ delayed' = [delayed EXCEPT ![t] = delayed[t] \cup {w}]
           /\ UNCHANGED <<more, marked, local, stack, deferred, deferred_work>>
        \/ /\ Key[w] \in marked /\ more' = [more EXCEPT ![t] = more[t] \/ Value[w] \notin marked]
           /\ Mark(t, local[t], deferred_work[t], {Key[w], Value[w]}) /\ delayed' = delayed
           /\ marked' = marked \cup ({Key[w], Value[w]} \ Instructions)
    BY DEF PendingStep, IsWhite, Pointers, MarkBits
  <1>3. \A u \in Threads \ {t} : more'[u] = more[u]
    BY <1>1, <1>2 DEF WorkTypes
  <1>4. BarrierInv' /\ Moves(t, pc[t]) /\ Now = Phase(pc[t]) /\ Now \in {0, 1}
    <2>1. pc' = [pc EXCEPT ![t] = pc[t]]
      BY <1>1 DEF Inv, BarrierInv, BarrierTypes
    <2>2. pc[t] \notin Outside \cup {"spawn", "finalize"} /\ pc[t] \in Places
          /\ pc[t] \notin Outside \cup Syncs /\ Phase(pc[t]) \in {0, 1}
      BY <1>1 DEF Outside, Syncs, First, Places, Phase
    <2> QED BY <1>1, <1>3, <2>1, <2>2, PhaseStep, PhaseOf DEF Inv
  <1>5. at' = at /\ at[t] = pc[t]
    BY <1>4 DEF Moves
  <1>6. {Key[w], Value[w]} \subseteq Objects /\ Pointers(w) = {Key[w], Value[w]}
        /\ local[t] \subseteq Objects /\ deferred_work[t] \subseteq Objects
    BY <1>1, ParallelMarkAssumption DEF Pointers, WorkTypes
  <1>7. /\ local' \in [Threads -> SUBSET Objects] /\ stack' \subseteq Objects
        /\ delayed' \in [Threads -> SUBSET WeakProps] /\ more' \in [Threads -> BOOLEAN]
        /\ marked \subseteq marked' /\ marked' \subseteq Objects
        /\ stack \subseteq stack' /\ \A u \in Threads \ {t} : local'[u] = local[u]
             /\ delayed'[u] = delayed[u]
        /\ delayed[t] \subseteq delayed'[t] /\ delayed'[t] \subseteq delayed[t] \cup {w}
        /\ \A x \in local[t] : x \in stack' \/ x \in local'[t]
        /\ \A x \in marked' \ marked : x \in stack' \/ x \in local'[t]
        /\ more[t] => more'[t]
        /\ more'[t] \/ (stack' = stack /\ local'[t] = local[t] /\ marked' = marked)
        /\ delayed'[t] = delayed[t] \/ Key[w] \notin marked'
    <2>1. CASE Key[w] \notin marked
      BY <1>1, <1>2, <2>1 DEF WorkTypes
    <2>2. CASE Key[w] \in marked
      <3>1. more'[t] = (more[t] \/ Value[w] \notin marked) /\ more' \in [Threads -> BOOLEAN]
        BY <1>1, <1>2, <2>2 DEF WorkTypes
      <3>2. {Key[w], Value[w]} \subseteq marked => stack' = stack /\ local'[t] = local[t]
        BY SMT, <1>1, <1>2, <1>6, <2>2, MarkFacts
      <3>3. more'[t] \/ (stack' = stack /\ local'[t] = local[t] /\ marked' = marked)
        BY <1>2, <2>2, <3>1, <3>2
      <3>4. /\ Mark(t, local[t], deferred_work[t], {Key[w], Value[w]}) /\ delayed' = delayed
            /\ marked' = marked \cup ({Key[w], Value[w]} \ Instructions)
        BY <1>2, <2>2
      <3>5. /\ local' \in [Threads -> SUBSET Objects] /\ stack' \subseteq Objects
            /\ stack \subseteq stack' /\ \A u \in Threads \ {t} : local'[u] = local[u]
            /\ \A x \in local[t] \cup ({Key[w], Value[w]} \ (marked \cup Instructions)) :
                 x \in stack' \/ x \in local'[t]
        <4> DEFINE s == {Key[w], Value[w]}
        <4>1. WorkTypes /\ local[t] \subseteq Objects /\ s \subseteq Objects 
              /\ Mark(t, local[t], deferred_work[t], s)
          BY <1>1, <1>6, <3>4
        <4> HIDE DEF s
        <4>2. /\ local' \in [Threads -> SUBSET Objects] /\ stack' \subseteq Objects
              /\ stack \subseteq stack' /\ \A u \in Threads \ {t} : local'[u] = local[u]
          BY <4>1, MarkFacts
        <4>3. \A x \in local[t] \cup (s \ (marked \cup Instructions)) :
                x \in stack' \/ x \in local'[t]
          BY SMT, <4>1, MarkFacts
        <4> QED BY <4>2, <4>3 DEF s
      <3> QED BY <1>1, <1>6, <3>1, <3>3, <3>4, <3>5 DEF WorkTypes
    <2> QED BY <2>1, <2>2
  <1>8. /\ todo'[t] = todo[t] \ {w} /\ \A u \in Threads \ {t} : todo'[u] = todo[u]
    BY <1>1 DEF WorkTypes
  <1>16. /\ deferred' \subseteq Objects /\ deferred_work' \in [Threads -> SUBSET Objects]
         /\ Found \subseteq Found' /\ PutOff \subseteq PutOff' /\ DeferredDone'
         /\ w \in delayed'[t] \/ Pointers(w) \subseteq Found'
    <2>1. CASE Key[w] \notin marked
      <3>1. w \in delayed'[t] /\ UNCHANGED <<marked, deferred, deferred_work>>
        BY <1>1, <1>2, <2>1 DEF WorkTypes
      <3>2. DeferredDone'
        BY <1>5, <3>1, DeferKept DEF Inv
      <3>3. PutOff' = PutOff /\ Found' = Found
        BY <3>1 DEF PutOff, Found
      <3> QED BY <1>1, <3>1, <3>2, <3>3 DEF WorkTypes
    <2>2. CASE Key[w] \in marked
      <3>1. /\ Mark(t, local[t], deferred_work[t], Pointers(w))
            /\ marked' = marked \cup (Pointers(w) \ Instructions)
        BY <1>2, <1>6, <2>2
      <3>2. Defer(t, deferred_work[t], Pointers(w)) /\ Pointers(w) \subseteq Objects
        BY <1>6, <3>1 DEF Mark
      <3>3. Found \subseteq Found' /\ Pointers(w) \subseteq Found' /\ PutOff \subseteq PutOff'
        BY SMT, <1>1, <3>1, <3>2, MarkFinds
      <3>4. deferred' \subseteq Objects /\ deferred_work' \in [Threads -> SUBSET Objects]
        BY <1>1, <1>6, <3>2, DeferFacts
      <3>5. Stage(at[t]) = "past" /\ Stage(at'[t]) = "past"
        BY <1>1, <1>5 DEF Stage, Before, Outside, Mourning
      <3>6. Now < 3 /\ WorkInv /\ BarrierInv
        BY SMT, <1>4 DEF Inv
      <3>7. deferred_work[t] \subseteq Instructions
        BY <3>5, <3>6 DEF WorkInv, DeferredDone
      <3>8. DeferredDone'
        BY <1>5, <1>6, <3>2, <3>5, <3>6, <3>7, MarkDefers
      <3> QED BY <3>3, <3>4, <3>8
    <2> QED BY <2>1, <2>2
  <1>9. WorkTypes'
    BY <1>1, <1>7, <1>16 DEF WorkTypes
  <1>10. BusyCounted'
    <2>1. Busy' = Busy
      BY <1>1, <1>3, <1>5 DEF Busy
    <2> QED BY <1>1, <2>1 DEF Inv, WorkInv, BusyCounted
  <1>11. Served'
    <2>1. \A u \in Threads : Active(u) => Active(u)'
      BY <1>1, <1>3, <1>5, <1>7 DEF Active
    <2>2. more'[t] => Active(t)'
      BY <1>1, <1>5 DEF Active
    <2>3. stack' # {} => \E u \in Threads : Active(u)'
      BY <1>7, <2>1, <2>2 DEF Inv, WorkInv, Served
    <2>4. local'[t] # {} => Active(t)'
      BY <1>1, <1>5, <1>7, <2>1, <2>2 DEF Inv, WorkInv, Served
    <2>5. Served
      BY DEF Inv, WorkInv
    <2>6. \A u \in Threads : local'[u] # {} => at'[u] = "new" \/ Active(u)'
      BY <1>5, <1>7, <2>1, <2>4, <2>5 DEF Served
    <2>7. ASSUME NEW u \in Threads
          PROVE  /\ todo'[u] # {} => at'[u] \in {"drain_weak", "round_weak"}
                 /\ at'[u] \in {"queued", "gone", "sync5", "release"} => delayed'[u] = {}
                 /\ at'[u] \in {"wait_for_work", "waiting", "sync1", "pending"} => ~more'[u]
      <3>1. CASE u = t
        <4>1. at'[t] \in {"drain_weak", "round_weak"}
          BY <1>1, <1>5
        <4> QED BY <3>1, <4>1
      <3>2. CASE u # t
        <4>1. todo'[u] = todo[u] /\ delayed'[u] = delayed[u] /\ more'[u] = more[u]
              /\ at'[u] = at[u]
          BY <1>3, <1>5, <1>7, <1>8, <3>2
        <4> QED BY <2>5, <4>1 DEF Served
      <3> QED BY <3>1, <3>2
    <2> QED BY <2>3, <2>6, <2>7 DEF Served
  <1>12. RootsDone'
    BY <1>1, <1>5 DEF Inv, WorkInv, RootsDone
  <1>13. RoundIsQuiet'
    <2>1. CASE pc[t] = "drain_weak"
      BY SMT, <1>4, <2>1, NotInRound DEF Moves, Phase, First
    <2>2. CASE pc[t] = "round_weak" /\ \E u \in Threads : at[u] \in InRound /\ more[u]
      BY <1>3, <1>5, <1>7, <2>2 DEF RoundIsQuiet
    <2>3. CASE pc[t] = "round_weak" /\ more'[t]
      BY <1>5, <2>3 DEF RoundIsQuiet, InRound
    <2>4. CASE pc[t] = "round_weak" /\ ~more'[t]
          /\ \A u \in Threads : at[u] \in Looked => White(delayed[u])
      <3>1. marked' = marked
        BY <1>7, <2>4
      <3>2. White(delayed[t])
        BY <1>5, <2>4 DEF Looked
      <3>3. White(delayed[t])'
        BY <1>7, <3>1, <3>2 DEF White
      <3> QED BY <1>5, <1>7, <2>4, <3>1, <3>3 DEF RoundIsQuiet, White
    <2> QED BY <1>1, <2>1, <2>2, <2>3, <2>4 DEF Inv, WorkInv, RoundIsQuiet
  <1>14. Covered'
    <2>1. \A x : Listed(x) => Listed(x)' \/ Pointers(x) \subseteq Found'
      <3>1. ASSUME NEW x, Listed(x), x # w PROVE Listed(x)'
        BY <1>7, <1>8, <3>1 DEF Listed
      <3>2. Listed(w)' \/ Pointers(w) \subseteq Found'
        BY <1>16 DEF Listed
      <3> QED BY <3>1, <3>2
    <2>2. \A x \in marked' \ marked : Listed(x)'
      BY <1>7 DEF Listed
    <2>3. WorkInv /\ Now < 3
      BY SMT, <1>4 DEF Inv
    <2>4. marked \subseteq marked' /\ slice' = slice
      BY <1>1, <1>7
    <2>5. \A o \in Deferred \ PutOff' : o \notin PutOff
      BY <1>16
    <2> QED BY <1>16, <2>1, <2>2, <2>3, <2>4, <2>5, CoveredStep
  <1>15. Agreed' /\ Finished'
    BY SMTT(20), <1>4, NotDeciding DEF Moves, Finished
  <1> QED BY <1>4, <1>9, <1>10, <1>11, <1>12, <1>13, <1>14, <1>15, <1>16 DEF Inv, WorkInv

LEMMA RoundWeakEndsInv ==
  ASSUME Inv, NEW t \in Threads, RoundWeakEnds(t)
  PROVE  Inv'
  <1> USE DEF barrier, Goto, heap, visitors, RoundWeakEnds
  <1>1. BarrierInv' /\ Moves(t, "sync2") /\ at[t] = "round_weak" /\ Now = 1
    <2>1. Phase("sync2") = Phase(pc[t]) /\ "sync2" \notin Outside \cup {"spawn", "finalize"}
          /\ "sync2" \in Places
          /\ pc[t] \notin Outside \cup Syncs /\ Phase(pc[t]) = 1
      BY DEF Outside, Syncs, First, Places, Phase
    <2>2. BarrierInv' /\ Moves(t, "sync2") /\ Now = 1
      BY <2>1, PhaseStep, PhaseOf DEF Inv
    <2> QED BY <2>2 DEF Moves
  <1>2. WorkTypes'
    BY DEF Inv, WorkInv, WorkTypes
  <1>3. BusyCounted'
    <2>1. CASE more[t]
      <3>1. t \notin Busy /\ Busy' = Busy \cup {t}
        BY <1>1, <2>1 DEF Busy, Moves
      <3> QED BY <2>1, <3>1, BusyGrows DEF Inv
    <2>2. CASE ~more[t]
      <3>1. Busy' = Busy
        BY <1>1, <2>2 DEF Busy, Moves
      <3> QED BY <2>2, <3>1 DEF Inv, WorkInv, BusyCounted
    <2> QED BY <2>1, <2>2
  <1>4. Served'
    <2>1. \A u \in Threads : Active(u)' <=> Active(u)
      BY <1>1 DEF Active, Moves
    <2> QED BY <1>1, <2>1 DEF Inv, WorkInv, Served, Moves
  <1>5. RootsDone'
    BY <1>1 DEF Inv, WorkInv, RootsDone, Moves, Before, Outside
  <1>9. DeferredDone'
    BY <1>1, DeferMoves DEF Inv, Moves, Stage, Before, Outside, Mourning
  <1>6. RoundIsQuiet'
    BY <1>1 DEF Inv, WorkInv, RoundIsQuiet, Moves, InRound, Looked, White
  <1>7. Covered'
    <2>1. \A o : Listed(o) => Listed(o)'
      BY <1>1 DEF Listed
    <2> QED BY <1>1, <2>1, CoveredSame DEF Inv, WorkInv, Moves
  <1>8. Agreed' /\ Finished'
    BY SMT, <1>1, NotDeciding DEF Moves, Finished
  <1> QED BY <1>1, <1>2, <1>3, <1>4, <1>5, <1>6, <1>7, <1>8, <1>9 DEF Inv, WorkInv

LEMMA DecideInv ==
  ASSUME Inv, NEW t \in Threads, Decide(t)
  PROVE  Inv'
  <1> USE DEF barrier, Goto, heap
  <1>1. /\ pc[t] = "decide" /\ pc' = [pc EXCEPT ![t] = "sync3"] /\ WorkTypes
        /\ UNCHANGED <<barrier, stack, waiters, local, delayed, todo, marked, deferred,
                       deferred_work, slice>>
        /\ \/ ~more[t] /\ num_busy > 0 /\ num_busy' = num_busy + 1
             /\ more' = [more EXCEPT ![t] = TRUE]
           \/ ~(~more[t] /\ num_busy > 0) /\ num_busy' = num_busy /\ more' = more
    BY DEF Decide, Inv, WorkInv
  <1>2. \A u \in Threads \ {t} : more'[u] = more[u]
    BY <1>1 DEF WorkTypes
  <1>3. BarrierInv' /\ Moves(t, "sync3") /\ at[t] = "decide" /\ Now = 2
    <2>1. Phase("sync3") = Phase(pc[t]) /\ "sync3" \notin Outside \cup {"spawn", "finalize"}
          /\ "sync3" \in Places
          /\ pc[t] \notin Outside \cup Syncs /\ Phase(pc[t]) = 2
      BY <1>1 DEF Outside, Syncs, First, Places, Phase
    <2>2. BarrierInv' /\ Moves(t, "sync3") /\ Now = 2
      BY <1>1, <1>2, <2>1, PhaseStep, PhaseOf DEF Inv
    <2> QED BY <1>1, <2>2 DEF Moves
  <1>4. num_busy \in Nat /\ (num_busy = 0 <=> Busy = {})
    <2>1. Busy \in SUBSET Threads
      BY DEF Busy
    <2> QED BY <2>1, Counting DEF Inv, WorkInv, BusyCounted
  <1>5. \A u \in Busy : at[u] \in {"decide", "sync3"} /\ more[u] /\ u \in Threads
    <2>1. ASSUME NEW u \in Busy PROVE at[u] \in {"decide", "sync3"}
      <3>1. u \in Threads /\ Phase(at[u]) = 2
        BY <1>3 DEF Busy, Inv, BarrierInv, InStep, Members, Outside
      <3> QED BY SMT, <3>1 DEF Busy, Phase, First
    <2> QED BY <2>1 DEF Busy
  <1>6. WorkTypes'
    BY <1>1 DEF WorkTypes
  <1>7. BusyCounted'
    <2>1. CASE ~more[t] /\ num_busy > 0
      <3>1. more'[t]
        BY <1>1, <2>1 DEF WorkTypes
      <3>2. t \notin Busy /\ Busy' = Busy \cup {t}
        BY <1>2, <1>3, <2>1, <3>1 DEF Busy, Moves
      <3> QED BY <1>1, <2>1, <3>2, BusyGrows DEF Inv
    <2>2. CASE ~(~more[t] /\ num_busy > 0)
      <3>1. Busy' = Busy
        BY <1>1, <1>3, <2>2 DEF Busy, Moves
      <3> QED BY <1>1, <2>2, <3>1 DEF Inv, WorkInv, BusyCounted
    <2> QED BY <2>1, <2>2
  <1>8. more[t] => more'[t]
    BY <1>1 DEF WorkTypes
  <1>9. Served'
    <2>1. \A u \in Threads : Active(u) => Active(u)'
      BY <1>2, <1>3, <1>8 DEF Active, Moves
    <2> QED BY <1>1, <1>2, <1>3, <2>1 DEF Inv, WorkInv, Served, Moves
  <1>10. RootsDone'
    BY <1>1, <1>3 DEF Inv, WorkInv, RootsDone, Moves, Before, Outside
  <1>15. DeferredDone'
    <2>1. Stage("sync3") = Stage(at[t])
      BY <1>3 DEF Stage, Before, Outside, Mourning
    <2> QED BY <1>1, <1>3, <2>1, DeferMoves DEF Inv, Moves
  <1>11. RoundIsQuiet'
    <2>1. \A u \in Threads : more[u] => more'[u]
      BY <1>2, <1>8
    <2>2. \A u \in Threads : at[u] \in InRound => at'[u] \in InRound
      BY <1>3 DEF Moves, InRound
    <2>3. \A u \in Threads : at'[u] \in Looked => at[u] \in Looked
      BY <1>3 DEF Moves, Looked
    <2> QED BY <1>1, <2>1, <2>2, <2>3 DEF Inv, WorkInv, RoundIsQuiet, White
  <1>12. Agreed'
    <2>1. SUFFICES ASSUME NEW x \in Threads, NEW u \in Threads, at'[x] \in {"decide", "sync3"},
                          more'[x],
                          at'[u] = "sync3"
                   PROVE  more'[u]
      BY DEF Agreed
    <2>2. num_busy > 0 => more'[t]
      BY <1>1, <1>8 DEF WorkTypes
    <2>3. \A y \in Threads : at[y] \in {"decide", "sync3"} /\ more[y] => num_busy > 0
      <3>1. ASSUME NEW y \in Threads, at[y] \in {"decide", "sync3"}, more[y] PROVE num_busy > 0
        <4>1. y \in Busy
          BY <3>1 DEF Busy
        <4> QED BY SMT, <1>4, <4>1
      <3> QED BY <3>1
    <2>4. num_busy > 0 => \E y \in Threads : at[y] \in {"decide", "sync3"} /\ more[y]
      BY SMT, <1>4, <1>5
    <2>5. num_busy > 0
      BY <1>1, <1>2, <1>3, <2>1, <2>3 DEF Moves, WorkTypes
    <2>6. PICK y \in Threads : at[y] \in {"decide", "sync3"} /\ more[y]
      BY <2>4, <2>5
    <2>7. CASE u = t
      BY <2>2, <2>5, <2>7
    <2>8. CASE u # t
      <3>1. at[u] = "sync3"
        BY <1>3, <2>1, <2>8 DEF Moves
      <3> QED BY <1>2, <2>6, <2>8, <3>1 DEF Inv, WorkInv, Agreed
    <2> QED BY <2>7, <2>8
  <1>13. Covered'
    <2>1. \A o : Listed(o) => Listed(o)'
      BY <1>1 DEF Listed
    <2> QED BY <1>1, <1>3, <2>1, CoveredSame DEF Inv, WorkInv, Moves
  <1>14. Finished'
    BY SMT, <1>3 DEF Moves, Finished
  <1> QED BY <1>3, <1>6, <1>7, <1>9, <1>10, <1>11, <1>12, <1>13, <1>14, <1>15 DEF Inv, WorkInv

LEMMA MournInv ==
  ASSUME Inv, NEW t \in Threads, Mourn(t)
  PROVE  Inv'
  <1> USE DEF barrier, Goto, heap, work, Mourn
  <1>1. BarrierInv' /\ Moves(t, "sync5") /\ at[t] = "mourn" /\ Now = 4
    <2>1. Phase("sync5") = Phase(pc[t]) /\ "sync5" \notin Outside \cup {"spawn", "finalize"}
          /\ "sync5" \in Places
          /\ pc[t] \notin Outside \cup Syncs /\ Phase(pc[t]) = 4
      BY DEF Outside, Syncs, First, Places, Phase
    <2>2. BarrierInv' /\ Moves(t, "sync5") /\ Now = 4
      BY <2>1, PhaseStep, PhaseOf DEF Inv
    <2> QED BY <2>2 DEF Moves
  <1>2. WorkTypes' /\ delayed'[t] = {} /\ \A u \in Threads \ {t} : delayed'[u] = delayed[u]
    BY DEF Inv, WorkInv, WorkTypes
  <1>3. BusyCounted'
    <2>1. Busy' = Busy
      BY <1>1 DEF Busy, Moves
    <2> QED BY <2>1 DEF Inv, WorkInv, BusyCounted
  <1>4. Served'
    <2>1. \A u \in Threads : Active(u)' <=> Active(u)
      BY <1>1 DEF Active, Moves
    <2> QED BY <1>1, <1>2, <2>1 DEF Inv, WorkInv, Served, Moves
  <1>5. RootsDone'
    BY <1>1 DEF Inv, WorkInv, RootsDone, Moves, Before, Outside
  <1>9. DeferredDone'
    BY <1>1, DeferMoves DEF Inv, Moves, Stage, Before, Outside, Mourning
  <1>6. Finished'
    BY <1>1, <1>2 DEF Inv, WorkInv, Finished, Moves, White
  <1>7. Covered'
    <2>1. \A o \in marked : Listed(o) => Listed(o)' \/ (o \in WeakProps /\ Key[o] \notin marked)
      <3>1. \A o \in delayed[t] : o \in WeakProps /\ Key[o] \notin marked
        BY SMTT(20), <1>1 DEF Inv, WorkInv, WorkTypes, Finished, White
      <3>2. stack' = stack /\ local' = local /\ todo' = todo
        OBVIOUS
      <3>3. \A u \in Threads \ {t} : delayed'[u] = delayed[u]
        BY <1>2
      <3> HIDE DEF Mourn
      <3> QED BY <3>1, <3>2, <3>3 DEF Listed
    <2>2. Covered /\ UNCHANGED <<marked, deferred, deferred_work, slice>>
      BY DEF Inv, WorkInv
    <2>3. Now' >= 3
      BY SMT, <1>1 DEF Moves
    <2> HIDE DEF Mourn
    <2> QED BY <2>1, <2>2, <2>3, CoveredSame
  <1>8. Agreed' /\ RoundIsQuiet'
    BY SMT, <1>1, NotInRound DEF Moves
  <1> QED BY <1>1, <1>2, <1>3, <1>4, <1>5, <1>6, <1>7, <1>8, <1>9 DEF Inv, WorkInv

\* A step that changes nobody's place and no work.
LEMMA NothingMoves ==
  ASSUME Inv, BarrierInv', at' = at, UNCHANGED <<work, visitors, heap>>
  PROVE  Inv'
  <1> USE DEF work, visitors, heap
  <1>1. WorkTypes' /\ BusyCounted'
    BY DEF Inv, WorkInv, WorkTypes, BusyCounted, Busy
  <1>2. Served' /\ RootsDone' /\ Agreed' /\ RoundIsQuiet'
    BY DEF Inv, WorkInv, Served, RootsDone, Agreed, RoundIsQuiet, Active, White
  <1>3. Covered' /\ Finished' /\ DeferredDone'
    <2>1. Now' = Now /\ \A o : Listed(o) => Listed(o)'
      BY DEF Now, Listed
    <2>2. Finished'
      BY <2>1 DEF Inv, WorkInv, Finished, White
    <2>3. Covered'
      BY <2>1, CoveredSame DEF Inv, WorkInv
    <2>4. DeferredDone'
      BY DeferKept DEF Inv
    <2> QED BY <2>2, <2>3, <2>4
  <1> QED BY <1>1, <1>2, <1>3 DEF Inv, WorkInv

\* All markers pass the Sync.
LEMMA SyncTurnsInv ==
  ASSUME Inv, NEW t \in Threads, pc[t] \in Syncs, SyncLast(t), Goto(t, AfterSync(t)),
         UNCHANGED <<work, visitors, heap>>
  PROVE  Inv'
  <1> USE DEF work, visitors, heap
  <1>1. /\ BarrierInv' /\ BarrierInv
        /\ \A u \in Members : at[u] = pc[t] /\ at'[u] = AfterSync(u)
        /\ \A u \in Threads \ Members : at'[u] = at[u]
        /\ Members' = Members /\ more \in [Threads -> BOOLEAN] /\ BarrierTypes
    BY SyncTurns DEF Inv, WorkInv, WorkTypes, BarrierInv
  <1>2. Main \in Members /\ Main \in Threads
    BY <1>1, ParallelMarkAssumption DEF Members, BarrierInv, MainIsIn
  <1>3. \A u \in Members : u \in Threads /\ pc[u] = pc[t]
    BY <1>1, OutsideIsOutside DEF Members
  <1>4. \A u \in Threads \ Members : at[u] \in {"queued", "gone"}
    BY <1>1, <1>2 DEF Members, Outside, BarrierInv, MainIsIn, Syncs
  <1>5. WorkTypes'
    BY DEF Inv, WorkInv, WorkTypes
  <1>6. CASE pc[t] \in {"sync1", "sync2", "sync4", "sync5"}
    <2> DEFINE l == IF pc[t] = "sync1" THEN "pending" ELSE IF pc[t] = "sync2" THEN "decide"
                    ELSE IF pc[t] = "sync4" THEN "mourn" ELSE "release"
    <2>1. \A u \in Members : at'[u] = l /\ at[u] = pc[t]
      BY <1>1, <1>3, <1>6 DEF AfterSync
    <2>2. Now' = Phase(l) /\ Now = Phase(pc[t]) /\ Now' = Now + 1
      <3>1. at'[Main] = l /\ at[Main] = pc[t]
        BY <1>2, <2>1
      <3>2. Phase(l) = Phase(pc[t]) + 1
        BY SMT, <1>6 DEF Phase, First
      <3>3. Now = Phase(pc[t]) /\ Now' = Phase(l)
        <4> HIDE DEF l
        <4> QED BY <3>1 DEF Now, Phase
      <3> QED BY <3>2, <3>3
    <2>3. BusyCounted'
      <3>1. Busy' = Busy
        BY <1>1, <1>4, <1>6, <2>1 DEF Busy
      <3> QED BY <3>1 DEF Inv, WorkInv, BusyCounted
    <2>4. Served'
      <3>1. \A u \in Threads : Active(u)' <=> Active(u)
        BY <1>1, <1>4, <1>6, <2>1 DEF Active
      <3>2. Served
        BY DEF Inv, WorkInv
      <3>3. stack' # {} => \E u \in Threads : Active(u)'
        BY <3>1, <3>2 DEF Served
      <3>4. ASSUME NEW u \in Threads
            PROVE  /\ local'[u] # {} => at'[u] = "new" \/ Active(u)'
                   /\ todo'[u] # {} => at'[u] \in {"drain_weak", "round_weak"}
                   /\ at'[u] \in {"queued", "gone", "sync5", "release"} => delayed'[u] = {}
                   /\ at'[u] \in {"wait_for_work", "waiting", "sync1", "pending"} => ~more'[u]
        <4>1. CASE u \in Members
          BY <1>1, <1>6, <2>1, <3>1, <3>2, <4>1 DEF Served
        <4>2. CASE u \notin Members
          BY <1>1, <3>1, <3>2, <4>2 DEF Served
        <4> QED BY <4>1, <4>2
      <3> QED BY <3>3, <3>4 DEF Served
    <2>5. RootsDone'
      <3>1. slice
        BY <1>2, <1>6, <2>1 DEF Inv, WorkInv, RootsDone, Before, Outside
      <3> QED BY <3>1 DEF RootsDone
    <2>10. DeferredDone'
      <3>1. Stage(l) = Stage(pc[t])
        BY <1>6 DEF Stage, Before, Outside, Mourning
      <3>2. \A u \in Members : Stage(at'[u]) = Stage(at[u])
        BY <2>1, <3>1
      <3>3. \A u \in Threads \ Members : Stage(at'[u]) = Stage(at[u])
        BY <1>1
      <3> QED BY <3>2, <3>3, DeferKept DEF Inv
    <2>6. Agreed'
      BY <1>1, <1>4, <1>6, <2>1 DEF Agreed
    <2>7. RoundIsQuiet'
      <3>1. CASE pc[t] = "sync1"
        BY <1>1, <1>4, <2>1, <3>1 DEF RoundIsQuiet, Looked
      <3>2. CASE pc[t] = "sync2"
        <4>1. \A u \in Threads : /\ at[u] \in InRound => at'[u] \in InRound
                                 /\ at'[u] \in Looked => at[u] \in Looked
          BY <1>1, <2>1, <3>2 DEF InRound, Looked
        <4> QED BY <4>1 DEF Inv, WorkInv, RoundIsQuiet, White
      <3>3. CASE pc[t] \in {"sync4", "sync5"}
        BY <1>1, <1>4, <2>1, <3>3 DEF RoundIsQuiet, Looked
      <3> QED BY <1>6, <3>1, <3>2, <3>3
    <2>8. Covered'
      <3>1. Now >= 3 => Now' >= 3
        BY SMT, <1>6, <2>2 DEF Phase, First
      <3>2. \A o : Listed(o) => Listed(o)'
        BY DEF Listed
      <3> QED BY <3>1, <3>2, CoveredSame DEF Inv, WorkInv
    <2>9. Finished'
      <3>1. Now' >= 3 => Now >= 3
        BY SMT, <1>6, <2>2 DEF Phase, First
      <3> QED BY <3>1 DEF Inv, WorkInv, Finished, White
    <2> QED BY <1>1, <1>5, <2>3, <2>4, <2>5, <2>6, <2>7, <2>8, <2>9, <2>10 DEF Inv, WorkInv
  <1>7. CASE pc[t] = "sync3" /\ more[Main]
    <2>1. \A u \in Members : more[u]
      BY <1>1, <1>2, <1>3, <1>7 DEF Inv, WorkInv, Agreed
    <2>2. \A u \in Members : at'[u] = "drain" /\ at[u] = "sync3"
      BY <1>1, <1>3, <1>7, <2>1 DEF AfterSync
    <2>3. Now' = 0 /\ Now = 2
      BY <1>2, <2>2 DEF Now, Phase, First
    <2>4. BusyCounted'
      <3>1. Busy' = Busy
        BY <1>1, <1>4, <2>1, <2>2 DEF Busy
      <3> QED BY <3>1 DEF Inv, WorkInv, BusyCounted
    <2>5. Served'
      <3>1. \A u \in Threads : Active(u)' <=> Active(u)
        BY <1>1, <1>4, <2>1, <2>2 DEF Active
      <3> QED BY <1>1, <1>4, <2>2, <3>1 DEF Inv, WorkInv, Served
    <2>6. RootsDone'
      <3>1. slice
        BY <1>2, <2>2 DEF Inv, WorkInv, RootsDone, Before, Outside
      <3> QED BY <3>1 DEF RootsDone
    <2>8. DeferredDone'
      <3>1. \A u \in Members : Stage(at'[u]) = Stage(at[u])
        BY <2>2 DEF Stage, Before, Outside, Mourning
      <3>2. \A u \in Threads \ Members : Stage(at'[u]) = Stage(at[u])
        BY <1>1
      <3> QED BY <3>1, <3>2, DeferKept DEF Inv
    <2>7. Covered'
      <3>1. \A o : Listed(o) => Listed(o)'
        BY DEF Listed
      <3>2. Now >= 3 => Now' >= 3
        BY SMT, <2>3
      <3> QED BY <3>1, <3>2, CoveredSame DEF Inv, WorkInv
    <2> QED BY <1>1, <1>5, <2>3, <2>4, <2>5, <2>6, <2>7, <2>8, FirstPhase DEF Inv, WorkInv
  <1>8. CASE pc[t] = "sync3" /\ ~more[Main]
    <2>1. \A u \in Members : ~more[u]
      BY <1>1, <1>2, <1>3, <1>8 DEF Inv, WorkInv, Agreed
    <2>2. \A u \in Members : at'[u] = "deferred2" /\ at[u] = "sync3"
      BY <1>1, <1>3, <1>8, <2>1 DEF AfterSync
    <2>3. Now' = 3 /\ Now = 2
      BY <1>2, <2>2 DEF Now, Phase, First
    <2>4. BusyCounted'
      <3>1. Busy' = Busy
        BY <1>1, <1>4, <2>1, <2>2 DEF Busy
      <3> QED BY <3>1 DEF Inv, WorkInv, BusyCounted
    <2>5. \A u \in Threads : ~Active(u) /\ ~Active(u)' /\ at[u] # "new"
      BY <1>1, <1>4, <2>1, <2>2 DEF Active
    <2>6. stack = {} /\ \A u \in Threads : local[u] = {}
      BY <2>5 DEF Inv, WorkInv, Served
    <2>7. Served'
      BY <1>1, <1>4, <2>2, <2>5, <2>6 DEF Inv, WorkInv, Served
    <2>8. RootsDone'
      <3>1. slice
        BY <1>2, <2>2 DEF Inv, WorkInv, RootsDone, Before, Outside
      <3> QED BY <3>1 DEF RootsDone
    <2>12. DeferredDone'
      <3>1. \A u \in Members : Stage(at'[u]) = Stage(at[u])
        BY <2>2 DEF Stage, Before, Outside, Mourning
      <3>2. \A u \in Threads \ Members : Stage(at'[u]) = Stage(at[u])
        BY <1>1
      <3> QED BY <3>1, <3>2, DeferKept DEF Inv
    <2>9. Finished'
      <3>1. \A u \in Members : White(delayed[u])
        BY <1>3, <1>4, <2>1, <2>2 DEF Inv, WorkInv, RoundIsQuiet, InRound, Looked
      <3>2. \A u \in Threads \ Members : delayed[u] = {}
        BY <1>4 DEF Inv, WorkInv, Served
      <3> QED BY <2>6, <3>1, <3>2 DEF Finished, White
    <2>10. Covered'
      <3>1. Now >= 3 => Now' >= 3
        BY SMT, <2>3
      <3>2. \A o : Listed(o) => Listed(o)'
        BY DEF Listed
      <3> QED BY <3>1, <3>2, CoveredSame DEF Inv, WorkInv
    <2>11. Agreed' /\ RoundIsQuiet'
      BY SMT, <1>1, <2>3, NotInRound
    <2> QED BY <1>1, <1>5, <2>4, <2>7, <2>8, <2>9, <2>10, <2>11, <2>12 DEF Inv, WorkInv
  <1> QED BY <1>6, <1>7, <1>8 DEF Syncs

LEMMA SyncInv ==
  ASSUME Inv, NEW t \in Threads, Sync(t)
  PROVE  Inv'
  <1>1. CASE SyncLast(t) /\ Goto(t, AfterSync(t))
    BY <1>1, SyncTurnsInv DEF Sync
  <1>2. CASE SyncWakes(t) /\ Goto(t, AfterSync(t))
    <2>1. BarrierInv' /\ at' = at
      BY <1>2, SyncEnds DEF Sync, Inv, visitors
    <2> QED BY <2>1, NothingMoves DEF Sync
  <1>3. CASE SyncWait(t) /\ UNCHANGED pc
    <2>1. BarrierInv' /\ at' = at
      BY <1>3, SyncWaits DEF Sync, Inv, visitors
    <2> QED BY <2>1, NothingMoves DEF Sync
  <1> QED BY <1>1, <1>2, <1>3 DEF Sync

LEMMA LeaveInv ==
  ASSUME Inv, NEW t \in Threads, Leave(t)
  PROVE  Inv'
  <1> USE DEF work, visitors, heap
  <1> DEFINE l == IF t = Main THEN "finalize" ELSE "gone"
  <1>1. /\ BarrierInv' /\ Now' = 5 /\ Now = 5 /\ at[t] = "release" /\ at' = [at EXCEPT ![t] = l]
        /\ at \in [Threads -> Places] /\ UNCHANGED <<work, visitors, heap>>
    BY LeaveBarrier, AtIsAPlace DEF Inv, BarrierInv, Leave
  <1>2. WorkTypes'
    BY <1>1 DEF Inv, WorkInv, WorkTypes
  <1>3. BusyCounted'
    <2>1. Busy' = Busy
      BY <1>1 DEF Busy
    <2> QED BY <1>1, <2>1 DEF Inv, WorkInv, BusyCounted
  <1>4. Served'
    <2>1. \A u \in Threads : Active(u)' <=> Active(u)
      BY <1>1 DEF Active
    <2> QED BY <1>1, <2>1 DEF Inv, WorkInv, Served
  <1>5. RootsDone'
    BY <1>1 DEF Inv, WorkInv, RootsDone, Before, Outside
  <1>8. DeferredDone'
    <2>1. deferred_work[t] = {} /\ deferred = {}
      BY <1>1 DEF Inv, WorkInv, DeferredDone, Stage, Before, Outside, Mourning
    <2> QED BY <1>1, <2>1, DeferMoves DEF Inv
  <1>6. Covered' /\ Finished'
    <2>1. Finished'
      BY <1>1 DEF Inv, WorkInv, Finished, White
    <2>2. \A o : Listed(o) => Listed(o)'
      BY <1>1 DEF Listed
    <2>3. Covered'
      BY <1>1, <2>2, CoveredSame DEF Inv, WorkInv
    <2> QED BY <2>1, <2>3
  <1>7. Agreed' /\ RoundIsQuiet'
    BY SMT, <1>1, NotInRound
  <1> QED BY <1>1, <1>2, <1>3, <1>4, <1>5, <1>6, <1>7, <1>8 DEF Inv, WorkInv

LEMMA HelperIsLateInv ==
  ASSUME Inv, NEW h \in Helpers, HelperIsLate(h)
  PROVE  Inv'
  <1> USE DEF work, visitors, heap, HelperIsLate, Release, Goto
  <1>1. BarrierInv' /\ Now' = Now /\ at' = [at EXCEPT ![h] = "gone"] /\ at[h] = "queued"
        /\ h \in Threads /\ at \in [Threads -> Places]
    <2>1. h \in Threads
      BY DEF Helpers
    <2>2. BarrierInv' /\ Now' = Now /\ at' = [at EXCEPT ![h] = "gone"] /\ at[h] = pc[h]
      BY <2>1, OutsiderStep DEF Inv, Outside
    <2> QED BY <2>1, <2>2, AtIsAPlace DEF Inv, BarrierInv
  <1>2. WorkTypes'
    BY DEF Inv, WorkInv, WorkTypes
  <1>3. BusyCounted'
    <2>1. Busy' = Busy
      BY <1>1 DEF Busy
    <2> QED BY <2>1 DEF Inv, WorkInv, BusyCounted
  <1>4. Served'
    <2>1. \A u \in Threads : Active(u)' <=> Active(u)
      BY <1>1 DEF Active
    <2> QED BY <1>1, <2>1 DEF Inv, WorkInv, Served
  <1>5. RootsDone'
    BY <1>1 DEF Inv, WorkInv, RootsDone, Before, Outside
  <1>8. DeferredDone'
    <2>1. Stage("gone") = Stage(at[h])
      BY <1>1 DEF Stage, Before, Outside
    <2> QED BY <1>1, <2>1, DeferMoves DEF Inv
  <1>6. Covered' /\ Finished'
    <2>1. Finished'
      BY <1>1 DEF Inv, WorkInv, Finished, White
    <2>2. \A o : Listed(o) => Listed(o)'
      BY <1>1 DEF Listed
    <2>3. Covered'
      BY <1>1, <2>2, CoveredSame DEF Inv, WorkInv
    <2> QED BY <2>1, <2>3
  <1>7. Agreed' /\ RoundIsQuiet'
    BY <1>1 DEF Inv, WorkInv, Agreed, RoundIsQuiet, InRound, Looked, White
  <1> QED BY <1>1, <1>2, <1>3, <1>4, <1>5, <1>6, <1>7, <1>8 DEF Inv, WorkInv

LEMMA HelperEntersInv ==
  ASSUME Inv, NEW h \in Helpers, HelperEnters(h)
  PROVE  Inv'
  <1> USE DEF work, visitors, heap
  <1>1. BarrierInv' /\ Now' = 0 /\ Now = 0 /\ at' = [at EXCEPT ![h] = "entered"] /\ at[h] = "queued"
        /\ h \in Threads /\ at \in [Threads -> Places] /\ UNCHANGED <<work, visitors, heap>>
    BY HelperEntersBarrier, AtIsAPlace DEF Inv, BarrierInv, Helpers, HelperEnters
  <1>2. WorkTypes'
    BY <1>1 DEF Inv, WorkInv, WorkTypes
  <1>3. BusyCounted'
    <2>1. Busy' = Busy
      BY <1>1 DEF Busy
    <2> QED BY <1>1, <2>1 DEF Inv, WorkInv, BusyCounted
  <1>4. Served'
    <2>1. \A u \in Threads : Active(u) => Active(u)'
      BY <1>1 DEF Active
    <2> QED BY <1>1, <2>1 DEF Inv, WorkInv, Served
  <1>5. RootsDone'
    BY <1>1 DEF Inv, WorkInv, RootsDone, Before, Outside
  <1>8. DeferredDone'
    <2>1. Stage("entered") = Stage(at[h])
      BY <1>1 DEF Stage, Before, Outside
    <2> QED BY <1>1, <2>1, DeferMoves DEF Inv
  <1>6. Covered'
    <2>1. \A o : Listed(o) => Listed(o)'
      BY <1>1 DEF Listed
    <2> QED BY <1>1, <2>1, CoveredSame DEF Inv, WorkInv
  <1> QED BY <1>1, <1>2, <1>3, <1>4, <1>5, <1>6, <1>8, FirstPhase DEF Inv, WorkInv

\* Flushing a visitor loses none of its objects.
LEMMA FlushFacts ==
  ASSUME WorkTypes, NEW t \in Threads, Flush(t)
  PROVE  /\ stack' = stack \cup local[t] /\ local' \in [Threads -> SUBSET Objects]
         /\ local'[t] = {} /\ \A u \in Threads \ {t} : local'[u] = local[u]
         /\ delayed' \in [Threads -> SUBSET WeakProps]
         /\ t # Main => delayed'[t] = {}
         /\ delayed'[Main] = delayed[Main] \cup delayed[t]
         /\ \A u \in Threads \ {t, Main} : delayed'[u] = delayed[u]
         /\ deferred_work[t] = {} => UNCHANGED <<deferred, deferred_work>>
  <1>1. Main \in Threads
    BY ParallelMarkAssumption
  <1>2. stack' = stack \cup local[t] /\ local' = [local EXCEPT ![t] = {}]
    BY DEF Flush, Push
  <1>3. \A u \in Threads : delayed'[u] =
          IF u = Main THEN delayed[Main] \cup delayed[t] ELSE IF u = t THEN {} ELSE delayed[u]
    BY <1>1 DEF Flush, WorkTypes
  <1>4. delayed' \in [Threads -> SUBSET WeakProps]
    BY <1>1 DEF Flush, WorkTypes
  <1>5. deferred_work[t] = {} => UNCHANGED <<deferred, deferred_work>>
    BY DEF Flush, WorkTypes
  <1> QED BY <1>1, <1>2, <1>3, <1>4, <1>5 DEF WorkTypes

LEMMA SpawnInv ==
  ASSUME Inv, NEW h \in Helpers, Spawn(h)
  PROVE  Inv'
  <1> USE DEF heap, Goto, barrier
  <1>1. /\ h \in Threads /\ h # Main /\ Main \in Threads /\ pc[Main] = "spawn" /\ pc[h] = "new"
        /\ pc' = [pc EXCEPT ![h] = "queued"] /\ Flush(h) /\ WorkTypes
        /\ UNCHANGED <<barrier, num_busy, todo, more, marked, slice>>
    BY ParallelMarkAssumption DEF Helpers, Spawn, Inv, WorkInv
  <1>2. BarrierInv' /\ Now' = Now /\ at' = [at EXCEPT ![h] = "queued"] /\ at[h] = "new"
        /\ at \in [Threads -> Places] /\ at[Main] = "spawn" /\ Now = 0
    <2>1. BarrierInv' /\ Now' = Now /\ at' = [at EXCEPT ![h] = "queued"] /\ at[h] = pc[h]
      BY <1>1, OutsiderStep DEF Inv, Outside
    <2>2. at \in [Threads -> Places] /\ at[Main] = "spawn"
      BY <1>1, AtIsAPlace, OutsideIsOutside DEF Inv, BarrierInv
    <2> QED BY <1>1, <2>1, <2>2 DEF Now, Phase, First
  <1>3. /\ stack' = stack \cup local[h] /\ local' \in [Threads -> SUBSET Objects]
        /\ local'[h] = {} /\ \A u \in Threads \ {h} : local'[u] = local[u]
        /\ delayed' \in [Threads -> SUBSET WeakProps]
        /\ delayed'[h] = {} /\ delayed'[Main] = delayed[Main] \cup delayed[h]
        /\ \A u \in Threads \ {h, Main} : delayed'[u] = delayed[u]
    BY <1>1, FlushFacts
  <1>9. UNCHANGED <<deferred, deferred_work>> /\ DeferredDone'
    <2>1. Stage("queued") = Stage(at[h]) /\ deferred_work[h] = {}
      BY <1>1, <1>2 DEF Stage, Before, Outside, Inv, WorkInv, DeferredDone
    <2>2. UNCHANGED <<deferred, deferred_work>>
      BY <1>1, <2>1, FlushFacts
    <2> QED BY <1>1, <1>2, <2>1, <2>2, DeferMoves DEF Inv
  <1>4. WorkTypes'
    BY <1>1, <1>3, <1>9 DEF WorkTypes
  <1>5. BusyCounted'
    <2>1. Busy' = Busy
      BY <1>1, <1>2 DEF Busy
    <2> QED BY <1>1, <2>1 DEF Inv, WorkInv, BusyCounted
  <1>6. Served'
    <2>1. \A u \in Threads : Active(u)' <=> Active(u)
      BY <1>1, <1>2 DEF Active
    <2>2. Active(Main)
      BY <1>2 DEF Active
    <2> QED BY <1>1, <1>2, <1>3, <2>1, <2>2 DEF Inv, WorkInv, Served
  <1>7. RootsDone'
    BY <1>1, <1>2 DEF Inv, WorkInv, RootsDone, Before, Outside
  <1>8. Covered'
    <2>1. \A o : Listed(o) => Listed(o)'
      BY <1>1, <1>3 DEF Listed
    <2> QED BY <1>1, <1>2, <1>9, <2>1, CoveredSame DEF Inv, WorkInv
  <1> QED BY <1>2, <1>4, <1>5, <1>6, <1>7, <1>8, <1>9, FirstPhase DEF Inv, WorkInv

LEMMA MainEntersInv ==
  ASSUME Inv, MainEnters
  PROVE  Inv'
  <1> USE DEF heap, Goto, barrier
  <1>1. /\ Main \in Threads /\ pc[Main] = "spawn" /\ \A u \in Threads : pc[u] # "new"
        /\ pc' = [pc EXCEPT ![Main] = "entered"] /\ Flush(Main) /\ WorkTypes
        /\ UNCHANGED <<barrier, num_busy, todo, more, marked, slice>>
    BY ParallelMarkAssumption DEF Helpers, MainEnters, Inv, WorkInv
  <1>2. BarrierInv' /\ Moves(Main, "entered") /\ at[Main] = "spawn" /\ Now = 0
    BY <1>1, FirstPhaseStep DEF Inv, First, Moves
  <1>3. /\ stack' = stack \cup local[Main] /\ local' \in [Threads -> SUBSET Objects]
        /\ local'[Main] = {} /\ \A u \in Threads \ {Main} : local'[u] = local[u]
        /\ delayed' \in [Threads -> SUBSET WeakProps]
        /\ \A u \in Threads : delayed'[u] = delayed[u]
    BY <1>1, FlushFacts
  <1>9. UNCHANGED <<deferred, deferred_work>> /\ DeferredDone'
    <2>1. Stage("entered") = Stage(at[Main]) /\ deferred_work[Main] = {}
      BY <1>1, <1>2 DEF Stage, Before, Outside, Inv, WorkInv, DeferredDone
    <2>2. UNCHANGED <<deferred, deferred_work>>
      BY <1>1, <2>1, FlushFacts
    <2> QED BY <1>1, <1>2, <2>1, <2>2, DeferMoves DEF Inv, Moves
  <1>4. WorkTypes'
    BY <1>1, <1>3, <1>9 DEF WorkTypes
  <1>5. BusyCounted'
    <2>1. Busy' = Busy
      BY <1>1, <1>2 DEF Busy, Moves
    <2> QED BY <1>1, <2>1 DEF Inv, WorkInv, BusyCounted
  <1>6. Served'
    <2>1. \A u \in Threads : Active(u)' <=> Active(u)
      BY <1>1, <1>2 DEF Active, Moves
    <2>2. Active(Main)
      BY <1>2 DEF Active
    <2> QED BY <1>1, <1>2, <1>3, <2>1, <2>2 DEF Inv, WorkInv, Served, Moves
  <1>7. RootsDone'
    BY <1>1, <1>2 DEF Inv, WorkInv, RootsDone, Before, Outside, Moves
  <1>8. Covered'
    <2>1. \A o : Listed(o) => Listed(o)'
      BY <1>1, <1>3 DEF Listed
    <2> QED BY <1>1, <1>2, <1>9, <2>1, CoveredSame DEF Inv, WorkInv, Moves
  <1> QED BY <1>2, <1>4, <1>5, <1>6, <1>7, <1>8, <1>9, FirstPhase DEF Inv, WorkInv, Moves

-----------------------------------------------------------------------------
LEMMA InvInit ==
  ASSUME Init
  PROVE  Inv
  <1> USE DEF Init, BarrierInit
  <1>1. Main \in Threads /\ Initial = {Main} /\ Cardinality(Initial) = 1
    BY SMT, ParallelMarkAssumption, Counting
  <1>2. DOMAIN syncing = {} /\ pc = [t \in Threads |-> IF t = Main THEN "spawn" ELSE "new"]
    OBVIOUS
  <1>3. BarrierTypes
    BY SMT, <1>1, <1>2 DEF BarrierTypes, Places, Outside, First
  <1>4. \A t \in Threads : at[t] = IF t = Main THEN "spawn" ELSE "new"
    BY <1>2 DEF at, Released
  <1>5. Members = {Main} /\ Awaited = {Main} /\ Now = 0
    <2>1. Members = {Main}
      BY <1>1, <1>4 DEF Members, Outside
    <2>2. Awaited = {Main}
      BY <1>2, <2>1 DEF Awaited
    <2> QED BY <1>1, <1>4, <2>1, <2>2 DEF Now, Phase, First
  <1>6. BarrierInv
    <2>1. Counted /\ FirstGeneration
      BY <1>1, <1>5 DEF Counted, FirstGeneration
    <2>2. InStep /\ MainIsIn
      BY <1>1, <1>4, <1>5 DEF InStep, MainIsIn, Now, Outside
    <2> QED BY <1>3, <2>1, <2>2 DEF BarrierInv
  <1>7. WorkTypes
    <2>1. GrayAll \subseteq Objects /\ PendingAll \subseteq Objects
      BY SMT, ParallelMarkAssumption DEF GrayAll, PendingAll
    <2>2. local \in [Threads -> SUBSET Objects] /\ delayed \in [Threads -> SUBSET WeakProps]
      BY ParallelMarkAssumption
    <2>3. todo \in [Threads -> SUBSET WeakProps] /\ more \in [Threads -> BOOLEAN]
      OBVIOUS
    <2>4. deferred \subseteq Objects /\ deferred_work \in [Threads -> SUBSET Objects]
      BY ParallelMarkAssumption
    <2> QED BY <2>1, <2>2, <2>3, <2>4 DEF WorkTypes
  <1>8. BusyCounted
    <2>1. Busy = {}
      BY <1>4 DEF Busy
    <2> QED BY <2>1, Counting DEF BusyCounted
  <1>9. Served
    <2>1. \A t \in Threads : at[t] = "new" \/ Active(t)
      BY <1>4 DEF Active
    <2> QED BY <1>4, <2>1 DEF Served
  <1>12. DeferredDone
    BY <1>4 DEF DeferredDone, Stage, Before, Outside
  <1>10. RootsDone /\ Agreed /\ RoundIsQuiet
    BY <1>4 DEF RootsDone, Agreed, RoundIsQuiet, Before, Outside, Looked
  <1>11. Covered /\ Finished
    <2>1. \A o \in marked : \E t \in Threads : o \in local[t] \/ o \in delayed[t]
      BY DEF GrayAll, PendingAll
    <2>2. \A o \in Deferred : o \in PutOff
      BY ParallelMarkAssumption DEF PutOff
    <2> QED BY SMT, <1>5, <2>1, <2>2 DEF Covered, Finished, Listed
  <1> QED BY <1>6, <1>7, <1>8, <1>9, <1>10, <1>11, <1>12 DEF Inv, WorkInv

LEMMA StepInv ==
  ASSUME Inv, NEW t \in Threads, Step(t)
  PROVE  Inv'
  <1>1. ASSUME NEW o \in Objects, ProcessDeferredMarking(t, o) PROVE Inv'
    <2>1. CASE pc[t] = "deferred"
      BY <1>1, <2>1, DeferredStepInv
    <2>2. CASE pc[t] = "deferred2"
      BY <1>1, <2>2, DeferredAgainInv
    <2> QED BY <1>1, <2>1, <2>2 DEF ProcessDeferredMarking
  <1>2. ASSUME NEW o \in Objects, PendingStep(t, o) PROVE Inv'
    <2>1. o \in WeakProps
      BY <1>2 DEF PendingStep, Inv, WorkInv, WorkTypes
    <2> QED BY <1>2, <2>1, PendingStepInv
  <1> QED BY <1>1, <1>2, BecomesBusyInv, IterateRootsInv, TakeDeferredInv, DeferredEndsInv, PopBlockInv, ProcessObjectInv,
             PendingBeginsInv, DrainEndsInv, WaitForWorkInv, WorkWaiterWakesInv, RoundWeakEndsInv,
             DecideInv, MournInv, SyncInv, LeaveInv DEF Step

LEMMA InvNext ==
  ASSUME Inv, [Next]_vars
  PROVE  Inv'
  <1>1. CASE MainEnters
    BY <1>1, MainEntersInv
  <1>2. CASE Step(Main)
    BY <1>2, StepInv, ParallelMarkAssumption
  <1>3. ASSUME NEW h \in Helpers, HelperStep(h) PROVE Inv'
    <2>1. h \in Threads
      BY DEF Helpers
    <2> QED BY <1>3, <2>1, SpawnInv, HelperEntersInv, HelperIsLateInv, StepInv DEF HelperStep
  <1>4. CASE UNCHANGED vars
    <2>1. UNCHANGED <<pc, more, participating, remaining, syncing, generation>>
          /\ UNCHANGED <<work, visitors, heap>>
      BY <1>4 DEF vars, barrier, visitors
    <2>2. \A t \in Threads : (Released(t)' <=> Released(t)) /\ AfterSync(t)' = AfterSync(t)
      BY <2>1 DEF Released, AfterSync
    <2>3. at' = at
      BY <2>1, <2>2 DEF at
    <2>4. Members' = Members /\ Now' = Now
      BY <2>3 DEF Members, Now
    <2>5. Awaited' = Awaited
      BY <2>1, <2>4 DEF Awaited
    <2>6. BarrierInv'
      BY <2>1, <2>3, <2>4, <2>5
      DEF Inv, BarrierInv, BarrierTypes, Counted, InStep, FirstGeneration, MainIsIn
    <2> QED BY <2>1, <2>3, <2>6, NothingMoves
  <1> QED BY <1>1, <1>2, <1>3, <1>4 DEF Next

-----------------------------------------------------------------------------
LEMMA AtFinishing ==
  ASSUME Inv, NEW t \in Threads
  PROVE  /\ pc[t] \in Finishing => at[t] \in Finishing
         /\ pc[t] \in Mourning => at[t] \in Mourning
  <1>1. BarrierTypes
    BY DEF Inv, BarrierInv
  <1>2. CASE Released(t)
    BY <1>1, <1>2, AtIsAPlace DEF Released, BarrierTypes, AfterSync, Finishing, Mourning, Syncs
  <1>3. CASE ~Released(t)
    BY <1>1, <1>3, AtIsAPlace
  <1> QED BY <1>2, <1>3

\* In the second phase of deferred marking only Instructions are put off.
LEMMA OnlyInstructions ==
  ASSUME Inv, Now >= 3
  PROVE  PutOff \subseteq Instructions
  <1>1. BarrierInv /\ DeferredDone /\ WorkTypes /\ Main \in Threads
    BY ParallelMarkAssumption DEF Inv, WorkInv
  <1>2. \A u \in Threads : at[u] # "deferred"
    <2>1. ASSUME NEW u \in Threads, at[u] = "deferred" PROVE FALSE
      <3>1. Phase(at[u]) = Now
        BY <1>1, <2>1 DEF BarrierInv, InStep, Members, Outside
      <3> QED BY SMT, <2>1, <3>1 DEF Phase, First
    <2> QED BY <2>1
  <1>3. \A u \in Threads : deferred_work[u] \subseteq Instructions
    BY <1>1, <1>2 DEF DeferredDone, Stage
  <1>4. deferred \subseteq Instructions
    <2>1. at[Main] \notin Before \cup {"deferred"}
      <3>1. at[Main] \notin First
        BY SMT DEF Now, Phase
      <3> QED BY <1>1, <3>1 DEF BarrierInv, MainIsIn, Before, First
    <2>2. Stage(at[Main]) \in {"past", "done"}
      BY <2>1 DEF Stage
    <2> QED BY <1>1, <2>2 DEF DeferredDone
  <1> QED BY <1>3, <1>4 DEF PutOff

LEMMA InvImpliesClosed ==
  ASSUME Inv, NEW t \in Threads, pc[t] \in Finishing
  PROVE  /\ Closed(marked \cup PutOff) /\ PutOff \subseteq Instructions /\ stack = {}
         /\ \A u \in Threads : local[u] = {} /\ todo[u] = {}
         /\ \A u \in Threads : \A w \in delayed[u] : IsWhite(Key[w])
  <1>1. BarrierInv /\ BarrierTypes /\ WorkInv /\ at \in [Threads -> Places]
    BY AtIsAPlace DEF Inv, BarrierInv
  <1>2. at[t] \in Finishing
    BY AtFinishing
  <1>3. Now >= 3
    BY SMT, <1>1, <1>2 DEF BarrierInv, InStep, Members, Outside, Finishing, Phase, First
  <1>4. slice /\ PutOff \subseteq Instructions
    <2>1. slice
      BY <1>1, <1>2 DEF WorkInv, RootsDone, Before, Outside, Finishing
    <2> QED BY <1>3, <2>1, OnlyInstructions
  <1>5. stack = {} /\ \A u \in Threads : local[u] = {} /\ White(delayed[u])
    BY <1>1, <1>3 DEF WorkInv, Finished
  <1>6. \A u \in Threads : todo[u] = {}
    <2>1. ASSUME NEW u \in Threads, todo[u] # {} PROVE FALSE
      <3>1. at[u] \in {"drain_weak", "round_weak"}
        BY <1>1, <2>1 DEF WorkInv, Served
      <3>2. Phase(at[u]) = Now
        BY <1>1, <3>1 DEF BarrierInv, InStep, Members, Outside
      <3> QED BY SMT, <1>3, <3>1, <3>2 DEF Phase, First
    <2> QED BY <2>1
  <1>7. \A o \in Found : Pointers(o) \subseteq Found \/ (o \in WeakProps /\ Key[o] \notin Found)
    <2>1. \A o \in marked : Listed(o) => o \in WeakProps /\ Key[o] \notin marked
      BY <1>1, <1>5, <1>6 DEF Listed, White, WorkInv, WorkTypes
    <2>2. \A o \in marked : Pointers(o) \subseteq Found \/ (o \in WeakProps /\ Key[o] \notin marked)
      BY <1>1, <2>1 DEF WorkInv, Covered
    <2>3. \A o \in WeakProps : Key[o] \notin PutOff
      BY <1>4, InstructionsAssumption
    <2>4. \A o \in PutOff : Pointers(o) = {}
      BY <1>4, InstructionsAssumption DEF Pointers
    <2> QED BY <2>2, <2>3, <2>4 DEF Found
  <1>8. Closed(Found)
    <2>1. Roots \cup GrayAll \cup PendingAll \subseteq Found
      BY <1>1, <1>4 DEF WorkInv, Covered, Found
    <2>2. \A o \in Deferred : {o} \cup Pointers(o) \subseteq Found
      <3>1. \A o \in PutOff : Pointers(o) = {} /\ o \in Found
        BY <1>4, InstructionsAssumption DEF Pointers, Found
      <3>2. \A o \in Deferred \ PutOff : {o} \cup Pointers(o) \subseteq Found
        BY <1>1 DEF WorkInv, Covered
      <3> QED BY <3>1, <3>2
    <2>3. \A o \in Found \ WeakProps : Points[o] \subseteq Found
      BY <1>7 DEF Pointers
    <2>4. \A w \in Found \cap WeakProps : Key[w] \in Found => Value[w] \in Found
      BY <1>7 DEF Pointers
    <2> QED BY <2>1, <2>2, <2>3, <2>4 DEF Closed
  <1> QED BY <1>4, <1>5, <1>6, <1>8 DEF White, IsWhite, Found

\* At the mourning all markers are through with the deferred objects.
LEMMA InvImpliesNothingPutOff ==
  ASSUME Inv, NEW t \in Threads, pc[t] \in Mourning
  PROVE  PutOff = {}
  <1>1. BarrierInv /\ DeferredDone /\ at[t] \in Mourning
    BY AtFinishing DEF Inv, WorkInv
  <1>2. Now >= 4
    BY SMT, <1>1 DEF BarrierInv, InStep, Members, Outside, Mourning, Phase, First
  <1>3. ASSUME NEW u \in Threads PROVE Stage(at[u]) \in {"before", "done"}
    <2>1. CASE at[u] \in Outside
      BY <2>1 DEF Stage, Before
    <2>2. CASE at[u] \notin Outside
      <3>1. Phase(at[u]) >= 4 /\ at[u] \in Places
        BY <1>1, <1>2, <2>2, AtIsAPlace DEF BarrierInv, InStep, Members
      <3>2. at[u] \in Mourning
        BY SMT, <2>2, <3>1 DEF Phase, First, Places, Mourning
      <3> QED BY <3>2 DEF Stage, Before, Outside, Mourning
    <2> QED BY <2>1, <2>2
  <1>4. deferred = {}
    BY <1>1 DEF DeferredDone, Stage, Before, Outside, Mourning
  <1>5. \A u \in Threads : deferred_work[u] = {}
    BY <1>1, <1>3 DEF DeferredDone
  <1> QED BY <1>4, <1>5 DEF PutOff

LEMMA InvImpliesComplete ==
  ASSUME Inv
  PROVE  MarkingIsComplete
  BY InvImpliesClosed, InvImpliesNothingPutOff DEF MarkingIsComplete

LEMMA InvImpliesStep ==
  ASSUME Inv
  PROVE  MarkersInStep
  <1>1. BarrierInv /\ BarrierTypes /\ WorkInv /\ at \in [Threads -> Places]
    BY AtIsAPlace DEF Inv, BarrierInv
  <1>2. \A t \in Threads : \/ at[t] = pc[t]
                           \/ pc[t] \in Syncs /\ at[t] = AfterSync(t)
    BY <1>1, AtIsAPlace DEF Released, BarrierTypes
  <1>3. ASSUME \A t \in Threads : pc[t] \in {"queued", "gone", "sync1"} PROVE num_busy = 0
    <2>1. \A t \in Threads : at[t] \in {"queued", "gone", "sync1", "pending"}
      BY <1>2, <1>3 DEF AfterSync, Syncs
    <2>2. Busy = {}
      BY <2>1 DEF Busy
    <2> QED BY <1>1, <2>2, Counting DEF WorkInv, BusyCounted
  <1>4. ASSUME NEW t \in Threads, NEW u \in Threads, pc[t] \in Finishing
        PROVE  pc[u] \notin Marking \ {"sync3"}
    <2>1. at[t] \in Finishing /\ at[t] \notin Outside
      BY <1>2, <1>4 DEF AfterSync, Finishing, Outside, Syncs
    <2>2. Now >= 3
      BY SMT, <1>1, <2>1 DEF BarrierInv, InStep, Members, Finishing, Phase, First
    <2>3. ASSUME pc[u] \in Marking \ {"sync3"} PROVE FALSE
      <3>1. at[u] \in Marking /\ at[u] \notin Outside
        BY <1>2, <2>3 DEF AfterSync, Marking, Outside, Syncs
      <3>2. Phase(at[u]) = Now
        BY <1>1, <3>1 DEF BarrierInv, InStep, Members
      <3> QED BY SMT, <2>2, <3>1, <3>2 DEF Marking, Phase, First
    <2> QED BY <2>3
  <1>5. ASSUME NEW t \in Threads, NEW u \in Threads, pc[t] = "finalize"
        PROVE  pc[u] \in {"queued", "sync5", "release", "gone", "finalize"}
    <2>1. at[t] = "finalize" /\ t = Main
      BY <1>1, <1>2, <1>5 DEF Syncs, BarrierInv, MainIsIn
    <2>2. Now = 5
      BY <2>1 DEF Now, Phase, First
    <2>3. at[u] # "new"
      BY <1>1, <2>1 DEF BarrierInv, MainIsIn
    <2>4. CASE at[u] \in Outside
      BY <1>1, <2>3, <2>4, OutsideIsOutside DEF Outside
    <2>5. CASE at[u] \notin Outside
      <3>1. Phase(at[u]) = 5
        BY <1>1, <2>2, <2>5 DEF BarrierInv, InStep, Members
      <3>2. at[u] \in {"release", "finalize"}
        BY SMT, <1>1, <2>5, <3>1 DEF Phase, First, Places
      <3> QED BY <1>2, <3>2 DEF AfterSync, Syncs
    <2> QED BY <2>4, <2>5
  <1> QED BY <1>3, <1>4, <1>5 DEF MarkersInStep

\* For every heap and every number of helpers, early or late: when a marker has
\* left the loop of ParallelMarkTask, GCMarker has marked every object that is
\* reachable, through weak properties with a live key too, but for Instructions that
\* are still put off; no other block or list is left behind, and only weak properties
\* with a dead key are mourned.  When the mourning begins the Instructions are marked
\* as well, also those that a visitor had in its own deferred_work_list_.
THEOREM EverythingIsMarked == Spec => []MarkingIsComplete
  <1>1. Init => Inv
    BY InvInit
  <1>2. Inv /\ [Next]_vars => Inv'
    BY InvNext
  <1>3. Inv => MarkingIsComplete
    BY InvImpliesComplete
  <1> QED BY <1>1, <1>2, <1>3, PTL DEF Spec

\* For every number of helpers the barrier keeps the markers together: nobody marks
\* when another finishes, and none is inside its task when MarkObjects deletes the
\* visitors.
THEOREM MarkersStayTogether == Spec => []MarkersInStep
  <1>1. Init => Inv
    BY InvInit
  <1>2. Inv /\ [Next]_vars => Inv'
    BY InvNext
  <1>3. Inv => MarkersInStep
    BY InvImpliesStep
  <1> QED BY <1>1, <1>2, <1>3, PTL DEF Spec
===============================================================================
