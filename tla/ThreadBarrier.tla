---------------------------- MODULE ThreadBarrier ----------------------------
(***************************************************************************)
(* runtime/vm/thread_barrier.h: a barrier for a number of threads that is  *)
(* fixed when the first round ends.  Each operator is the part of a        *)
(* thread's step that changes the barrier; ThreadBarrier's users give the  *)
(* step its place in the thread.                                           *)
(***************************************************************************)
EXTENDS Naturals, FiniteSets

CONSTANTS
  Threads,    \* the num_threads threads that share the barrier
  Initial     \* the threads that take part from the start

VARIABLES
  ref_count,      \* ref_count_; the barrier is deleted at 0
  participating,  \* participating_
  remaining,      \* remaining_
  generation,     \* generation_
  syncing         \* threads in Sync, with the generation they found

barrier == <<ref_count, participating, remaining, generation, syncing>>

BarrierInit ==
  /\ ref_count = Cardinality(Threads)
  /\ participating = Cardinality(Initial) /\ remaining = Cardinality(Initial)
  /\ generation = 0 /\ syncing = [t \in {} |-> 0]

CanEnter == generation = 0

TryEnter(t) ==
  /\ CanEnter
  /\ remaining' = remaining + 1 /\ participating' = participating + 1
  /\ UNCHANGED <<ref_count, generation, syncing>>

\* The first half of Sync: the last thread starts the next generation and does
\* not wait.
SyncIsLast == remaining = 1

SyncLast(t) ==
  /\ t \notin DOMAIN syncing /\ SyncIsLast
  /\ generation' = generation + 1 /\ remaining' = participating
  /\ UNCHANGED <<ref_count, participating, syncing>>

SyncWait(t) ==
  /\ t \notin DOMAIN syncing /\ ~SyncIsLast
  /\ remaining' = remaining - 1
  /\ syncing' = [u \in DOMAIN syncing \cup {t} |->
                   IF u = t THEN generation ELSE syncing[u]]
  /\ UNCHANGED <<ref_count, participating, generation>>

\* A thread leaves Sync once the generation is no longer the one it found.
SyncWakes(t) ==
  /\ t \in DOMAIN syncing /\ syncing[t] # generation
  /\ syncing' = [u \in DOMAIN syncing \ {t} |-> syncing[u]]
  /\ UNCHANGED <<ref_count, participating, remaining, generation>>

Release(t) ==
  /\ ref_count' = ref_count - 1
  /\ UNCHANGED <<participating, remaining, generation, syncing>>
=============================================================================
