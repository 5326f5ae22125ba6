---------------------------- MODULE MCSafepoint ----------------------------
(* Small instances of Safepoint for TLC.                                   *)
EXTENDS Safepoint, TLC

Symmetry == Permutations(Mutators) \cup Permutations(Threads \ (Mutators \cup Bypass))
=============================================================================
