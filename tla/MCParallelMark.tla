--------------------------- MODULE MCParallelMark ---------------------------
(***************************************************************************)
(* A chain of weak properties that no single marker can follow: the key of *)
(* w1 is found through the root, its value is the key of w2, and the two   *)
(* were last seen by different visitors.  The key of w3 is garbage.  The   *)
(* Instructions i are met early, and again at the end of the chain.        *)
(***************************************************************************)
EXTENDS ParallelMark

CONSTANTS main, h1, h2

MCObjects == {"a", "k", "w1", "x", "w2", "y", "d", "w3", "z", "i"}
MCPoints == [o \in MCObjects |->
               CASE o = "a" -> {"k", "i"} [] o = "y" -> {"i"} [] o = "d" -> {"w3"}
                 [] OTHER -> {}]
MCWeakProps == {"w1", "w2", "w3"}
MCKey == [w1 |-> "k", w2 |-> "x", w3 |-> "z"]
MCValue == [w1 |-> "x", w2 |-> "y", w3 |-> "z"]
MCGray == [t \in Threads |-> IF t = h1 THEN {"w1"} ELSE {}]
MCPending == [t \in Threads |-> IF t = h2 THEN {"w2"} ELSE {}]
=============================================================================
