-------------------------- MODULE MCPortsAndSlots --------------------------
(***************************************************************************)
(* The instances of MutatorSlots and PortMap for TLC.  The two have no     *)
(* state in common, so a behaviour is one of the slots or one of the       *)
(* ports.                                                                  *)
(***************************************************************************)
EXTENDS MutatorSlots, PortMap

\* One handler with as many ports as it takes to fill all slots of a table with
\* live and deleted entries; and two handlers that compete for ports.
MCHandlers == 1 .. 2
MCDraws ==
  { <<{7, 11, 15, 19, 23, 27, 31, 35}, {}>>,
    <<{7, 11, 15, 19, 23}, {7}>> }

VARIABLE component   \* "slots" or "ports"

MCInit ==
  /\ component \in {"slots", "ports"} /\ Init /\ PortMapInit
  /\ component = "slots" => draws = CHOOSE d \in Draws : TRUE

MCNext ==
  \/ component = "slots" /\ Next /\ UNCHANGED map_vars /\ UNCHANGED component
  \/ component = "ports" /\ PortMapNext /\ UNCHANGED vars /\ UNCHANGED component

MCSpec == MCInit /\ [][MCNext]_<<vars, map_vars, component>> /\ Fairness
=============================================================================
