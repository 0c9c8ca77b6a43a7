------------------------------ MODULE Corridor ------------------------------
(***************************************************************************)
(* What one SafetyController slot promises, and nothing about how: the     *)
(* competition field has a single C2 corridor, altitude separation is      *)
(* impossible under the 1.1 m ceiling, so at most one drone of the fleet   *)
(* may be in the corridor at a time.  A drone that is in it leaves before  *)
(* another one enters.  The launch slot and the landing slot of            *)
(* SafetyController.tla are both shown to implement this module.           *)
(***************************************************************************)
CONSTANT Drones

VARIABLE inCorridor         \* the drones inside the corridor

Init == inCorridor = {}

Enter(d) == inCorridor = {} /\ inCorridor' = {d}

Leave == inCorridor # {} /\ inCorridor' = {}

Next == Leave \/ \E d \in Drones : Enter(d)

Spec == Init /\ [][Next]_inCorridor
=============================================================================
