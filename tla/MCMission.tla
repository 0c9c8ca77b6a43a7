------------------------------ MODULE MCMission ------------------------------
(* The whole mission on a small fleet: the agents, the SafetyController and *)
(* the orchestrator.  The drones are interchangeable.                       *)
EXTENDS Orchestrator, TLC

DroneSymmetry == Permutations(Drones)
=============================================================================
