------------------------------ MODULE MCConvoy ------------------------------
(* The convoy mission on a small fleet.  Drones are interchangeable, and so *)
(* are convoys.                                                            *)
EXTENDS ConvoyMission, TLC

FleetSymmetry == Permutations(Drones) \union Permutations(Convoys)
=============================================================================
