---------------------------- MODULE MCPreflight ----------------------------
(* Three drones: one may be lost and the floor of two still hold, or fail.  *)
EXTENDS Preflight

CONSTANTS d1, d2, d3

MCFleet == <<d1, d2, d3>>
=============================================================================
