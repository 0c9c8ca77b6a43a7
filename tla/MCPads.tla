------------------------------- MODULE MCPads -------------------------------
(* Two drones that land, with two beacons in view.  d1 holds both pads for  *)
(* valid, d2 only one: they contend for b2, and d2's reading of b1 is a     *)
(* verdict d1 has to obey.                                                  *)
EXTENDS LandOnPad, TLC

CONSTANTS d1, d2, b1, b2

MCDrones == {d1, d2}
MCBeacons == {b1, b2}
OneBeacon == {b1}
Same == [d \in {d1, d2} |-> {b1}]
Differing == (d1 :> {b1, b2}) @@ (d2 :> {b2})
ByMarker == [d \in {d1, d2} |-> "marker"]
ByEither == (d1 :> "marker") @@ (d2 :> "pad")
=============================================================================
