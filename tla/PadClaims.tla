------------------------------ MODULE PadClaims ------------------------------
(***************************************************************************)
(* What the shared pad map promises the drones that land, without frames,  *)
(* altitudes or timers: a pad has at most one owner and keeps it, a pad    *)
(* that was once read red stays red, and nobody takes a pad known as red.  *)
(***************************************************************************)
CONSTANTS Drones, Beacons, Nobody

VARIABLES
  owner,      \* owner[b]: a drone or Nobody
  red         \* the beacons somebody has read as invalid

Init == owner = [b \in Beacons |-> Nobody] /\ red = {}

\* One drone looks around: it may learn of red pads, and may take a pad
\* that is free and, as far as anyone knows by then, not red.
Look(d) ==
  /\ red' \in SUBSET Beacons /\ red \subseteq red'
  /\ \/ UNCHANGED owner
     \/ \E b \in Beacons \ red' :
          owner[b] = Nobody /\ owner' = [owner EXCEPT ![b] = d]

Next == \E d \in Drones : Look(d)

Spec == Init /\ [][Next]_<<owner, red>>
=============================================================================
