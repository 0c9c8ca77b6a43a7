----------------------------- MODULE PadValidity -----------------------------
(***************************************************************************)
(* finals.mission.pad_validity.PadValidityMap: for every beacon, what the  *)
(* swarm knows of its pad and which drone has claimed it.  Each call runs  *)
(* under one lock; a step of the landing phase makes several of them with  *)
(* no await in between, so they are functions of the fields they read.     *)
(* Time stamps and who read what only feed the heartbeat and are left out. *)
(***************************************************************************)
EXTENDS Naturals

CONSTANTS
  Drones,
  Beacons,
  NoDrone     \* None

ASSUME PadMapAssumption == NoDrone \notin Drones

VARIABLES
  verdict,    \* verdict[b]: the broadcast validity, "unread" for None
  claimedBy   \* claimedBy[b]: the owner of the pad at beacon b

padMap == <<verdict, claimedBy>>

PadMapTypeOK ==
  /\ verdict \in [Beacons -> {"unread", "valid", "invalid"}]
  /\ claimedBy \in [Beacons -> Drones \union {NoDrone}]

PadMapInit ==
  /\ verdict = [b \in Beacons |-> "unread"]
  /\ claimedBy = [b \in Beacons |-> NoDrone]

\* Mutant of Recorded: the latest reading wins.
LatestRecorded(old, valid) == IF valid THEN "valid" ELSE "invalid"

\* record(): invalid is sticky.
Recorded(old, valid) ==
  IF valid /\ old # "invalid" THEN "valid" ELSE "invalid"

\* Mutant of ClaimedByOther: the owner is never asked for.
NeverClaimed(b, d) == FALSE

ClaimedByOther(b, d) == claimedBy[b] \notin {NoDrone, d}

\* claim(), of which a caller that lost keeps its hands off.
Claimed(b, d) ==
  [claimedBy EXCEPT ![b] = IF @ = NoDrone THEN d ELSE @]
=============================================================================
