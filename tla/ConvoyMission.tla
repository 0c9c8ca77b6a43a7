---------------------------- MODULE ConvoyMission ----------------------------
(***************************************************************************)
(* The convoy coordination of one mission: the TrackConvoy phases of the   *)
(* fleet, the registry they share, and the part of the orchestrator's beat *)
(* that works on it (expire, match hand-overs, stop when all is serviced). *)
(***************************************************************************)
EXTENDS TrackConvoy

CONSTANT Serviced       \* the abstract Done; any value that is no drone

ASSUME ServicedAssumption == Serviced \notin Drones \union {NoDrone}

\* _idle_drones: drones no live lock names, after this beat's expire().
Idle == {d \in Drones : \A c \in Convoys : LiveOwner(entry[c]) # d}

\* _match_handovers on one entry: the drone whose sector holds the exit
\* bearing gets the offer if it is idle.  The idle set is read once per
\* beat, so one drone may be offered two convoys.
Matched(e, idle) ==
  IF /\ e.bearing \in idle /\ e.bearing # e.offered
     /\ MayOffer(e, e.bearing)
  THEN Offered(e, e.bearing) ELSE e

Beat ==
  /\ entry' = [c \in Convoys |-> Matched(Expired(entry[c]), Idle)]
  /\ stop' = (stop \/ AllServiced)
  /\ UNCHANGED <<phaseVars, zone>>

\* A second passes; the convoys drive where they like.
TimePasses ==
  /\ entry' = [c \in Convoys |-> Aged(entry[c])]
  /\ UNCHANGED <<phaseVars, zone, stop>>

Drives(c) ==
  /\ \E z \in Drones \union {NoDrone} : zone' = [zone EXCEPT ![c] = z]
  /\ UNCHANGED <<entry, phaseVars, stop>>

Next ==
  \/ \E d \in Drones : Step(d)
  \/ Beat \/ TimePasses
  \/ \E c \in Convoys : Drives(c)

Spec == PhaseInit /\ [][Next]_convoyVars

-----------------------------------------------------------------------------
(***************************************************************************)
(* Properties.                                                             *)
(***************************************************************************)
\* Who holds a convoy, and to whom it is offered, as far as locks that have
\* not lapsed say.
HolderIn(e)  == IF e.status = "serviced" THEN Serviced ELSE LiveOwner(e)
OfferedIn(e) == IF Live(e) THEN e.offered ELSE NoDrone

Holder    == [c \in Convoys |-> HolderIn(entry[c])]
OfferedTo == [c \in Convoys |-> OfferedIn(entry[c])]

\* "two drones must never track the same convoy": locks with heartbeats,
\* lapses, flags and late releases implement plain ownership, in which a
\* convoy has one holder, a drone holds one convoy, a held convoy only moves
\* to the drone it was offered to, and serviced is final.
Ownership == INSTANCE ConvoyOwnership WITH
  Nobody <- NoDrone, Done <- Serviced, holder <- Holder, offer <- OfferedTo
ImplementsOwnership == Ownership!Spec

\* A live lock is one somebody works for: its owner is tracking that very
\* convoy, or died within the ttl.  No path of the phase (hand-over, lapse,
\* timeout, service) leaves a live lock behind.
OwnerIsTracking ==
  \A d \in Drones, c \in Convoys :
    LiveOwner(entry[c]) = d => phase[d] \in {"track", "dead"} /\ target[d] = c

\* The phase's memory of the exit edge agrees with the registry's while the
\* lock is its own; if they part, an exit is never flagged again or an offer
\* is never withdrawn.
FlagAgrees ==
  \A d \in Drones :
    (phase[d] = "track" /\ LiveOwner(entry[target[d]]) = d)
      => (entry[target[d]].exited <=> d \in flagged)
=============================================================================
