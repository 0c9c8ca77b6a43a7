--------------------------- MODULE ConvoyRegistry ---------------------------
(***************************************************************************)
(* finals.mission.convoy_registry.ConvoyRegistry: the in-process authority *)
(* on which drone tracks which convoy.  A claim is a lock with a heartbeat *)
(* and a time to live; an owner may flag that its convoy left its sector,  *)
(* upon which the orchestrator may offer the convoy to a neighbour.        *)
(*                                                                         *)
(* One entry per convoy.  The mutators are written as functions from the   *)
(* entry before the call to the entry after it, because one step of a      *)
(* phase makes several calls; every call runs under one lock.  The clock   *)
(* is the age of the heartbeat, in seconds, capped just past the ttl.      *)
(***************************************************************************)
EXTENDS Naturals

CONSTANTS
  Drones,
  Convoys,    \* the seeded known_ids
  NoDrone,    \* None
  TTL         \* lock_ttl_s

ASSUME RegistryAssumption == NoDrone \notin Drones /\ TTL \in Nat \ {0}

VARIABLE entry

\* An entry without the flags of a hand-over (_clear_handover).
Clean(status, owner) ==
  [status |-> status, owner |-> owner, age |-> 0, exited |-> FALSE,
   bearing |-> NoDrone, offered |-> NoDrone]

\* bearing is the exit bearing, as the drone whose sector contains it.
Entries ==
  [status : {"unclaimed", "claimed", "serviced", "lost"},
   owner : Drones \union {NoDrone}, age : 0..(TTL + 1), exited : BOOLEAN,
   bearing : Drones \union {NoDrone}, offered : Drones \union {NoDrone}]

RegistryInit == entry = [c \in Convoys |-> Clean("unclaimed", NoDrone)]

\* CLAIMED and not past the ttl: _effective_status folds staleness in.
Live(e) == e.status = "claimed" /\ e.age <= TTL
LiveOwner(e) == IF Live(e) THEN e.owner ELSE NoDrone

(***************************************************************************)
(* Calls of a drone d on the entry e.                                      *)
(***************************************************************************)
\* Mutant of Claimable: it forgets that another drone's lock is still live.
ClaimableAlways(e, d) == e.status # "serviced"

Claimable(e, d) ==
  /\ e.status # "serviced"
  /\ Live(e) => d \in {e.owner, e.offered}

\* Mutant of Claimed: a taken offer leaves the old owner's flags standing.
ClaimedKeepingFlags(e, d) ==
  IF Live(e) THEN [e EXCEPT !.owner = d, !.age = 0]
  ELSE Clean("claimed", d)

\* A refresh keeps the flags; a grant and a taken offer start clean.
Claimed(e, d) ==
  IF Live(e) /\ e.owner = d THEN [e EXCEPT !.age = 0]
  ELSE Clean("claimed", d)

MayRenew(e, d) == e.owner = d /\ Live(e)
Renewed(e) == [e EXCEPT !.age = 0]

\* Mutant of Released: _clear_handover is not called.
ReleasedKeepingFlags(e, d, serviced) ==
  IF e.owner # d THEN e
  ELSE [e EXCEPT !.status = IF serviced THEN "serviced" ELSE "unclaimed",
                 !.owner = NoDrone, !.age = 0]

\* The owner field alone decides: a lock past its ttl can still be released
\* until expire() runs.  Anyone else's release is a no-op.
Released(e, d, serviced) ==
  IF e.owner # d THEN e
  ELSE Clean(IF serviced THEN "serviced" ELSE "unclaimed", NoDrone)

FlaggedOut(e, bearing) == [e EXCEPT !.exited = TRUE, !.bearing = bearing]
FlaggedIn(e) ==
  [e EXCEPT !.exited = FALSE, !.bearing = NoDrone, !.offered = NoDrone]

(***************************************************************************)
(* Calls of the orchestrator.                                              *)
(***************************************************************************)
Expired(e) ==
  IF e.status = "claimed" /\ ~Live(e) THEN Clean("lost", NoDrone) ELSE e

MayOffer(e, d) == Live(e) /\ e.exited /\ e.owner # d
Offered(e, d) == [e EXCEPT !.offered = d]

\* False when nothing was seeded.
AllServiced ==
  Convoys # {} /\ \A c \in Convoys : entry[c].status = "serviced"

\* One second passes.
Aged(e) ==
  IF e.status = "claimed" /\ e.age <= TTL THEN [e EXCEPT !.age = @ + 1] ELSE e

-----------------------------------------------------------------------------
\* "a stale flag/offer can never leak across a claim/release/expire
\* boundary": a flag or an offer belongs to a claim, an offer also to a flag,
\* and the convoy is never offered to the drone that has it.
FlagsBelongToAClaim ==
  \A c \in Convoys :
    LET e == entry[c] IN
    /\ e.exited => e.status = "claimed"
    /\ e.offered # NoDrone => e.exited /\ e.offered # e.owner
    /\ e.status = "claimed" <=> e.owner # NoDrone
=============================================================================
