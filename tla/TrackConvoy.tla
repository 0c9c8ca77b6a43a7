---------------------------- MODULE TrackConvoy ----------------------------
(***************************************************************************)
(* finals.mission.phases.track_convoy.TrackConvoy, the phase of each drone *)
(* of a convoy mission with the shared registry, sectors and               *)
(* read-and-release (disengage_on_read).  step() has no await: everything  *)
(* one tick reads from and writes to the registry is one action.  Between  *)
(* two steps of a drone any time passes (a command may take longer than    *)
(* the ttl of a lock).                                                     *)
(***************************************************************************)
EXTENDS ConvoyRegistry

CONSTANT ConfirmHits    \* read_confirm_hits

ASSUME ConfirmAssumption == ConfirmHits \in Nat \ {0}

VARIABLES
  phase,      \* phase[d]: "acquire", "track", "done", or "dead" with its agent
  target,     \* target[d]: the convoy it tracks, NoDrone for None
  flagged,    \* drones that told the registry their convoy left the sector
  reads,      \* reads[d]: fresh reads of the target, fewer than ConfirmHits
  zone,       \* zone[c]: the drone in whose sector convoy c is now (external)
  stop        \* the shared stop event: no phase is stepped any more

phaseVars == <<phase, target, flagged, reads>>
convoyVars == <<entry, phaseVars, zone, stop>>

PhaseTypeOK ==
  /\ entry \in [Convoys -> Entries]
  /\ phase \in [Drones -> {"acquire", "track", "done", "dead"}]
  /\ target \in [Drones -> Convoys \union {NoDrone}]
  /\ flagged \subseteq Drones
  /\ reads \in [Drones -> 0..(ConfirmHits - 1)]
  /\ zone \in [Convoys -> Drones \union {NoDrone}]
  /\ stop \in BOOLEAN

PhaseInit ==
  /\ RegistryInit
  /\ phase = [d \in Drones |-> "acquire"]
  /\ target = [d \in Drones |-> NoDrone]
  /\ flagged = {} /\ reads = [d \in Drones |-> 0]
  /\ zone \in [Convoys -> Drones \union {NoDrone}]
  /\ stop = FALSE

Stepped(d, in) == ~stop /\ phase[d] = in

\* _drop_target: back to acquire with nothing.
DropTarget(d) ==
  /\ phase' = [phase EXCEPT ![d] = "acquire"]
  /\ target' = [target EXCEPT ![d] = NoDrone]
  /\ flagged' = flagged \ {d}
  /\ reads' = [reads EXCEPT ![d] = 0]

\* _soft_zone: tell the registry about the edge, once per edge.  out is the
\* drones that have their exit flagged before.
SoftZoned(e, d, c, out) ==
  IF zone[c] # d /\ d \notin out THEN FlaggedOut(e, zone[c])
  ELSE IF zone[c] = d /\ d \in out THEN FlaggedIn(e)
  ELSE e

\* The rest of a track step once the lock is known to be ours, e being the
\* entry: n reads so far, the last of them in this tick; out as above.
Read(d, c, e, n, out) ==
  IF n >= ConfirmHits
  THEN /\ entry' = [entry EXCEPT ![c] = Released(e, d, TRUE)]
       /\ DropTarget(d)
  ELSE \E bearingKnown \in BOOLEAN :
       /\ entry' = [entry EXCEPT ![c] =
                      IF bearingKnown THEN SoftZoned(e, d, c, out) ELSE e]
       /\ flagged' = IF ~bearingKnown THEN out
                     ELSE IF zone[c] # d THEN out \union {d} ELSE out \ {d}
       /\ phase' = [phase EXCEPT ![d] = "track"]
       /\ target' = [target EXCEPT ![d] = c]
       /\ reads' = [reads EXCEPT ![d] = n]

\* A convoy with enough hits that the registry would give us: claim it, and
\* steer in the same step, on a fresh sighting or on older hits.
Acquire(d, c) ==
  /\ Stepped(d, "acquire") /\ Claimable(entry[c], d)
  /\ LET e == Claimed(entry[c], d) IN
       \/ Read(d, c, e, 1, flagged \ {d})
       \/ /\ entry' = [entry EXCEPT ![c] = e]
          /\ phase' = [phase EXCEPT ![d] = "track"]
          /\ target' = [target EXCEPT ![d] = c]
          /\ flagged' = flagged \ {d} /\ reads' = [reads EXCEPT ![d] = 0]
     /\ UNCHANGED <<zone, stop>>

\* Nothing to track within the budgets: the phase hands back.
GiveUp(d) ==
  /\ Stepped(d, "acquire")
  /\ phase' = [phase EXCEPT ![d] = "done"]
  /\ UNCHANGED <<entry, target, flagged, reads, zone, stop>>

\* A fresh sighting of the target while the lock is ours; a tick that brings
\* several of them is as many of these steps.
TrackFresh(d) ==
  /\ Stepped(d, "track") /\ MayRenew(entry[target[d]], d)
  /\ Read(d, target[d], Renewed(entry[target[d]]), reads[d] + 1, flagged)
  /\ UNCHANGED <<zone, stop>>

\* A fresh sighting, and renew() says the lock moved off us.
TrackLostLock(d) ==
  /\ Stepped(d, "track") /\ ~MayRenew(entry[target[d]], d)
  /\ DropTarget(d)
  /\ UNCHANGED <<entry, zone, stop>>

\* Mutant of TrackTimesOut: the target is dropped with its lock still held.
TimesOutHolding(d) ==
  /\ Stepped(d, "track")
  /\ DropTarget(d)
  /\ UNCHANGED <<entry, zone, stop>>

\* No sighting for lost_timeout_s: hand the lock back and look again.
TrackTimesOut(d) ==
  /\ Stepped(d, "track")
  /\ entry' = [entry EXCEPT ![target[d]] = Released(@, d, FALSE)]
  /\ DropTarget(d)
  /\ UNCHANGED <<zone, stop>>

\* The investigate budget, or the chase cap after the read and the steering
\* of a tick: release as SERVICED, which overwrites what that tick wrote, Done.
TrackDone(d) ==
  /\ Stepped(d, "track")
  /\ entry' = [entry EXCEPT ![target[d]] = Released(@, d, TRUE)]
  /\ phase' = [phase EXCEPT ![d] = "done"]
  /\ UNCHANGED <<target, flagged, reads, zone, stop>>

\* The agent fails, crashes or loses its link: its lock stays where it is.
Dies(d) ==
  /\ phase[d] \in {"acquire", "track"} /\ ~stop
  /\ phase' = [phase EXCEPT ![d] = "dead"]
  /\ UNCHANGED <<entry, target, flagged, reads, zone, stop>>

Step(d) ==
  \/ \E c \in Convoys : Acquire(d, c)
  \/ GiveUp(d) \/ TrackFresh(d) \/ TrackLostLock(d) \/ TrackTimesOut(d)
  \/ TrackDone(d) \/ Dies(d)
=============================================================================
