------------------------ MODULE ConvoyMission_proofs ------------------------
(***************************************************************************)
(* Theorems about the convoy coordination, for any fleet, any convoys, any *)
(* time to live and any number of confirming reads.                        *)
(***************************************************************************)
EXTENDS ConvoyMission, TLAPS

-----------------------------------------------------------------------------
(***************************************************************************)
(* The inductive invariant.  A phase that steers has a target; everything  *)
(* else is what the runs check.                                            *)
(***************************************************************************)
TrackerHasTarget == \A d \in Drones : phase[d] = "track" => target[d] \in Convoys

ConvoyInv ==
  /\ PhaseTypeOK /\ TrackerHasTarget
  /\ FlagsBelongToAClaim /\ OwnerIsTracking /\ FlagAgrees

\* An entry by itself: its type, and what FlagsBelongToAClaim says of it.
Consistent(e) ==
  /\ e \in Entries
  /\ e.exited => e.status = "claimed"
  /\ e.offered # NoDrone => e.exited /\ e.offered # e.owner
  /\ e.status = "claimed" <=> e.owner # NoDrone

-----------------------------------------------------------------------------
(***************************************************************************)
(* The calls of the registry on one entry.                                 *)
(***************************************************************************)
\* A grant to a drone that has no live lock on the entry starts it clean.
LEMMA ClaimedEntry ==
  ASSUME NEW d \in Drones, NEW e, Consistent(e), LiveOwner(e) # d
  PROVE  /\ Consistent(Claimed(e, d)) /\ Live(Claimed(e, d))
         /\ Claimed(e, d).owner = d /\ Claimed(e, d).offered = NoDrone
         /\ ~Claimed(e, d).exited
<1>1. Claimed(e, d) = Clean("claimed", d)
  BY DEF Claimed, LiveOwner
<1>2. Clean("claimed", d) \in Entries
  BY RegistryAssumption DEF Entries, Clean
<1> QED
  BY <1>1, <1>2, RegistryAssumption DEF Consistent, Clean, Live

\* A renewed lock is as live as it was.
LEMMA RenewedEntry ==
  ASSUME NEW e, Consistent(e), Live(e)
  PROVE  /\ Consistent(Renewed(e)) /\ Live(Renewed(e))
         /\ Renewed(e).owner = e.owner /\ Renewed(e).offered = e.offered
         /\ Renewed(e).exited = e.exited
BY RegistryAssumption DEF Consistent, Entries, Renewed, Live

\* After a release the entry is free or serviced; nobody else's is touched.
LEMMA ReleasedEntry ==
  ASSUME NEW d \in Drones, NEW e, Consistent(e), NEW s \in BOOLEAN
  PROVE  /\ Consistent(Released(e, d, s))
         /\ e.owner # d => Released(e, d, s) = e
         /\ e.owner = d =>
              /\ ~Live(Released(e, d, s))
              /\ Released(e, d, s).status \in {"serviced", "unclaimed"}
              /\ s <=> Released(e, d, s).status = "serviced"
BY RegistryAssumption DEF Consistent, Entries, Released, Clean, Live

\* Flagging moves neither the lock nor the offer to anybody; it records which
\* side of the edge the convoy is on.
LEMMA SoftZonedEntry ==
  ASSUME NEW d \in Drones, NEW c \in Convoys, NEW e, Consistent(e), Live(e),
         NEW out, e.exited <=> d \in out,
         zone[c] \in Drones \union {NoDrone}
  PROVE  /\ Consistent(SoftZoned(e, d, c, out)) /\ Live(SoftZoned(e, d, c, out))
         /\ SoftZoned(e, d, c, out).owner = e.owner
         /\ SoftZoned(e, d, c, out).offered \in {e.offered, NoDrone}
         /\ SoftZoned(e, d, c, out).exited <=> zone[c] # d
BY RegistryAssumption
   DEF Consistent, Entries, SoftZoned, FlaggedOut, FlaggedIn, Live

\* The beat's two calls: a lapsed lock is dropped, a live one keeps all but
\* its offer, which goes to an idle drone.
LEMMA BeatEntry ==
  ASSUME NEW e, Consistent(e), NEW idle \in SUBSET Drones
  PROVE  LET f == Matched(Expired(e), idle) IN
         /\ Consistent(f)
         /\ Live(f) <=> Live(e)
         /\ f.status = "serviced" <=> e.status = "serviced"
         /\ Live(e) => f.owner = e.owner /\ f.exited = e.exited
         /\ Live(e) /\ f.offered # e.offered => f.offered \in idle
<1> DEFINE x == Expired(e)
          f == Matched(x, idle)
<1>1. CASE Live(e)
  <2>1. x = e
    BY <1>1 DEF Expired
  <2>2. CASE f = e
    BY <1>1, <2>2
  <2>3. CASE f # e
    <3>1. f = [e EXCEPT !.offered = e.bearing] /\ e.bearing \in idle
          /\ e.exited /\ e.owner # e.bearing
      BY <2>1, <2>3 DEF Matched, MayOffer, Offered
    <3> QED
      BY <1>1, <3>1, RegistryAssumption DEF Consistent, Entries, Live
  <2> QED
    BY <2>2, <2>3
<1>2. CASE ~Live(e) /\ e.status = "claimed"
  <2>1. x = Clean("lost", NoDrone)
    BY <1>2 DEF Expired
  <2>2. Consistent(x)
    BY <2>1, RegistryAssumption DEF Consistent, Entries, Clean
  <2>3. ~Live(x) /\ x.status = "lost"
    BY <2>1 DEF Clean, Live
  <2>4. f = x
    BY <2>3 DEF Matched, MayOffer
  <2> QED
    BY <1>2, <2>2, <2>3, <2>4
<1>3. CASE e.status # "claimed"
  <2>1. x = e /\ ~Live(e)
    BY <1>3 DEF Expired, Live
  <2>2. f = e
    BY <2>1 DEF Matched, MayOffer
  <2> QED
    BY <2>1, <2>2
<1> QED
  BY <1>1, <1>2, <1>3 DEF Live

\* A second: nothing but the age changes, and no lock comes back to life.
LEMMA AgedEntry ==
  ASSUME NEW e, Consistent(e)
  PROVE  /\ Consistent(Aged(e))
         /\ Live(Aged(e)) => Live(e)
         /\ Aged(e).status = e.status /\ Aged(e).owner = e.owner
         /\ Aged(e).exited = e.exited /\ Aged(e).offered = e.offered
BY RegistryAssumption DEF Consistent, Entries, Aged, Live

-----------------------------------------------------------------------------
(***************************************************************************)
(* The invariant is inductive.                                             *)
(***************************************************************************)
\* Every entry of the registry is consistent by itself.
LEMMA ConsistentEntries ==
  ASSUME ConvoyInv, NEW c \in Convoys
  PROVE  Consistent(entry[c])
BY DEF ConvoyInv, PhaseTypeOK, FlagsBelongToAClaim, Consistent

\* At mission start nothing is claimed and nobody tracks.
LEMMA ConvoyInitial == PhaseInit => ConvoyInv
<1> SUFFICES ASSUME PhaseInit PROVE ConvoyInv
  OBVIOUS
<1>1. \A c \in Convoys : entry[c] = Clean("unclaimed", NoDrone)
  BY DEF PhaseInit, RegistryInit
<1>2. Clean("unclaimed", NoDrone) \in Entries
  BY RegistryAssumption DEF Clean, Entries
<1>3. PhaseTypeOK
  <2>1. entry \in [Convoys -> Entries]
    BY <1>2 DEF PhaseInit, RegistryInit
  <2>2. 0 \in 0..(ConfirmHits - 1)
    BY ConfirmAssumption
  <2> QED
    BY <2>1, <2>2 DEF PhaseInit, PhaseTypeOK
<1>4. TrackerHasTarget /\ FlagAgrees
  BY DEF PhaseInit, TrackerHasTarget, FlagAgrees
<1>5. FlagsBelongToAClaim /\ OwnerIsTracking
  BY <1>1, RegistryAssumption DEF FlagsBelongToAClaim, OwnerIsTracking, Clean,
     Live, LiveOwner
<1> QED
  BY <1>3, <1>4, <1>5 DEF ConvoyInv

\* A step of one drone d changes at most the entry of one convoy c and what d
\* knows, and never makes another drone the owner: the invariant is about
\* this entry and this drone.
LEMMA OneDroneStep ==
  ASSUME ConvoyInv, PhaseTypeOK', NEW d \in Drones, NEW c \in Convoys,
         Consistent(entry'[c]),
         \A x \in Convoys \ {c} : entry'[x] = entry[x],
         \A b \in Drones \ {d} :
           /\ phase'[b] = phase[b] /\ target'[b] = target[b]
           /\ b \in flagged' <=> b \in flagged,
         entry'[c] = entry[c] \/ LiveOwner(entry'[c]) \in {d, NoDrone},
         \A x \in Convoys : LiveOwner(entry'[x]) = d =>
           phase'[d] \in {"track", "dead"} /\ target'[d] = x,
         phase'[d] = "track" => target'[d] \in Convoys,
         (phase'[d] = "track" /\ LiveOwner(entry'[target'[d]]) = d) =>
           (entry'[target'[d]].exited <=> d \in flagged')
  PROVE  ConvoyInv'
<1>1. TrackerHasTarget'
  BY DEF ConvoyInv, TrackerHasTarget
<1>2. FlagsBelongToAClaim'
  <2> SUFFICES ASSUME NEW x \in Convoys PROVE Consistent(entry'[x])
    BY DEF FlagsBelongToAClaim, Consistent
  <2> QED
    BY ConsistentEntries
<1>3. OwnerIsTracking'
  <2> SUFFICES ASSUME NEW b \in Drones, NEW x \in Convoys,
                      LiveOwner(entry'[x]) = b
               PROVE  phase'[b] \in {"track", "dead"} /\ target'[b] = x
    BY DEF OwnerIsTracking, LiveOwner, Live
  <2>1. b # d => entry'[x] = entry[x]
    BY RegistryAssumption
  <2> QED
    BY <2>1 DEF ConvoyInv, OwnerIsTracking
<1>4. FlagAgrees'
  <2> SUFFICES ASSUME NEW b \in Drones, phase'[b] = "track",
                      LiveOwner(entry'[target'[b]]) = b
               PROVE  entry'[target'[b]].exited <=> b \in flagged'
    BY DEF FlagAgrees, LiveOwner, Live
  <2>1. CASE b = d
    BY <2>1
  <2>2. CASE b # d
    <3>1. target'[b] \in Convoys /\ target'[b] = target[b]
      BY <2>2 DEF ConvoyInv, TrackerHasTarget
    <3>2. entry'[target'[b]] = entry[target'[b]]
      BY <2>2, <3>1, RegistryAssumption
    <3> QED
      BY <2>2, <3>1, <3>2 DEF ConvoyInv, FlagAgrees
  <2> QED
    BY <2>1, <2>2
<1> QED
  BY <1>1, <1>2, <1>3, <1>4 DEF ConvoyInv

\* What one read of a track step does, e being the entry it starts from: the
\* last read services the convoy, an earlier one leaves it to d, and perhaps
\* withdraws its offer.
LEMMA ReadStep ==
  ASSUME ConvoyInv, NEW d \in Drones, NEW c \in Convoys, NEW e,
         Consistent(e), Live(e), e.owner = d,
         NEW n \in 1..ConfirmHits, NEW out \in SUBSET Drones,
         e.exited <=> d \in out, out \ {d} = flagged \ {d},
         \A x \in Convoys \ {c} : LiveOwner(entry[x]) # d,
         Read(d, c, e, n, out), UNCHANGED <<zone, stop>>
  PROVE  /\ ConvoyInv'
         /\ \E f \in Entries :
              /\ entry' = [entry EXCEPT ![c] = f]
              /\ \/ f.status = "serviced"
                 \/ Live(f) /\ f.owner = d /\ f.offered \in {e.offered, NoDrone}
<1>1. entry \in [Convoys -> Entries] /\ zone[c] \in Drones \union {NoDrone}
  BY DEF ConvoyInv, PhaseTypeOK
<1>2. CASE n >= ConfirmHits
  <2> DEFINE f == Released(e, d, TRUE)
  <2>1. Consistent(f) /\ ~Live(f) /\ f.status = "serviced"
    BY ReleasedEntry
  <2> HIDE DEF f
  <2>2. entry' = [entry EXCEPT ![c] = f] /\ DropTarget(d)
    BY <1>2 DEF Read, f
  <2>3. f \in Entries /\ entry'[c] = f
    BY <1>1, <2>1, <2>2 DEF Consistent
  <2>4. PhaseTypeOK'
    BY <1>1, <2>2, <2>3, ConfirmAssumption DEF ConvoyInv, PhaseTypeOK, DropTarget
  <2>5. phase'[d] = "acquire"
    BY <2>2 DEF ConvoyInv, PhaseTypeOK, DropTarget
  <2>6. \A x \in Convoys : LiveOwner(entry'[x]) # d
    BY <1>1, <2>1, <2>2, RegistryAssumption DEF LiveOwner
  <2>7. ConvoyInv'
    BY <1>1, <2>1, <2>2, <2>3, <2>4, <2>5, <2>6, OneDroneStep
       DEF ConvoyInv, PhaseTypeOK, DropTarget, LiveOwner
  <2> QED
    BY <2>1, <2>2, <2>3, <2>7
<1>3. CASE n < ConfirmHits
  <2>1. PICK known \in BOOLEAN :
          /\ entry' = [entry EXCEPT ![c] =
                         IF known THEN SoftZoned(e, d, c, out) ELSE e]
          /\ flagged' = IF ~known THEN out
                        ELSE IF zone[c] # d THEN out \union {d} ELSE out \ {d}
          /\ phase' = [phase EXCEPT ![d] = "track"]
          /\ target' = [target EXCEPT ![d] = c]
          /\ reads' = [reads EXCEPT ![d] = n]
    <3>1. ~(n >= ConfirmHits)
      BY <1>3, ConfirmAssumption
    <3> QED
      BY <3>1 DEF Read
  <2> DEFINE f == IF known THEN SoftZoned(e, d, c, out) ELSE e
  <2>2. /\ Consistent(f) /\ Live(f) /\ f.owner = d
        /\ f.offered \in {e.offered, NoDrone}
        /\ f.exited <=> (IF known THEN zone[c] # d ELSE d \in out)
    BY <1>1, SoftZonedEntry
  <2>3. entry' = [entry EXCEPT ![c] = f]
    BY <2>1
  <2> HIDE DEF f
  <2>4. f \in Entries /\ entry'[c] = f
    BY <1>1, <2>2, <2>3 DEF Consistent
  <2>5. n \in 0..(ConfirmHits - 1)
    BY <1>3, ConfirmAssumption
  <2>6. PhaseTypeOK'
    BY <1>1, <2>1, <2>3, <2>4, <2>5 DEF ConvoyInv, PhaseTypeOK
  <2>7. /\ phase'[d] = "track" /\ target'[d] = c
        /\ d \in flagged' <=> f.exited
        /\ \A b \in Drones \ {d} :
             /\ phase'[b] = phase[b] /\ target'[b] = target[b]
             /\ b \in flagged' <=> b \in flagged
    BY <2>1, <2>2 DEF ConvoyInv, PhaseTypeOK
  <2>8. \A x \in Convoys \ {c} : entry'[x] = entry[x]
    BY <1>1, <2>3
  <2>9. LiveOwner(entry'[c]) = d
    BY <2>2, <2>4 DEF LiveOwner
  <2>10. ConvoyInv'
    BY <2>2, <2>4, <2>6, <2>7, <2>8, <2>9, OneDroneStep
  <2> QED
    BY <2>2, <2>3, <2>4, <2>10
<1> QED
  BY <1>2, <1>3, ConfirmAssumption

\* A claim starts from an entry no flag of which is left, and a drone that has
\* no other lock; it may be serviced by its first read.
LEMMA AcquireStep ==
  ASSUME ConvoyInv, NEW d \in Drones, NEW c \in Convoys, Acquire(d, c)
  PROVE  /\ ConvoyInv'
         /\ \E f \in Entries :
              /\ entry' = [entry EXCEPT ![c] = f]
              /\ \/ f.status = "serviced"
                 \/ Live(f) /\ f.owner = d /\ f.offered = NoDrone
<1> DEFINE e == Claimed(entry[c], d)
<1>1. \A x \in Convoys : LiveOwner(entry[x]) # d
  BY DEF Acquire, Stepped, ConvoyInv, OwnerIsTracking
<1>2. /\ Consistent(e) /\ Live(e) /\ e.owner = d /\ e.offered = NoDrone
      /\ ~e.exited
  BY <1>1, ConsistentEntries, ClaimedEntry
<1> HIDE DEF e
<1>3. entry \in [Convoys -> Entries]
  BY DEF ConvoyInv, PhaseTypeOK
<1>4. CASE Read(d, c, e, 1, flagged \ {d})
  <2>1. 1 \in 1..ConfirmHits
    BY ConfirmAssumption
  <2>2. /\ flagged \ {d} \in SUBSET Drones
        /\ e.exited <=> d \in flagged \ {d}
        /\ (flagged \ {d}) \ {d} = flagged \ {d}
    BY <1>2 DEF ConvoyInv, PhaseTypeOK
  <2>3. UNCHANGED <<zone, stop>>
    BY DEF Acquire
  <2> QED
    BY <1>1, <1>2, <1>4, <2>1, <2>2, <2>3, ReadStep
<1>5. CASE /\ entry' = [entry EXCEPT ![c] = e]
           /\ phase' = [phase EXCEPT ![d] = "track"]
           /\ target' = [target EXCEPT ![d] = c]
           /\ flagged' = flagged \ {d} /\ reads' = [reads EXCEPT ![d] = 0]
  <2>1. e \in Entries /\ entry'[c] = e
    BY <1>2, <1>3, <1>5 DEF Consistent
  <2>2. 0 \in 0..(ConfirmHits - 1)
    BY ConfirmAssumption
  <2>3. PhaseTypeOK'
    BY <1>3, <1>5, <2>1, <2>2 DEF ConvoyInv, PhaseTypeOK, Acquire
  <2>4. LiveOwner(entry'[c]) = d
    BY <1>2, <2>1 DEF LiveOwner
  <2>5. /\ phase'[d] = "track" /\ target'[d] = c /\ d \notin flagged'
        /\ \A b \in Drones \ {d} :
             /\ phase'[b] = phase[b] /\ target'[b] = target[b]
             /\ b \in flagged' <=> b \in flagged
        /\ \A x \in Convoys \ {c} : entry'[x] = entry[x]
    BY <1>3, <1>5 DEF ConvoyInv, PhaseTypeOK
  <2>6. ConvoyInv'
    BY <1>1, <1>2, <2>1, <2>3, <2>4, <2>5, OneDroneStep
  <2> QED
    BY <1>2, <1>5, <2>1, <2>6
<1> QED
  BY <1>4, <1>5 DEF Acquire, e

\* A read of a tracked convoy keeps the lock or services the convoy.
LEMMA TrackFreshStep ==
  ASSUME ConvoyInv, NEW d \in Drones, TrackFresh(d)
  PROVE  /\ ConvoyInv'
         /\ \E f \in Entries :
              /\ entry' = [entry EXCEPT ![target[d]] = f]
              /\ \/ f.status = "serviced"
                 \/ /\ Live(f) /\ f.owner = d
                    /\ f.offered \in {entry[target[d]].offered, NoDrone}
<1> DEFINE e == Renewed(entry[target[d]])
<1>1. /\ target[d] \in Convoys
      /\ Live(entry[target[d]]) /\ entry[target[d]].owner = d
  BY DEF TrackFresh, Stepped, MayRenew, ConvoyInv, TrackerHasTarget
<1>2. /\ Consistent(e) /\ Live(e) /\ e.owner = d
      /\ e.offered = entry[target[d]].offered
      /\ e.exited = entry[target[d]].exited
  BY <1>1, ConsistentEntries, RenewedEntry
<1> HIDE DEF e
<1>3. e.exited <=> d \in flagged
  BY <1>1, <1>2 DEF TrackFresh, Stepped, ConvoyInv, FlagAgrees, LiveOwner
<1>4. \A x \in Convoys \ {target[d]} : LiveOwner(entry[x]) # d
  BY DEF ConvoyInv, OwnerIsTracking
<1>5. reads[d] + 1 \in 1..ConfirmHits
  BY ConfirmAssumption DEF ConvoyInv, PhaseTypeOK
<1>6. /\ Read(d, target[d], e, reads[d] + 1, flagged)
      /\ UNCHANGED <<zone, stop>> /\ flagged \in SUBSET Drones
  BY DEF TrackFresh, ConvoyInv, PhaseTypeOK, e
<1>7. /\ ConvoyInv'
      /\ \E f \in Entries :
           /\ entry' = [entry EXCEPT ![target[d]] = f]
           /\ \/ f.status = "serviced"
              \/ Live(f) /\ f.owner = d /\ f.offered \in {e.offered, NoDrone}
  BY <1>1, <1>2, <1>3, <1>4, <1>5, <1>6, ReadStep
<1> QED
  BY <1>2, <1>7

\* Giving the lock up, or letting the convoy be serviced, ends the claim that
\* is ours; a lock that another drone has is left alone.
LEMMA ReleaseStep ==
  ASSUME ConvoyInv, NEW d \in Drones, TrackTimesOut(d) \/ TrackDone(d)
  PROVE  ConvoyInv'
<1>1. PICK s \in BOOLEAN : entry' = [entry EXCEPT ![target[d]] =
                                        Released(entry[target[d]], d, s)]
  BY DEF TrackTimesOut, TrackDone
<1> DEFINE c == target[d]
           f == Released(entry[c], d, s)
<1>2. c \in Convoys
  BY DEF TrackTimesOut, TrackDone, Stepped, ConvoyInv, TrackerHasTarget
<1>3. /\ Consistent(f)
      /\ entry[c].owner # d => f = entry[c]
      /\ entry[c].owner = d => ~Live(f)
  BY <1>2, ConsistentEntries, ReleasedEntry
<1>4. entry' = [entry EXCEPT ![c] = f]
  BY <1>1
<1> HIDE DEF f
<1>5. /\ entry'[c] = f /\ f \in Entries
      /\ \A x \in Convoys \ {c} : entry'[x] = entry[x]
  BY <1>2, <1>3, <1>4 DEF ConvoyInv, PhaseTypeOK, Consistent
<1>6. PhaseTypeOK'
  BY <1>2, <1>4, <1>5, ConfirmAssumption
     DEF ConvoyInv, PhaseTypeOK, TrackTimesOut, TrackDone, DropTarget
<1>7. \A x \in Convoys : LiveOwner(entry'[x]) # d
  BY <1>2, <1>3, <1>5, RegistryAssumption
     DEF ConvoyInv, OwnerIsTracking, LiveOwner
<1>8. phase'[d] # "track"
  BY DEF TrackTimesOut, TrackDone, DropTarget, ConvoyInv, PhaseTypeOK
<1>9. \A b \in Drones \ {d} :
        /\ phase'[b] = phase[b] /\ target'[b] = target[b]
        /\ b \in flagged' <=> b \in flagged
  BY DEF TrackTimesOut, TrackDone, DropTarget, ConvoyInv, PhaseTypeOK
<1>10. f = entry[c] \/ LiveOwner(f) \in {d, NoDrone}
  BY <1>3 DEF LiveOwner
<1> QED
  BY <1>2, <1>3, <1>5, <1>6, <1>7, <1>8, <1>9, <1>10, OneDroneStep

\* The other steps of a drone write nothing to the registry.
LEMMA QuietStep ==
  ASSUME ConvoyInv, NEW d \in Drones, GiveUp(d) \/ TrackLostLock(d) \/ Dies(d)
  PROVE  ConvoyInv'
<1>1. \A x \in Convoys : entry'[x] = entry[x]
  BY DEF GiveUp, TrackLostLock, Dies
<1>2. PhaseTypeOK'
  BY ConfirmAssumption
     DEF ConvoyInv, PhaseTypeOK, GiveUp, TrackLostLock, DropTarget, Dies
<1>3. \A x \in Convoys : LiveOwner(entry[x]) = d =>
        phase'[d] = "dead" /\ target'[d] = x
  <2> SUFFICES ASSUME NEW x \in Convoys, LiveOwner(entry[x]) = d
               PROVE  phase'[d] = "dead" /\ target'[d] = x
    OBVIOUS
  <2>1. phase[d] \in {"track", "dead"} /\ target[d] = x
    BY DEF ConvoyInv, OwnerIsTracking
  <2>2. entry[x].owner = d /\ Live(entry[x])
    BY RegistryAssumption DEF LiveOwner
  <2>3. Dies(d)
    BY <2>1, <2>2 DEF GiveUp, TrackLostLock, Stepped, MayRenew
  <2> QED
    BY <2>1, <2>3 DEF Dies, ConvoyInv, PhaseTypeOK
<1>4. /\ phase'[d] # "track"
      /\ \A b \in Drones \ {d} :
           /\ phase'[b] = phase[b] /\ target'[b] = target[b]
           /\ b \in flagged' <=> b \in flagged
  BY DEF GiveUp, TrackLostLock, DropTarget, Dies, ConvoyInv, PhaseTypeOK
<1>5. CASE Convoys = {}
  <2>1. \A b \in Drones : phase'[b] # "track"
    BY <1>4, <1>5 DEF ConvoyInv, TrackerHasTarget
  <2> QED
    BY <1>2, <1>5, <2>1 DEF ConvoyInv, TrackerHasTarget, FlagsBelongToAClaim,
       OwnerIsTracking, FlagAgrees
<1>6. CASE Convoys # {}
  <2>1. PICK c \in Convoys : TRUE
    BY <1>6
  <2> QED
    BY <1>1, <1>2, <1>3, <1>4, <2>1, ConsistentEntries, OneDroneStep
<1> QED
  BY <1>5, <1>6

\* The beat, the clock and the convoys' own movement change no drone's mind,
\* and no lock gets another owner or comes back to life.
LEMMA WorldStep ==
  ASSUME ConvoyInv, Beat \/ TimePasses \/ \E c \in Convoys : Drives(c)
  PROVE  ConvoyInv'
<1>1. UNCHANGED phaseVars
  BY DEF Beat, TimePasses, Drives
<1>2. Idle \in SUBSET Drones
  BY DEF Idle
<1>3. \A c \in Convoys :
        /\ Consistent(entry'[c])
        /\ Live(entry'[c]) => Live(entry[c])
        /\ Live(entry'[c]) => /\ entry'[c].owner = entry[c].owner
                             /\ entry'[c].exited = entry[c].exited
  <2> SUFFICES ASSUME NEW c \in Convoys
               PROVE  /\ Consistent(entry'[c])
                      /\ Live(entry'[c]) => Live(entry[c])
                      /\ Live(entry'[c]) =>
                           /\ entry'[c].owner = entry[c].owner
                           /\ entry'[c].exited = entry[c].exited
    OBVIOUS
  <2>1. Consistent(entry[c])
    BY ConsistentEntries
  <2>2. CASE Beat
    <3>1. entry'[c] = Matched(Expired(entry[c]), Idle)
      BY <2>2 DEF Beat
    <3> QED
      BY <1>2, <2>1, <3>1, BeatEntry
  <2>3. CASE TimePasses
    <3>1. entry'[c] = Aged(entry[c])
      BY <2>3 DEF TimePasses
    <3> QED
      BY <2>1, <3>1, AgedEntry
  <2>4. CASE \E x \in Convoys : Drives(x)
    BY <2>1, <2>4 DEF Drives
  <2> QED
    BY <2>2, <2>3, <2>4
<1>4. PhaseTypeOK'
  <2>1. entry' \in [Convoys -> Entries]
    <3>1. \A c \in Convoys : entry'[c] \in Entries
      BY <1>3 DEF Consistent
    <3>2. entry' = [c \in Convoys |-> entry'[c]]
      BY DEF Beat, TimePasses, Drives, ConvoyInv, PhaseTypeOK
    <3> QED
      BY <3>1, <3>2
  <2>2. zone' \in [Convoys -> Drones \union {NoDrone}]
    BY DEF Beat, TimePasses, Drives, ConvoyInv, PhaseTypeOK
  <2>3. stop' \in BOOLEAN
    BY DEF Beat, TimePasses, Drives, ConvoyInv, PhaseTypeOK, AllServiced
  <2> QED
    BY <1>1, <2>1, <2>2, <2>3 DEF ConvoyInv, PhaseTypeOK, phaseVars
<1>5. TrackerHasTarget'
  BY <1>1 DEF ConvoyInv, TrackerHasTarget, phaseVars
<1>6. FlagsBelongToAClaim'
  BY <1>3 DEF FlagsBelongToAClaim, Consistent
<1>7. \A d \in Drones, c \in Convoys : LiveOwner(entry'[c]) = d =>
        LiveOwner(entry[c]) = d /\ entry'[c].exited = entry[c].exited
  BY <1>3, RegistryAssumption DEF LiveOwner
<1>8. OwnerIsTracking'
  <2> SUFFICES ASSUME NEW d \in Drones, NEW c \in Convoys,
                      LiveOwner(entry'[c]) = d
               PROVE  phase'[d] \in {"track", "dead"} /\ target'[d] = c
    BY DEF OwnerIsTracking, LiveOwner, Live
  <2> QED
    BY <1>1, <1>7 DEF ConvoyInv, OwnerIsTracking, phaseVars
<1>9. FlagAgrees'
  <2> SUFFICES ASSUME NEW d \in Drones, phase'[d] = "track",
                      LiveOwner(entry'[target'[d]]) = d
               PROVE  entry'[target'[d]].exited <=> d \in flagged'
    BY DEF FlagAgrees, LiveOwner, Live
  <2>1. target'[d] = target[d] /\ target[d] \in Convoys /\ phase[d] = "track"
    BY <1>1 DEF ConvoyInv, TrackerHasTarget, phaseVars
  <2> QED
    BY <1>1, <1>7, <2>1 DEF ConvoyInv, FlagAgrees, phaseVars
<1> QED
  BY <1>4, <1>5, <1>6, <1>8, <1>9 DEF ConvoyInv

\* Every step of the mission keeps the invariant.
LEMMA ConvoyInductive == ConvoyInv /\ [Next]_convoyVars => ConvoyInv'
<1> SUFFICES ASSUME ConvoyInv, [Next]_convoyVars PROVE ConvoyInv'
  OBVIOUS
<1>1. CASE Next
  <2>1. CASE \E d \in Drones : Step(d)
    BY <2>1, AcquireStep, TrackFreshStep, ReleaseStep, QuietStep DEF Step
  <2>2. CASE Beat \/ TimePasses \/ \E c \in Convoys : Drives(c)
    BY <2>2, WorldStep
  <2> QED
    BY <1>1, <2>1, <2>2 DEF Next
<1>2. CASE UNCHANGED convoyVars
  BY <1>2 DEF convoyVars, phaseVars, ConvoyInv, PhaseTypeOK, TrackerHasTarget,
     FlagsBelongToAClaim, OwnerIsTracking, FlagAgrees, LiveOwner, Live
<1> QED
  BY <1>1, <1>2

-----------------------------------------------------------------------------
(***************************************************************************)
(* Steps of the mission as steps of ConvoyOwnership.                       *)
(***************************************************************************)
\* The refinement mapping gives ConvoyOwnership values of its own types.
LEMMA HolderType ==
  ASSUME ConvoyInv
  PROVE  /\ Holder \in [Convoys -> Drones \union {NoDrone, Serviced}]
         /\ OfferedTo \in [Convoys -> Drones \union {NoDrone}]
  <1>1. \A c \in Convoys : entry[c] \in Entries
    BY DEF ConvoyInv, PhaseTypeOK
  <1> QED
    BY <1>1 DEF Entries, Holder, HolderIn, OfferedTo, OfferedIn, LiveOwner

\* One changed entry is one changed point of the two functions.
LEMMA HolderPoint ==
  ASSUME ConvoyInv, NEW c \in Convoys, NEW f, entry' = [entry EXCEPT ![c] = f]
  PROVE  /\ Holder' = [Holder EXCEPT ![c] = HolderIn(f)]
         /\ OfferedTo' = [OfferedTo EXCEPT ![c] = OfferedIn(f)]
  <1>1. \A x \in Convoys : entry'[x] = IF x = c THEN f ELSE entry[x]
    BY DEF ConvoyInv, PhaseTypeOK
  <1>2. \A x \in Convoys : HolderIn(entry'[x]) = IF x = c THEN HolderIn(f)
                                                ELSE HolderIn(entry[x])
    BY <1>1
  <1>3. \A x \in Convoys : OfferedIn(entry'[x]) = IF x = c THEN OfferedIn(f)
                                                 ELSE OfferedIn(entry[x])
    BY <1>1
  <1> QED
    BY <1>2, <1>3 DEF Holder, OfferedTo, HolderIn, OfferedIn, LiveOwner, Live

\* Servicing an entry that was not serviced, or leaving it as it was held.
LEMMA ServiceRefines ==
  ASSUME ConvoyInv, NEW c \in Convoys, NEW f, entry' = [entry EXCEPT ![c] = f],
         f.status = "serviced", entry[c].status # "serviced"
  PROVE  Ownership!Service(c)
<1>1. HolderIn(f) = Serviced /\ OfferedIn(f) = NoDrone
  BY DEF HolderIn, OfferedIn, Live
<1>2. Holder[c] # Serviced
  <2>1. LiveOwner(entry[c]) \in Drones \union {NoDrone}
    BY DEF ConvoyInv, PhaseTypeOK, Entries, LiveOwner
  <2> QED
    BY <2>1, ServicedAssumption DEF Holder, HolderIn
<1> QED
  BY <1>1, <1>2, HolderPoint DEF Ownership!Service

\* A claim takes a free convoy or accepts an offer; with a single confirming
\* read it may service the convoy at once.
LEMMA AcquireRefines ==
  ASSUME ConvoyInv, NEW d \in Drones, NEW c \in Convoys, Acquire(d, c)
  PROVE  Ownership!Next
<1>1. PICK f \in Entries :
        /\ entry' = [entry EXCEPT ![c] = f]
        /\ \/ f.status = "serviced"
           \/ Live(f) /\ f.owner = d /\ f.offered = NoDrone
  BY AcquireStep
<1>2. /\ entry[c].status # "serviced"
      /\ Live(entry[c]) => d \in {entry[c].owner, entry[c].offered}
  BY DEF Acquire, Claimable
<1>3. \A x \in Convoys : LiveOwner(entry[x]) # d
  BY DEF Acquire, Stepped, ConvoyInv, OwnerIsTracking
<1>4. CASE f.status = "serviced"
  BY <1>1, <1>2, <1>4, ServiceRefines DEF Ownership!Next
<1>5. CASE Live(f) /\ f.owner = d /\ f.offered = NoDrone
  <2>1. /\ Holder' = [Holder EXCEPT ![c] = d]
        /\ OfferedTo' = [OfferedTo EXCEPT ![c] = NoDrone]
    <3>1. HolderIn(f) = d /\ OfferedIn(f) = NoDrone
      BY <1>5 DEF HolderIn, OfferedIn, LiveOwner, Live
    <3> QED
      BY <1>1, <3>1, HolderPoint
  <2>2. Ownership!Free(d)
    BY <1>3, ServicedAssumption DEF Ownership!Free, Holder, HolderIn
  <2>3. CASE Live(entry[c])
    <3>1. OfferedTo[c] = d
      BY <1>2, <1>3, <2>3 DEF OfferedTo, OfferedIn, LiveOwner
    <3> QED
      BY <2>1, <2>2, <3>1 DEF Ownership!Next, Ownership!HandOver
  <2>4. CASE ~Live(entry[c])
    <3>1. Holder[c] = NoDrone /\ OfferedTo[c] = NoDrone
      BY <1>2, <2>4 DEF Holder, HolderIn, OfferedTo, OfferedIn, LiveOwner
    <3>2. UNCHANGED OfferedTo
      BY <2>1, <3>1, HolderType
    <3> QED
      BY <2>1, <2>2, <3>1, <3>2 DEF Ownership!Next, Ownership!Take
  <2> QED
    BY <2>3, <2>4
<1> QED
  BY <1>1, <1>4, <1>5

\* A read changes nothing, withdraws an offer or services the convoy.
LEMMA TrackFreshRefines ==
  ASSUME ConvoyInv, NEW d \in Drones, TrackFresh(d)
  PROVE  Ownership!Next \/ UNCHANGED <<Holder, OfferedTo>>
<1> DEFINE c == target[d]
<1>1. PICK f \in Entries :
        /\ entry' = [entry EXCEPT ![c] = f]
        /\ \/ f.status = "serviced"
           \/ Live(f) /\ f.owner = d /\ f.offered \in {entry[c].offered, NoDrone}
  BY TrackFreshStep
<1>2. c \in Convoys /\ Live(entry[c]) /\ entry[c].owner = d
  BY DEF TrackFresh, Stepped, MayRenew, ConvoyInv, TrackerHasTarget
<1> HIDE DEF c
<1>3. CASE f.status = "serviced"
  BY <1>1, <1>2, <1>3, ServiceRefines DEF Ownership!Next, Live
<1>4. CASE Live(f) /\ f.owner = d /\ f.offered \in {entry[c].offered, NoDrone}
  <2>1. HolderIn(f) = Holder[c] /\ OfferedIn(f) \in {OfferedTo[c], NoDrone}
    BY <1>2, <1>4 DEF Holder, HolderIn, OfferedTo, OfferedIn, LiveOwner, Live
  <2>2. /\ Holder' = [Holder EXCEPT ![c] = HolderIn(f)]
        /\ OfferedTo' = [OfferedTo EXCEPT ![c] = OfferedIn(f)]
    BY <1>1, <1>2, HolderPoint
  <2>3. UNCHANGED Holder
    BY <1>2, <2>1, <2>2, HolderType
  <2>4. \/ UNCHANGED OfferedTo
        \/ OfferedTo' = [OfferedTo EXCEPT ![c] = NoDrone]
    BY <1>2, <2>1, <2>2, HolderType
  <2> QED
    BY <1>2, <2>3, <2>4 DEF Ownership!Next, Ownership!Withdraw
<1> QED
  BY <1>1, <1>3, <1>4

\* A release loses or services the convoy; one that comes too late is a stutter.
LEMMA ReleaseRefines ==
  ASSUME ConvoyInv, NEW d \in Drones, TrackTimesOut(d) \/ TrackDone(d)
  PROVE  Ownership!Next \/ UNCHANGED <<Holder, OfferedTo>>
<1> DEFINE c == target[d]
<1>1. c \in Convoys
  BY DEF TrackTimesOut, TrackDone, Stepped, ConvoyInv, TrackerHasTarget
<1>2. PICK s \in BOOLEAN :
        entry' = [entry EXCEPT ![c] = Released(entry[c], d, s)]
  BY DEF TrackTimesOut, TrackDone
<1> HIDE DEF c
<1> DEFINE f == Released(entry[c], d, s)
<1>3. /\ Holder' = [Holder EXCEPT ![c] = HolderIn(f)]
      /\ OfferedTo' = [OfferedTo EXCEPT ![c] = OfferedIn(f)]
  BY <1>1, <1>2, HolderPoint
<1>4. /\ entry[c].owner # d => f = entry[c]
      /\ entry[c].owner = d => ~Live(f) /\ f.status \in {"serviced", "unclaimed"}
  BY <1>1, ConsistentEntries, ReleasedEntry
<1> HIDE DEF f
<1>5. CASE entry[c].owner # d
  <2>1. HolderIn(f) = Holder[c] /\ OfferedIn(f) = OfferedTo[c]
    BY <1>1, <1>4, <1>5 DEF Holder, OfferedTo
  <2> QED
    BY <1>1, <1>3, <2>1, HolderType
<1>6. CASE entry[c].owner = d /\ f.status = "serviced"
  <2>1. entry[c].status = "claimed"
    BY <1>1, <1>6, RegistryAssumption, ConsistentEntries DEF Consistent
  <2>2. entry' = [entry EXCEPT ![c] = f]
    BY <1>2 DEF f
  <2> QED
    BY <1>1, <1>6, <2>1, <2>2, ServiceRefines DEF Ownership!Next
<1>7. CASE entry[c].owner = d /\ f.status = "unclaimed"
  <2>1. HolderIn(f) = NoDrone /\ OfferedIn(f) = NoDrone
    BY <1>7 DEF HolderIn, OfferedIn, LiveOwner, Live
  <2>2. entry[c].status = "claimed"
    BY <1>1, <1>7, RegistryAssumption, ConsistentEntries DEF Consistent
  <2>3. CASE Live(entry[c])
    <3>1. Holder[c] \in Drones
      BY <1>1, <1>7, <2>2, <2>3 DEF Holder, HolderIn, LiveOwner
    <3>2. Holder' \in [Convoys -> Drones \union {NoDrone, Serviced}]
          /\ OfferedTo' \in [Convoys -> Drones \union {NoDrone}]
      BY <1>3, <2>1, HolderType
    <3>3. \A x \in Convoys :
            \/ Holder'[x] = Holder[x] /\ OfferedTo'[x] = OfferedTo[x]
            \/ /\ Holder[x] \in Drones
               /\ Holder'[x] = NoDrone /\ OfferedTo'[x] = NoDrone
      BY <1>3, <2>1, <3>1, HolderType
    <3> QED
      BY <3>2, <3>3 DEF Ownership!Next, Ownership!Lose
  <2>4. CASE ~Live(entry[c])
    <3>1. Holder[c] = NoDrone /\ OfferedTo[c] = NoDrone
      BY <1>1, <2>2, <2>4 DEF Holder, HolderIn, OfferedTo, OfferedIn, LiveOwner
    <3> QED
      BY <1>1, <1>3, <2>1, <3>1, HolderType
  <2> QED
    BY <2>3, <2>4
<1> QED
  BY <1>4, <1>5, <1>6, <1>7

\* The beat only offers: what it expires had lapsed before.
LEMMA BeatRefines ==
  ASSUME ConvoyInv, Beat
  PROVE  Ownership!Next
<1>1. Idle \in SUBSET Drones
  BY DEF Idle
<1>2. \A c \in Convoys :
        /\ Live(entry'[c]) <=> Live(entry[c])
        /\ entry'[c].status = "serviced" <=> entry[c].status = "serviced"
        /\ Live(entry[c]) => entry'[c].owner = entry[c].owner
        /\ Live(entry[c]) /\ entry'[c].offered # entry[c].offered =>
             entry'[c].offered \in Idle
  <2> SUFFICES ASSUME NEW c \in Convoys
               PROVE  /\ Live(entry'[c]) <=> Live(entry[c])
                      /\ entry'[c].status = "serviced" <=> entry[c].status = "serviced"
                      /\ Live(entry[c]) => entry'[c].owner = entry[c].owner
                      /\ Live(entry[c]) /\ entry'[c].offered # entry[c].offered =>
                           entry'[c].offered \in Idle
    OBVIOUS
  <2>1. entry'[c] = Matched(Expired(entry[c]), Idle)
    BY DEF Beat
  <2> QED
    BY <1>1, <2>1, ConsistentEntries, BeatEntry
<1>3. UNCHANGED Holder
  <2>1. \A c \in Convoys : HolderIn(entry'[c]) = HolderIn(entry[c])
    BY <1>2 DEF HolderIn, LiveOwner
  <2> QED
    BY <2>1 DEF Holder, HolderIn, LiveOwner, Live
<1>4. \A c \in Convoys : OfferedTo'[c] # OfferedTo[c] =>
        Holder[c] \in Drones /\ OfferedTo'[c] \in Idle
  <2> SUFFICES ASSUME NEW c \in Convoys, OfferedTo'[c] # OfferedTo[c]
               PROVE  Holder[c] \in Drones /\ OfferedTo'[c] \in Idle
    OBVIOUS
  <2>1. /\ OfferedTo'[c] = OfferedIn(entry'[c])
        /\ OfferedTo[c] = OfferedIn(entry[c])
    BY DEF OfferedTo, OfferedIn, Live
  <2>2. Live(entry[c]) /\ OfferedTo'[c] = entry'[c].offered
        /\ OfferedTo[c] = entry[c].offered
    BY <1>2, <2>1 DEF OfferedIn
  <2>3. Holder[c] = entry[c].owner
    BY <2>2 DEF Holder, HolderIn, LiveOwner, Live
  <2>4. entry[c].owner \in Drones
    BY <2>2, ConsistentEntries DEF Consistent, Entries, Live
  <2> QED
    BY <1>2, <2>2, <2>3, <2>4
<1>5. \A d \in Idle : Ownership!Free(d)
  BY ServicedAssumption DEF Idle, Ownership!Free, Holder, HolderIn
<1>6. OfferedTo' \in [Convoys -> Drones \union {NoDrone}]
  <2>1. \A c \in Convoys : OfferedTo'[c] \in Drones \union {NoDrone}
    BY <1>1, <1>4, HolderType
  <2>2. OfferedTo' = [c \in Convoys |-> OfferedTo'[c]]
    BY DEF OfferedTo
  <2> QED
    BY <2>1, <2>2
<1> QED
  BY <1>1, <1>3, <1>4, <1>5, <1>6 DEF Ownership!Next, Ownership!Offer

\* A second may end any number of locks.
LEMMA TimeRefines ==
  ASSUME ConvoyInv, TimePasses
  PROVE  Ownership!Next
<1>1. \A c \in Convoys :
        /\ Live(entry'[c]) => Live(entry[c])
        /\ entry'[c].status = entry[c].status /\ entry'[c].owner = entry[c].owner
        /\ entry'[c].offered = entry[c].offered
  <2> SUFFICES ASSUME NEW c \in Convoys
               PROVE  /\ Live(entry'[c]) => Live(entry[c])
                      /\ entry'[c].status = entry[c].status
                      /\ entry'[c].owner = entry[c].owner
                      /\ entry'[c].offered = entry[c].offered
    OBVIOUS
  <2>1. entry'[c] = Aged(entry[c])
    BY DEF TimePasses
  <2> QED
    BY <2>1, ConsistentEntries, AgedEntry
<1>2. \A c \in Convoys :
        /\ Holder'[c] = HolderIn(entry'[c]) /\ Holder[c] = HolderIn(entry[c])
        /\ OfferedTo'[c] = OfferedIn(entry'[c])
        /\ OfferedTo[c] = OfferedIn(entry[c])
  BY DEF Holder, OfferedTo, HolderIn, OfferedIn, LiveOwner, Live
<1>3. \A c \in Convoys :
        \/ Holder'[c] = Holder[c] /\ OfferedTo'[c] = OfferedTo[c]
        \/ Holder[c] \in Drones /\ Holder'[c] = NoDrone /\ OfferedTo'[c] = NoDrone
  <2> SUFFICES ASSUME NEW c \in Convoys
               PROVE  \/ Holder'[c] = Holder[c] /\ OfferedTo'[c] = OfferedTo[c]
                      \/ /\ Holder[c] \in Drones
                         /\ Holder'[c] = NoDrone /\ OfferedTo'[c] = NoDrone
    OBVIOUS
  <2>1. CASE Live(entry'[c]) <=> Live(entry[c])
    BY <1>1, <1>2, <2>1 DEF HolderIn, OfferedIn, LiveOwner
  <2>2. CASE Live(entry[c]) /\ ~Live(entry'[c])
    <3>1. entry[c].status = "claimed" /\ entry[c].owner \in Drones
      BY <2>2, ConsistentEntries DEF Consistent, Entries, Live
    <3> QED
      BY <1>1, <1>2, <2>2, <3>1 DEF HolderIn, OfferedIn, LiveOwner
  <2> QED
    BY <1>1, <2>1, <2>2
<1>4. /\ Holder' = [c \in Convoys |-> Holder'[c]]
      /\ OfferedTo' = [c \in Convoys |-> OfferedTo'[c]]
  BY DEF Holder, OfferedTo
<1>5. \A c \in Convoys : /\ Holder'[c] \in Drones \union {NoDrone, Serviced}
                        /\ OfferedTo'[c] \in Drones \union {NoDrone}
  BY <1>3, HolderType
<1>6. /\ Holder' \in [Convoys -> Drones \union {NoDrone, Serviced}]
      /\ OfferedTo' \in [Convoys -> Drones \union {NoDrone}]
  BY <1>4, <1>5
<1> QED
  BY <1>3, <1>6 DEF Ownership!Next, Ownership!Lose

\* Every step of the mission is a step of ConvoyOwnership or a stutter.
LEMMA ConvoyRefines ==
  ConvoyInv /\ [Next]_convoyVars => [Ownership!Next]_<<Holder, OfferedTo>>
<1> SUFFICES ASSUME ConvoyInv, [Next]_convoyVars
             PROVE  Ownership!Next \/ UNCHANGED <<Holder, OfferedTo>>
  OBVIOUS
<1>1. CASE UNCHANGED entry
  BY <1>1 DEF Holder, OfferedTo, HolderIn, OfferedIn, LiveOwner, Live
<1>2. CASE \E d \in Drones : Step(d)
  <2>1. PICK d \in Drones : Step(d)
    BY <1>2
  <2>2. CASE GiveUp(d) \/ TrackLostLock(d) \/ Dies(d)
    BY <1>1, <2>2 DEF GiveUp, TrackLostLock, Dies
  <2>3. CASE \E c \in Convoys : Acquire(d, c)
    BY <2>3, AcquireRefines
  <2>4. CASE TrackFresh(d)
    BY <2>4, TrackFreshRefines
  <2>5. CASE TrackTimesOut(d) \/ TrackDone(d)
    BY <2>5, ReleaseRefines
  <2> QED
    BY <2>1, <2>2, <2>3, <2>4, <2>5 DEF Step
<1>3. CASE Beat
  BY <1>3, BeatRefines
<1>4. CASE TimePasses
  BY <1>4, TimeRefines
<1> QED
  BY <1>1, <1>2, <1>3, <1>4 DEF Next, Drives, convoyVars

\* At mission start nobody holds anything.
LEMMA ConvoyRefinesInit == PhaseInit => Ownership!Init
<1> SUFFICES ASSUME PhaseInit PROVE Ownership!Init
  OBVIOUS
<1>1. \A c \in Convoys : entry[c] = Clean("unclaimed", NoDrone)
  BY DEF PhaseInit, RegistryInit
<1>2. \A c \in Convoys :
        HolderIn(entry[c]) = NoDrone /\ OfferedIn(entry[c]) = NoDrone
  BY <1>1 DEF Clean, HolderIn, OfferedIn, LiveOwner, Live
<1> QED
  BY <1>2 DEF Ownership!Init, Holder, OfferedTo

-----------------------------------------------------------------------------
(***************************************************************************)
(* The theorems.                                                           *)
(***************************************************************************)
\* What is known of every reachable state of a convoy mission, together.
THEOREM ConvoyInvariant == Spec => []ConvoyInv
BY ConvoyInitial, ConvoyInductive, PTL DEF Spec

\* Type correctness: among others, no drone ever counts more reads than it
\* needs, and no exit bearing or offer names anything but a drone.
THEOREM ConvoyTypeCorrect == Spec => []PhaseTypeOK
<1>1. ConvoyInv => PhaseTypeOK
  BY DEF ConvoyInv
<1> QED
  BY <1>1, ConvoyInvariant, PTL

\* No flag and no offer outlives the claim it was made under.
THEOREM ConvoyFlagsDieWithClaim == Spec => []FlagsBelongToAClaim
<1>1. ConvoyInv => FlagsBelongToAClaim
  BY DEF ConvoyInv
<1> QED
  BY <1>1, ConvoyInvariant, PTL

\* A live lock always has a drone behind it that tracks that convoy, or that
\* died doing so.
THEOREM ConvoyOwnerTracks == Spec => []OwnerIsTracking
<1>1. ConvoyInv => OwnerIsTracking
  BY DEF ConvoyInv
<1> QED
  BY <1>1, ConvoyInvariant, PTL

\* The phase's and the registry's memory of the exit edge never part.
THEOREM ConvoyFlagsAgree == Spec => []FlagAgrees
<1>1. ConvoyInv => FlagAgrees
  BY DEF ConvoyInv
<1> QED
  BY <1>1, ConvoyInvariant, PTL

\* Locks, heartbeats, lapses, flags, offers and late releases implement plain
\* ownership: one holder per convoy, one convoy per drone, hand-over only to
\* the drone it was offered to, serviced for good.
THEOREM ConvoyImplementsOwnership == Spec => ImplementsOwnership
BY ConvoyInvariant, ConvoyRefines, ConvoyRefinesInit, PTL
   DEF Spec, ImplementsOwnership, Ownership!Spec
=============================================================================
