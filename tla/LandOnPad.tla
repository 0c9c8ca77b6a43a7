------------------------------ MODULE LandOnPad ------------------------------
(***************************************************************************)
(* finals.mission.phases.land_on_pad.LandOnPad, the landing phase of every *)
(* drone, and the PadValidityMap they share.  The phase looks for a valid  *)
(* pad, centres over it, steps down while it stays centred, and lands when *)
(* it is low enough, or blindly when a deadline or a retry limit passes.   *)
(*                                                                         *)
(* step() has no await: one call, with all it reads from and writes to the *)
(* map, is one action.  The command it returns is then in flight, and the  *)
(* other drones step meanwhile.  What the camera shows and the altitude    *)
(* sensor says is free in every step, until the drone is down.             *)
(***************************************************************************)
EXTENDS PadValidity, Integers, Sequences, FiniteSets

CONSTANTS
  ValidIds,     \* ValidIds[d]: the valid_marker_ids of drone d
  ServoOn,      \* ServoOn[d]: "marker" or "pad" (the YOLO blob)
  NoPad,        \* no target
  Blob,         \* a pad the detector saw: it has no marker id
  Frames,       \* acquire_window_frames
  MinHits,      \* acquire_min_hits
  DescendHits,  \* descend_persist_frames
  CenterFrames, \* center_persist_frames
  MaxLosses     \* max_loss_retries

\* What the constructor enforces.
ASSUME LandingAssumption ==
  /\ ValidIds \in [Drones -> SUBSET Beacons]
  /\ ServoOn \in [Drones -> {"marker", "pad"}]
  /\ NoPad # Blob /\ NoPad \notin Beacons /\ Blob \notin Beacons
  /\ Frames \in Nat \ {0} /\ MinHits \in 1..Frames /\ DescendHits \in 1..Frames
  /\ CenterFrames \in Nat \ {0} /\ MaxLosses \in Nat \ {0}

VARIABLES
  sub,      \* sub[d]: the sub-state, or how the phase ended
  cmd,      \* cmd[d]: the command in flight; "level" for any that keeps height
  target,   \* target[d]: the locked pad
  recent,   \* recent[d]: was there a candidate, for the last frames
  streak,   \* streak[d]: centred frames in a row
  losses,   \* losses[d]: pads lost while descending
  timer,    \* timer[d]: the phase's clock against its two deadlines
  deck      \* deck[d]: is the drone down, and does the telemetry say so;
            \* "unseen": up, but the last reading is from before the takeoff

phaseVars == <<sub, cmd, target, recent, streak, losses, timer, deck>>
vars == <<padMap, phaseVars>>

Active == {"acquire", "center", "descend", "fallback"}

TypeOK ==
  /\ PadMapTypeOK
  /\ sub \in [Drones -> Active \union {"verified", "unverified", "gone"}]
  /\ cmd \in [Drones -> {"none", "level", "up", "down", "land"}]
  /\ target \in [Drones -> Beacons \union {NoPad, Blob}]
  /\ recent \in [Drones -> Seq(BOOLEAN)]
  /\ streak \in [Drones -> 0..(CenterFrames - 1)]
  /\ losses \in [Drones -> 0..(MaxLosses + 1)]
  /\ timer \in [Drones -> {"unset", "running", "late", "spent"}]
  /\ deck \in [Drones -> {"unseen", "airborne", "down", "reported"}]

Init ==
  /\ PadMapInit
  /\ sub = [d \in Drones |-> "acquire"] /\ cmd = [d \in Drones |-> "none"]
  /\ target = [d \in Drones |-> NoPad] /\ recent = [d \in Drones |-> <<>>]
  /\ streak = [d \in Drones |-> 0] /\ losses = [d \in Drones |-> 0]
  /\ timer = [d \in Drones |-> "unset"]
  /\ deck \in [Drones -> {"unseen", "airborne"}]

(***************************************************************************)
(* What every step starts with.                                            *)
(***************************************************************************)
Stepped(d) == sub[d] \in Active /\ cmd[d] = "none"

\* telemetry.is_flying is False: down, or not yet seen to be up.
ReadsGrounded(d) == deck[d] \in {"unseen", "reported"}

\* The phase's clock starts with its first step.
ClockStarts(d) ==
  timer' = [timer EXCEPT ![d] = IF @ = "unset" THEN "running" ELSE @]

\* Neither down, nor committed to a blind landing, nor out of budget.
Servoing(d) ==
  /\ Stepped(d) /\ ~ReadsGrounded(d)
  /\ sub[d] # "fallback" /\ timer[d] # "spent"

Command(d, c) == cmd' = [cmd EXCEPT ![d] = c]
GoTo(d, s)    == sub' = [sub EXCEPT ![d] = s]
Streak(d, n)  == streak' = [streak EXCEPT ![d] = n]

GoFallback(d) == GoTo(d, "fallback") /\ Command(d, "land")

Pushed(window, hit) ==
  LET w == Append(window, hit) IN IF Len(w) > Frames THEN Tail(w) ELSE w

Hits(window) == Cardinality({i \in DOMAIN window : window[i]})

(***************************************************************************)
(* One frame, in which d sees the beacons of seen.                         *)
(***************************************************************************)
\* Every beacon read is broadcast, valid or not by d's own list.
Broadcast(d, seen) ==
  [b \in Beacons |-> IF b \in seen
                     THEN Recorded(verdict[b], b \in ValidIds[d])
                     ELSE verdict[b]]

\* Mutant of ValidSightings: d trusts its own list, whatever the others read.
StaticSightings(d, seen) ==
  {b \in seen \cap ValidIds[d] : ~ClaimedByOther(b, d)}

ValidSightings(d, seen) ==
  {b \in seen \cap ValidIds[d] :
     Broadcast(d, seen)[b] # "invalid" /\ ~ClaimedByOther(b, d)}

\* The beacon with the largest box is the pick, and is claimed.  The claim
\* cannot be lost: the owner was looked up in this very step.
MarkerFrame(d, t) ==
  \E seen \in SUBSET Beacons :
    /\ verdict' = Broadcast(d, seen)
    /\ LET cs == ValidSightings(d, seen) IN
         IF cs = {} THEN t = NoPad /\ UNCHANGED claimedBy
         ELSE t \in cs /\ claimedBy' = Claimed(t, d)

\* t is the servo target of this frame.
Sees(d, t) ==
  /\ Servoing(d) /\ deck[d] = "airborne"
  /\ IF ServoOn[d] = "pad" THEN t \in {NoPad, Blob} /\ UNCHANGED padMap
     ELSE MarkerFrame(d, t)

Window(d, t) == Pushed(recent[d], t # NoPad)

Frame(d, t) ==
  /\ Sees(d, t)
  /\ recent' = [recent EXCEPT ![d] = Window(d, t)]
  /\ ClockStarts(d)
  /\ UNCHANGED deck

(***************************************************************************)
(* The outcomes of step().                                                 *)
(***************************************************************************)
\* Nothing to lock on to, or not often enough yet: keep scanning, unless the
\* acquire deadline is past.
Scan(d, t) ==
  /\ Frame(d, t)
  /\ \/ sub[d] \in {"acquire", "center"} /\ t = NoPad
     \/ sub[d] = "acquire" /\ Hits(Window(d, t)) < MinHits
  /\ Streak(d, 0)
  /\ IF timer[d] = "late" THEN GoFallback(d)
     ELSE GoTo(d, "acquire") /\ Command(d, "level")
  /\ UNCHANGED <<target, losses>>

\* A target in view, to be followed from now on or already.
Locks(d, t) ==
  t # NoPad /\ (sub[d] = "acquire" => Hits(Window(d, t)) >= MinHits)

Follows(d, t) ==
  /\ Locks(d, t) /\ Frame(d, t)
  /\ target' = [target EXCEPT ![d] = t]
  /\ UNCHANGED losses

\* The phase is never stepped again, and what it remembers never read.
Abandon(d) ==
  /\ GoTo(d, "gone") /\ Command(d, "none") /\ Streak(d, 0)
  /\ target' = [target EXCEPT ![d] = NoPad]
  /\ recent' = [recent EXCEPT ![d] = <<>>]
  /\ losses' = [losses EXCEPT ![d] = 0]
  /\ timer' = [timer EXCEPT ![d] = "unset"]
  /\ UNCHANGED deck

\* An altitude that is no number: abort, the agent fails.
BadAltitude(d, t) == Locks(d, t) /\ Sees(d, t) /\ Abandon(d)

\* Outside the deadband: a lateral move.
OffCentre(d, t) ==
  /\ Follows(d, t)
  /\ GoTo(d, "center") /\ Command(d, "level") /\ Streak(d, 0)

\* Centred, but not for long enough yet.
Centred(d, t) ==
  /\ Follows(d, t) /\ sub[d] # "descend" /\ streak[d] + 1 < CenterFrames
  /\ GoTo(d, "center") /\ Command(d, "level") /\ Streak(d, streak[d] + 1)

\* Centred for long enough: down one step, or hold until it was seen enough.
Descend(d, t) ==
  /\ Follows(d, t)
  /\ sub[d] # "descend" => streak[d] + 1 >= CenterFrames
  /\ GoTo(d, "descend") /\ Streak(d, 0)
  /\ Command(d, IF Hits(Window(d, t)) >= DescendHits THEN "down" ELSE "level")

\* Lost on the way down: up one step and look again, so often.
LosePad(d) ==
  /\ Frame(d, NoPad) /\ sub[d] = "descend"
  /\ losses' = [losses EXCEPT ![d] = @ + 1]
  /\ IF losses[d] = MaxLosses THEN GoFallback(d)
     ELSE GoTo(d, "acquire") /\ Command(d, "up")
  /\ UNCHANGED <<target, streak>>

\* The altitude is at the commit floor, before any look at the sightings.
Commit(d) ==
  /\ Servoing(d) /\ Command(d, "land") /\ ClockStarts(d)
  /\ UNCHANGED <<padMap, sub, target, recent, streak, losses, deck>>

\* Mutant of BlindLand: the budget is only looked at while acquiring.
BudgetWhileAcquiring(d) ==
  /\ Stepped(d) /\ ~ReadsGrounded(d)
  /\ sub[d] = "fallback" \/ (sub[d] = "acquire" /\ timer[d] = "spent")
  /\ GoFallback(d)
  /\ UNCHANGED <<padMap, target, recent, streak, losses, timer, deck>>

\* Out of budget, or committed to it before: land where it is.
BlindLand(d) ==
  /\ Stepped(d) /\ ~ReadsGrounded(d)
  /\ sub[d] = "fallback" \/ timer[d] = "spent"
  /\ GoFallback(d)
  /\ UNCHANGED <<padMap, target, recent, streak, losses, timer, deck>>

\* The telemetry says it does not fly: Done.
Grounded(d) ==
  /\ Stepped(d) /\ ReadsGrounded(d)
  /\ GoTo(d, IF sub[d] = "fallback" THEN "unverified" ELSE "verified")
  /\ ClockStarts(d)
  /\ UNCHANGED <<padMap, cmd, target, recent, streak, losses, deck>>

Step(d) ==
  \/ \E t \in Beacons \union {NoPad, Blob} :
       \/ Scan(d, t) \/ BadAltitude(d, t) \/ OffCentre(d, t)
       \/ Centred(d, t) \/ Descend(d, t)
  \/ LosePad(d) \/ Commit(d) \/ BlindLand(d) \/ Grounded(d)

(***************************************************************************)
(* Between the steps.                                                      *)
(***************************************************************************)
\* The command is answered; a landing has put the drone down.
CommandEnds(d) ==
  /\ sub[d] \in Active /\ cmd[d] # "none"
  /\ Command(d, "none")
  /\ deck' = [deck EXCEPT ![d] = IF @ = "airborne" /\ cmd[d] = "land"
                                 THEN "down" ELSE @]
  /\ UNCHANGED <<padMap, sub, target, recent, streak, losses, timer>>

\* The poller reads is_flying, after the takeoff or after the touch-down.
Reported(d) ==
  /\ sub[d] \in Active /\ deck[d] \in {"unseen", "down"}
  /\ deck' = [deck EXCEPT ![d] = IF @ = "down" THEN "reported" ELSE "airborne"]
  /\ UNCHANGED <<padMap, sub, cmd, target, recent, streak, losses, timer>>

TimePasses(d) ==
  /\ sub[d] \in Active /\ timer[d] \in {"running", "late"}
  /\ timer' = [timer EXCEPT ![d] = IF @ = "running" THEN "late" ELSE "spent"]
  /\ UNCHANGED <<padMap, sub, cmd, target, recent, streak, losses, deck>>

\* The agent stops stepping the phase: a failed command, a crash, the stop.
Leaves(d) == sub[d] \in Active /\ Abandon(d) /\ UNCHANGED padMap

Ended(d) == sub[d] \notin Active

Over == (\A d \in Drones : Ended(d)) /\ UNCHANGED vars

DroneNext(d) ==
  Step(d) \/ CommandEnds(d) \/ Reported(d) \/ TimePasses(d) \/ Leaves(d)

Next == Over \/ \E d \in Drones : DroneNext(d)

Spec == Init /\ [][Next]_vars

\* The agent's loop goes on, its commands are bounded by a timeout, its
\* poller runs and time passes.  Nothing is assumed of what it sees.
FairSpec ==
  /\ Spec
  /\ \A d \in Drones :
       /\ WF_vars(Step(d)) /\ WF_vars(CommandEnds(d))
       /\ WF_vars(Reported(d)) /\ WF_vars(TimePasses(d))
-----------------------------------------------------------------------------
(***************************************************************************)
(* Properties.                                                             *)
(***************************************************************************)
Follower == {d \in Drones : sub[d] \in {"center", "descend"}}

\* "two drones never chase the same valid pad": no two drones that follow
\* beacons follow the same one, and nobody else owns the one a drone follows.
OneDronePerPad ==
  \A d \in Follower : ServoOn[d] = "marker" =>
    /\ claimedBy[target[d]] = d
    /\ \A e \in Follower \ {d} : target[e] # target[d]

\* "one drone's INVALID read steers EVERY other drone off that pad", up to
\* the last moment it can: a drone starts a step down only with its pad in
\* view, read as valid by everybody so far, its own, and seen often enough.
DescendsOnGreen ==
  [][\A d \in Drones : (cmd[d] = "none" /\ cmd'[d] = "down") =>
       /\ Hits(recent'[d]) >= DescendHits /\ recent'[d][Len(recent'[d])]
       /\ ServoOn[d] = "marker" =>
            claimedBy'[target'[d]] = d /\ verdict'[target'[d]] = "valid"
    ]_vars

\* The map with the phases that use it implements pads that are owned once
\* and for good, and only taken while nobody has read them red.
Claims == INSTANCE PadClaims WITH
  Nobody <- NoDrone, owner <- claimedBy,
  red <- {b \in Beacons : verdict[b] = "invalid"}
ImplementsPadClaims == Claims!Spec

\* "it always converges to a Land within the budget", and a drone that was
\* landed is found to be down: the phase ends whatever the camera shows.
PhaseEnds == \A d \in Drones : <>Ended(d)
=============================================================================
