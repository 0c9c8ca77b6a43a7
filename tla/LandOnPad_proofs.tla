-------------------------- MODULE LandOnPad_proofs --------------------------
(***************************************************************************)
(* Theorems about the landing phases and the pad map they share, for any   *)
(* fleet, any beacons, any lists of valid ids (the same for all or not),   *)
(* any mix of servo modes and any tuning the constructor accepts.          *)
(***************************************************************************)
EXTENDS LandOnPad, SequenceTheorems, TLAPS

-----------------------------------------------------------------------------
(***************************************************************************)
(* The inductive invariant.                                                *)
(***************************************************************************)
\* A drone that follows a beacon owns it.
TargetOwned ==
  \A d \in Follower :
    IF ServoOn[d] = "marker"
    THEN target[d] \in Beacons /\ claimedBy[target[d]] = d
    ELSE target[d] \notin Beacons

\* Only a drone that has given up has lost its pad too often.
LossesBounded ==
  \A d \in Drones :
    sub[d] \in Active \ {"fallback"} => losses[d] <= MaxLosses

LandingInv == TypeOK /\ TargetOwned /\ LossesBounded

\* The landing phase starts with nothing followed, owned or lost.
LEMMA LandingInitial == Init => LandingInv
<1> SUFFICES ASSUME Init PROVE LandingInv
  OBVIOUS
<1> USE LandingAssumption
<1>1. TypeOK
  BY DEF Init, PadMapInit, TypeOK, PadMapTypeOK, Active
<1>2. TargetOwned
  BY DEF Init, TargetOwned, Follower
<1>3. LossesBounded
  BY DEF Init, LossesBounded
<1> QED
  BY <1>1, <1>2, <1>3 DEF LandingInv

-----------------------------------------------------------------------------
(***************************************************************************)
(* One frame.                                                              *)
(***************************************************************************)
\* The window keeps what it is told last.
LEMMA PushedWindow ==
  ASSUME NEW w \in Seq(BOOLEAN), NEW h \in BOOLEAN
  PROVE  Pushed(w, h) \in Seq(BOOLEAN) /\ Pushed(w, h)[Len(Pushed(w, h))] = h
<1> DEFINE a == Append(w, h)
<1>1. a \in Seq(BOOLEAN) /\ Len(a) = Len(w) + 1 /\ a[Len(w) + 1] = h
  BY AppendProperties
<1>2. CASE Len(a) > Frames
  <2>1. Len(w) >= 1 /\ Len(w) \in Nat
    BY <1>1, <1>2, LandingAssumption, LenProperties
  <2>2. /\ Tail(a) \in Seq(BOOLEAN) /\ Len(Tail(a)) = Len(w)
        /\ Tail(a)[Len(w)] = a[Len(w) + 1]
    BY <1>1, <2>1
  <2> QED
    BY <1>1, <1>2, <2>2 DEF Pushed
<1>3. CASE ~(Len(a) > Frames)
  BY <1>1, <1>3 DEF Pushed
<1> QED
  BY <1>2, <1>3

\* What a look at the beacons does to the map: red stays red, the pick is
\* green, was free or the drone's own, and is its own afterwards.
LEMMA MarkerFrameEffect ==
  ASSUME TypeOK, NEW d \in Drones, NEW t, MarkerFrame(d, t)
  PROVE  /\ PadMapTypeOK'
         /\ \A b \in Beacons : verdict[b] = "invalid" => verdict'[b] = "invalid"
         /\ \/ t = NoPad /\ UNCHANGED claimedBy
            \/ /\ t \in Beacons /\ claimedBy[t] \in {NoDrone, d}
               /\ claimedBy' = [claimedBy EXCEPT ![t] = d]
               /\ verdict'[t] = "valid"
<1>1. PICK seen \in SUBSET Beacons :
        /\ verdict' = Broadcast(d, seen)
        /\ \/ t = NoPad /\ UNCHANGED claimedBy
           \/ t \in ValidSightings(d, seen) /\ claimedBy' = Claimed(t, d)
  BY DEF MarkerFrame
<1>2. \A b \in Beacons :
        /\ verdict'[b] \in {"unread", "valid", "invalid"}
        /\ verdict[b] = "invalid" => verdict'[b] = "invalid"
        /\ b \in seen /\ verdict'[b] # "invalid" => verdict'[b] = "valid"
  BY <1>1 DEF Broadcast, Recorded, TypeOK, PadMapTypeOK
<1>3. verdict' \in [Beacons -> {"unread", "valid", "invalid"}]
  BY <1>1, <1>2 DEF Broadcast
<1>4. ASSUME t \in ValidSightings(d, seen), claimedBy' = Claimed(t, d)
      PROVE  /\ t \in Beacons /\ claimedBy[t] \in {NoDrone, d}
             /\ claimedBy' = [claimedBy EXCEPT ![t] = d]
             /\ verdict'[t] = "valid"
  <2>1. t \in Beacons /\ t \in seen /\ claimedBy[t] \in {NoDrone, d}
    BY <1>4 DEF ValidSightings, ClaimedByOther
  <2>2. verdict'[t] = "valid"
    BY <1>1, <1>2, <1>4, <2>1 DEF ValidSightings
  <2>3. claimedBy' = [claimedBy EXCEPT ![t] = d]
    BY <1>4, <2>1 DEF Claimed, TypeOK, PadMapTypeOK
  <2> QED
    BY <2>1, <2>2, <2>3
<1>5. claimedBy' \in [Beacons -> Drones \union {NoDrone}]
  BY <1>1, <1>4 DEF TypeOK, PadMapTypeOK
<1> QED
  BY <1>1, <1>2, <1>3, <1>4, <1>5 DEF PadMapTypeOK

\* The same for either servo mode, as the rest of the phase sees it.
LEMMA SeesEffect ==
  ASSUME TypeOK, NEW d \in Drones, NEW t, Sees(d, t)
  PROVE  /\ PadMapTypeOK' /\ t \in Beacons \union {NoPad, Blob}
         /\ \A b \in Beacons :
              claimedBy[b] # NoDrone => claimedBy'[b] = claimedBy[b]
         /\ ServoOn[d] = "marker" /\ t # NoPad =>
              t \in Beacons /\ claimedBy'[t] = d /\ verdict'[t] = "valid"
         /\ ServoOn[d] # "marker" => t \notin Beacons
<1> USE LandingAssumption, PadMapAssumption
<1>1. CASE ServoOn[d] = "pad"
  BY <1>1 DEF Sees, TypeOK, PadMapTypeOK, padMap
<1>2. CASE ServoOn[d] = "marker"
  <2>1. MarkerFrame(d, t)
    BY <1>2 DEF Sees
  <2> QED
    BY <1>2, <2>1, MarkerFrameEffect DEF TypeOK, PadMapTypeOK
<1> QED
  BY <1>1, <1>2

\* A frame, moreover, is remembered, and starts the clock.
LEMMA FrameEffect ==
  ASSUME TypeOK, NEW d \in Drones, NEW t, Frame(d, t)
  PROVE  /\ Sees(d, t) /\ UNCHANGED deck
         /\ recent' \in [Drones -> Seq(BOOLEAN)]
         /\ recent'[d] = Window(d, t)
         /\ recent'[d][Len(recent'[d])] <=> t # NoPad
         /\ timer' \in [Drones -> {"unset", "running", "late", "spent"}]
<1>1. /\ Window(d, t) \in Seq(BOOLEAN)
      /\ Window(d, t)[Len(Window(d, t))] = (t # NoPad)
  BY PushedWindow DEF Window, TypeOK
<1>2. recent' = [recent EXCEPT ![d] = Window(d, t)]
  BY DEF Frame
<1>3. recent' \in [Drones -> Seq(BOOLEAN)] /\ recent'[d] = Window(d, t)
  BY <1>1, <1>2 DEF TypeOK
<1>4. timer' \in [Drones -> {"unset", "running", "late", "spent"}]
  BY DEF Frame, ClockStarts, TypeOK
<1> QED
  BY <1>1, <1>3, <1>4 DEF Frame

\* Both, for the steps that look at a frame.
LEMMA FrameFacts ==
  ASSUME TypeOK, NEW d \in Drones, NEW t, Frame(d, t)
  PROVE  /\ PadMapTypeOK'
         /\ recent' \in [Drones -> Seq(BOOLEAN)]
         /\ timer' \in [Drones -> {"unset", "running", "late", "spent"}]
         /\ deck' \in [Drones -> {"unseen", "airborne", "down", "reported"}]
         /\ t \in Beacons \union {NoPad, Blob}
         /\ \A b \in Beacons :
              claimedBy[b] # NoDrone => claimedBy'[b] = claimedBy[b]
         /\ t # NoPad => IF ServoOn[d] = "marker"
                         THEN t \in Beacons /\ claimedBy'[t] = d
                         ELSE t \notin Beacons
         /\ sub[d] \in {"acquire", "center", "descend"}
<1>1. Sees(d, t) /\ deck' = deck
  BY FrameEffect
<1>2. sub[d] \in {"acquire", "center", "descend"}
  BY <1>1 DEF Sees, Servoing, Stepped, Active
<1>3. /\ recent' \in [Drones -> Seq(BOOLEAN)]
      /\ timer' \in [Drones -> {"unset", "running", "late", "spent"}]
  BY FrameEffect
<1>4. deck' \in [Drones -> {"unseen", "airborne", "down", "reported"}]
  BY <1>1 DEF TypeOK
<1> QED
  BY <1>1, <1>2, <1>3, <1>4, SeesEffect

-----------------------------------------------------------------------------
(***************************************************************************)
(* Every step preserves the invariant.                                     *)
(***************************************************************************)
\* What has to be shown of a step of one drone: claims stay, what it follows
\* is its own, and it has not lost its pad too often.
LEMMA OneDroneMoves ==
  ASSUME LandingInv, TypeOK', NEW d \in Drones,
         \A b \in Beacons : claimedBy[b] # NoDrone => claimedBy'[b] = claimedBy[b],
         \A e \in Drones \ {d} : /\ sub'[e] = sub[e] /\ target'[e] = target[e]
                                 /\ losses'[e] = losses[e],
         sub'[d] \in {"center", "descend"} =>
           IF ServoOn[d] = "marker"
           THEN target'[d] \in Beacons /\ claimedBy'[target'[d]] = d
           ELSE target'[d] \notin Beacons,
         sub'[d] \in Active \ {"fallback"} => losses'[d] <= MaxLosses
  PROVE  LandingInv'
<1>1. TargetOwned'
  <2> SUFFICES ASSUME NEW e \in Follower'
               PROVE  IF ServoOn[e] = "marker"
                      THEN target'[e] \in Beacons /\ claimedBy'[target'[e]] = e
                      ELSE target'[e] \notin Beacons
    BY DEF TargetOwned
  <2>1. e \in Drones /\ sub'[e] \in {"center", "descend"}
    BY DEF Follower
  <2>2. CASE e # d
    <3>1. e \in Follower /\ target'[e] = target[e]
      BY <2>1, <2>2 DEF Follower
    <3> QED
      BY <2>1, <3>1, PadMapAssumption DEF LandingInv, TargetOwned
  <2> QED
    BY <2>1, <2>2
<1>2. LossesBounded'
  BY DEF LossesBounded, LandingInv
<1> QED
  BY <1>1, <1>2 DEF LandingInv

\* Steps in which the drone has nothing to follow.
LEMMA ScanPreserves ==
  ASSUME LandingInv, NEW d \in Drones, NEW t, Scan(d, t)
  PROVE  LandingInv'
<1> USE LandingAssumption
<1>1. Frame(d, t) /\ TypeOK /\ Streak(d, 0)
  BY DEF Scan, LandingInv
<1>2. PICK s \in {"acquire", "fallback"}, c \in {"level", "land"} :
        GoTo(d, s) /\ Command(d, c)
  BY DEF Scan, GoFallback
<1>3. losses[d] \in 0..MaxLosses
  <2>1. sub[d] \in {"acquire", "center", "descend"}
    BY <1>1, FrameFacts
  <2> QED
    BY <2>1 DEF LandingInv, LossesBounded, TypeOK, Active
<1>4. /\ losses' = [losses EXCEPT ![d] = losses[d]] /\ target[d] \in Beacons \union {NoPad, Blob}
      /\ target' = [target EXCEPT ![d] = target[d]]
  BY DEF Scan, LandingInv, TypeOK
<1>5. /\ sub' = [sub EXCEPT ![d] = s] /\ cmd' = [cmd EXCEPT ![d] = c]
      /\ streak' = [streak EXCEPT ![d] = 0]
      /\ losses' = [losses EXCEPT ![d] = losses[d]]
      /\ target' = [target EXCEPT ![d] = target[d]]
  BY <1>1, <1>2, <1>3, <1>4 DEF GoTo, Command, Streak
<1>6. TypeOK'
  <2>1. /\ 0 \in 0..(CenterFrames - 1) /\ losses[d] \in 0..(MaxLosses + 1)
        /\ target[d] \in Beacons \union {NoPad, Blob}
    BY <1>1, <1>2, <1>3, <1>4
  <2>2. /\ sub' \in [Drones -> Active \union {"verified", "unverified", "gone"}]
        /\ cmd' \in [Drones -> {"none", "level", "up", "down", "land"}]
        /\ streak' \in [Drones -> 0..(CenterFrames - 1)]
        /\ losses' \in [Drones -> 0..(MaxLosses + 1)]
        /\ target' \in [Drones -> Beacons \union {NoPad, Blob}]
    BY <1>1, <1>5, <2>1 DEF TypeOK, Active
  <2> QED
    BY <1>1, <2>2, FrameFacts DEF TypeOK
<1>7. /\ sub'[d] = s /\ losses'[d] = losses[d] /\ target'[d] = target[d]
      /\ \A e \in Drones \ {d} : /\ sub'[e] = sub[e] /\ target'[e] = target[e]
                                /\ losses'[e] = losses[e]
  BY <1>1, <1>5 DEF TypeOK
<1>8. \A b \in Beacons : claimedBy[b] # NoDrone => claimedBy'[b] = claimedBy[b]
  BY <1>1, FrameFacts
<1> QED
  BY <1>2, <1>3, <1>6, <1>7, <1>8, OneDroneMoves

\* Losing the pad counts a loss, or gives up on the one too many.
LEMMA LosePadPreserves ==
  ASSUME LandingInv, NEW d \in Drones, LosePad(d)
  PROVE  LandingInv'
<1> USE LandingAssumption
<1>1. Frame(d, NoPad) /\ TypeOK
  BY DEF LosePad, LandingInv
<1>2. losses[d] \in 0..MaxLosses
  BY DEF LosePad, LandingInv, LossesBounded, TypeOK, Active
<1>3. PICK s \in {"acquire", "fallback"}, c \in {"up", "land"} :
        /\ GoTo(d, s) /\ Command(d, c)
        /\ s = "acquire" => losses[d] # MaxLosses
  BY DEF LosePad, GoFallback
<1>4. /\ losses' = [losses EXCEPT ![d] = losses[d] + 1]
      /\ target' = [target EXCEPT ![d] = target[d]] /\ Streak(d, streak[d])
      /\ target[d] \in Beacons \union {NoPad, Blob}
      /\ streak[d] \in 0..(CenterFrames - 1)
  BY <1>1 DEF LosePad, Streak, TypeOK
<1>5. /\ sub' = [sub EXCEPT ![d] = s] /\ cmd' = [cmd EXCEPT ![d] = c]
      /\ streak' = [streak EXCEPT ![d] = streak[d]]
      /\ losses' = [losses EXCEPT ![d] = losses[d] + 1]
      /\ target' = [target EXCEPT ![d] = target[d]]
  BY <1>1, <1>2, <1>3, <1>4 DEF GoTo, Command, Streak
<1>6. TypeOK'
  <2>1. /\ streak[d] \in 0..(CenterFrames - 1) /\ losses[d] + 1 \in 0..(MaxLosses + 1)
        /\ target[d] \in Beacons \union {NoPad, Blob}
    BY <1>1, <1>2, <1>3, <1>4
  <2>2. /\ sub' \in [Drones -> Active \union {"verified", "unverified", "gone"}]
        /\ cmd' \in [Drones -> {"none", "level", "up", "down", "land"}]
        /\ streak' \in [Drones -> 0..(CenterFrames - 1)]
        /\ losses' \in [Drones -> 0..(MaxLosses + 1)]
        /\ target' \in [Drones -> Beacons \union {NoPad, Blob}]
    BY <1>1, <1>5, <2>1 DEF TypeOK, Active
  <2> QED
    BY <1>1, <2>2, FrameFacts DEF TypeOK
<1>7. /\ sub'[d] = s /\ losses'[d] = losses[d] + 1 /\ target'[d] = target[d]
      /\ \A e \in Drones \ {d} : /\ sub'[e] = sub[e] /\ target'[e] = target[e]
                                /\ losses'[e] = losses[e]
  BY <1>1, <1>5 DEF TypeOK
<1>8. \A b \in Beacons : claimedBy[b] # NoDrone => claimedBy'[b] = claimedBy[b]
  BY <1>1, FrameFacts
<1>9. s = "acquire" => losses'[d] <= MaxLosses
  BY <1>2, <1>3, <1>7
<1> QED
  BY <1>3, <1>6, <1>7, <1>8, <1>9, OneDroneMoves DEF Active

\* Steps in which it follows a pad.
LEMMA FollowPreserves ==
  ASSUME LandingInv, NEW d \in Drones, NEW t,
         OffCentre(d, t) \/ Centred(d, t) \/ Descend(d, t)
  PROVE  LandingInv'
<1> USE LandingAssumption
<1>1. Follows(d, t) /\ Frame(d, t) /\ t # NoPad /\ TypeOK
  BY DEF OffCentre, Centred, Descend, Follows, Locks, LandingInv
<1>2. PICK s \in {"center", "descend"}, c \in {"level", "down"},
           n \in 0..(CenterFrames - 1) :
        GoTo(d, s) /\ Command(d, c) /\ Streak(d, n)
  <2>1. CASE OffCentre(d, t)
    BY <2>1 DEF OffCentre
  <2>2. CASE Centred(d, t)
    BY <1>1, <2>2 DEF Centred, TypeOK
  <2>3. CASE Descend(d, t)
    BY <2>3 DEF Descend
  <2> QED
    BY <2>1, <2>2, <2>3
<1>3. losses[d] \in 0..MaxLosses
  <2>1. sub[d] \in {"acquire", "center", "descend"}
    BY <1>1, FrameFacts
  <2> QED
    BY <2>1 DEF LandingInv, LossesBounded, TypeOK, Active
<1>4. /\ target' = [target EXCEPT ![d] = t] /\ t \in Beacons \union {NoPad, Blob}
      /\ losses' = [losses EXCEPT ![d] = losses[d]]
  BY <1>1, FrameFacts DEF Follows, TypeOK
<1>5. /\ sub' = [sub EXCEPT ![d] = s] /\ cmd' = [cmd EXCEPT ![d] = c]
      /\ streak' = [streak EXCEPT ![d] = n]
      /\ losses' = [losses EXCEPT ![d] = losses[d]]
      /\ target' = [target EXCEPT ![d] = t]
  BY <1>1, <1>2, <1>3, <1>4 DEF GoTo, Command, Streak
<1>6. TypeOK'
  <2>1. /\ n \in 0..(CenterFrames - 1) /\ losses[d] \in 0..(MaxLosses + 1)
        /\ t \in Beacons \union {NoPad, Blob}
    BY <1>1, <1>2, <1>3, <1>4
  <2>2. /\ sub' \in [Drones -> Active \union {"verified", "unverified", "gone"}]
        /\ cmd' \in [Drones -> {"none", "level", "up", "down", "land"}]
        /\ streak' \in [Drones -> 0..(CenterFrames - 1)]
        /\ losses' \in [Drones -> 0..(MaxLosses + 1)]
        /\ target' \in [Drones -> Beacons \union {NoPad, Blob}]
    BY <1>1, <1>5, <2>1 DEF TypeOK, Active
  <2> QED
    BY <1>1, <2>2, FrameFacts DEF TypeOK
<1>7. /\ sub'[d] = s /\ losses'[d] = losses[d] /\ target'[d] = t
      /\ \A e \in Drones \ {d} : /\ sub'[e] = sub[e] /\ target'[e] = target[e]
                                /\ losses'[e] = losses[e]
  BY <1>1, <1>5 DEF TypeOK
<1>8. /\ \A b \in Beacons :
           claimedBy[b] # NoDrone => claimedBy'[b] = claimedBy[b]
      /\ IF ServoOn[d] = "marker" THEN t \in Beacons /\ claimedBy'[t] = d
                                  ELSE t \notin Beacons
  BY <1>1, FrameFacts
<1> QED
  BY <1>3, <1>6, <1>7, <1>8, OneDroneMoves

\* Steps after which the phase is never stepped again.
LEMMA AbandonPreserves ==
  ASSUME LandingInv, NEW d \in Drones, Abandon(d),
         (\E t : Sees(d, t)) \/ UNCHANGED padMap
  PROVE  LandingInv'
<1> USE LandingAssumption
<1>1. TypeOK
  BY DEF LandingInv
<1>2. /\ PadMapTypeOK'
      /\ \A b \in Beacons :
           claimedBy[b] # NoDrone => claimedBy'[b] = claimedBy[b]
  BY <1>1, SeesEffect DEF padMap, TypeOK, PadMapTypeOK
<1>3. /\ sub' = [sub EXCEPT ![d] = "gone"] /\ cmd' = [cmd EXCEPT ![d] = "none"]
      /\ streak' = [streak EXCEPT ![d] = 0]
      /\ target' = [target EXCEPT ![d] = NoPad]
      /\ recent' = [recent EXCEPT ![d] = <<>>]
      /\ losses' = [losses EXCEPT ![d] = 0]
      /\ timer' = [timer EXCEPT ![d] = "unset"] /\ deck' = deck
  BY DEF Abandon, GoTo, Command, Streak
<1>4. <<>> \in Seq(BOOLEAN)
  OBVIOUS
<1>5. recent' \in [Drones -> Seq(BOOLEAN)]
  BY <1>1, <1>3, <1>4 DEF TypeOK
<1>6. TypeOK'
  BY <1>1, <1>2, <1>3, <1>5 DEF TypeOK
<1> QED
  BY <1>1, <1>2, <1>3, <1>6, OneDroneMoves DEF TypeOK, Active

\* Steps that look at no sightings, and what happens between the steps.
LEMMA BlindPreserves ==
  ASSUME LandingInv, NEW d \in Drones,
         \/ Commit(d) \/ BlindLand(d) \/ Grounded(d)
         \/ CommandEnds(d) \/ Reported(d) \/ TimePasses(d)
  PROVE  LandingInv'
<1> USE LandingAssumption
<1>1. /\ UNCHANGED <<padMap, target, recent, streak, losses>>
      /\ \/ UNCHANGED sub
         \/ /\ sub' = [sub EXCEPT ![d] = sub'[d]]
            /\ sub'[d] \in {"fallback", "unverified", "verified"}
  BY DEF Commit, BlindLand, Grounded, CommandEnds, Reported, TimePasses,
         GoFallback, GoTo, LandingInv, TypeOK
<1>2. /\ cmd' \in [Drones -> {"none", "level", "up", "down", "land"}]
      /\ timer' \in [Drones -> {"unset", "running", "late", "spent"}]
      /\ deck' \in [Drones -> {"unseen", "airborne", "down", "reported"}]
  <2>1. CASE Commit(d) \/ BlindLand(d) \/ Grounded(d)
    BY <2>1 DEF Commit, BlindLand, Grounded, GoFallback, Command, ClockStarts,
                LandingInv, TypeOK
  <2>2. CASE CommandEnds(d)
    BY <2>2 DEF CommandEnds, Command, LandingInv, TypeOK
  <2>3. CASE Reported(d) \/ TimePasses(d)
    BY <2>3 DEF Reported, TimePasses, LandingInv, TypeOK
  <2> QED
    BY <2>1, <2>2, <2>3
<1>3. TypeOK'
  BY <1>1, <1>2 DEF TypeOK, PadMapTypeOK, padMap, Active, LandingInv
<1> QED
  BY <1>1, <1>3, OneDroneMoves
     DEF padMap, TypeOK, Active, LandingInv, TargetOwned, Follower, LossesBounded

\* Together: every step of the phases.
LEMMA LandingInductive == LandingInv /\ [Next]_vars => LandingInv'
<1> SUFFICES ASSUME LandingInv, [Next]_vars PROVE LandingInv'
  OBVIOUS
<1>1. CASE UNCHANGED vars
  BY <1>1 DEF vars, phaseVars, padMap, LandingInv, TypeOK, PadMapTypeOK,
              TargetOwned, LossesBounded, Follower
<1>2. CASE \E d \in Drones : DroneNext(d)
  <2>1. PICK d \in Drones : DroneNext(d)
    BY <1>2
  <2>2. CASE \E t : Scan(d, t)
    BY <2>2, ScanPreserves
  <2>3. CASE \E t : OffCentre(d, t) \/ Centred(d, t) \/ Descend(d, t)
    BY <2>3, FollowPreserves
  <2>4. CASE (\E t : BadAltitude(d, t)) \/ Leaves(d)
    BY <2>4, AbandonPreserves DEF BadAltitude, Leaves
  <2>5. CASE LosePad(d)
    BY <2>5, LosePadPreserves
  <2>6. CASE \/ Commit(d) \/ BlindLand(d) \/ Grounded(d)
             \/ CommandEnds(d) \/ Reported(d) \/ TimePasses(d)
    BY <2>6, BlindPreserves
  <2> QED
    BY <2>1, <2>2, <2>3, <2>4, <2>5, <2>6 DEF DroneNext, Step
<1> QED
  BY <1>1, <1>2 DEF Next, Over

-----------------------------------------------------------------------------
(***************************************************************************)
(* What the steps do: descents, and the abstract claims.                   *)
(***************************************************************************)
\* A step down is only commanded by the drone's own Descend.
LEMMA OnlyDescendGoesDown ==
  ASSUME LandingInv, NEW d \in Drones, NEW e \in Drones, DroneNext(e),
         cmd[d] = "none", cmd'[d] = "down"
  PROVE  e = d /\ \E t : Descend(d, t) /\ cmd'[d] = "down"
<1>1. cmd \in [Drones -> {"none", "level", "up", "down", "land"}]
  BY DEF LandingInv, TypeOK
<1>2. ASSUME NEW t, Scan(e, t) \/ OffCentre(e, t) \/ Centred(e, t) \/ LosePad(e)
      PROVE  FALSE
  BY <1>1, <1>2 DEF Scan, OffCentre, Centred, LosePad, GoFallback, Command
<1>3. ASSUME \/ Abandon(e) \/ Commit(e) \/ BlindLand(e) \/ Grounded(e)
             \/ CommandEnds(e) \/ Reported(e) \/ TimePasses(e)
      PROVE  FALSE
  BY <1>1, <1>3 DEF Abandon, Commit, BlindLand, Grounded, CommandEnds, Reported,
                    TimePasses, GoFallback, Command
<1>4. PICK t : Descend(e, t)
  BY <1>2, <1>3 DEF DroneNext, Step, BadAltitude, Leaves
<1>5. e = d
  BY <1>1, <1>4 DEF Descend, Command
<1> QED
  BY <1>4, <1>5

\* A step down has its pad in view, often enough, owned and read as valid.
LEMMA DescendConfirmed ==
  ASSUME LandingInv, [Next]_vars, NEW d \in Drones,
         cmd[d] = "none", cmd'[d] = "down"
  PROVE  /\ Hits(recent'[d]) >= DescendHits /\ recent'[d][Len(recent'[d])]
         /\ ServoOn[d] = "marker" =>
              claimedBy'[target'[d]] = d /\ verdict'[target'[d]] = "valid"
<1>1. TypeOK /\ cmd' # cmd
  BY DEF LandingInv
<1>2. PICK e \in Drones : DroneNext(e)
  BY <1>1 DEF Next, Over, vars, phaseVars
<1>3. PICK t : Descend(d, t)
  BY <1>2, OnlyDescendGoesDown
<1>4. /\ Frame(d, t) /\ t # NoPad /\ target'[d] = t
  BY <1>1, <1>3 DEF Descend, Follows, Locks, TypeOK
<1>5. Hits(Window(d, t)) >= DescendHits
  BY <1>1, <1>3 DEF Descend, Command, TypeOK
<1>6. /\ Sees(d, t) /\ recent'[d] = Window(d, t)
      /\ recent'[d][Len(recent'[d])]
  BY <1>1, <1>4, FrameEffect
<1>7. ServoOn[d] = "marker" => claimedBy'[t] = d /\ verdict'[t] = "valid"
  BY <1>1, <1>4, <1>6, SeesEffect
<1> QED
  BY <1>4, <1>5, <1>6, <1>7

\* A look at the beacons is a look of PadClaims, or changes nothing there.
LEMMA SeesRefines ==
  ASSUME LandingInv, NEW d \in Drones, NEW t, Sees(d, t)
  PROVE  Claims!Next \/ UNCHANGED <<claimedBy, {b \in Beacons : verdict[b] = "invalid"}>>
<1> DEFINE red == {b \in Beacons : verdict[b] = "invalid"}
<1>1. TypeOK
  BY DEF LandingInv
<1>2. CASE ServoOn[d] = "pad"
  BY <1>2 DEF Sees, padMap
<1>3. CASE ServoOn[d] = "marker"
  <2>1. MarkerFrame(d, t)
    BY <1>3 DEF Sees
  <2>2. red' \in SUBSET Beacons /\ red \subseteq red'
    BY <1>1, <2>1, MarkerFrameEffect
  <2>3. \/ UNCHANGED claimedBy
        \/ /\ t \in Beacons \ red' /\ claimedBy[t] = NoDrone
           /\ claimedBy' = [claimedBy EXCEPT ![t] = d]
    BY <1>1, <2>1, MarkerFrameEffect DEF TypeOK, PadMapTypeOK
  <2> QED
    BY <2>2, <2>3 DEF Claims!Next, Claims!Look
<1> QED
  BY <1>2, <1>3, LandingAssumption

\* Frames are looks of PadClaims, all other steps leave the map alone.
LEMMA LandingRefines ==
  LandingInv /\ [Next]_vars =>
    [Claims!Next]_<<claimedBy, {b \in Beacons : verdict[b] = "invalid"}>>
<1> SUFFICES ASSUME LandingInv, [Next]_vars
             PROVE  \/ Claims!Next
                    \/ UNCHANGED <<claimedBy, {b \in Beacons : verdict[b] = "invalid"}>>
  OBVIOUS
<1>1. CASE UNCHANGED padMap
  BY <1>1 DEF padMap
<1>2. CASE \E d \in Drones : \E t : Sees(d, t)
  BY <1>2, SeesRefines
<1>3. CASE \E d \in Drones : DroneNext(d)
  <2>1. PICK d \in Drones : DroneNext(d)
    BY <1>3
  <2>2. ASSUME NEW t, \/ Scan(d, t) \/ OffCentre(d, t) \/ Centred(d, t)
                      \/ Descend(d, t) \/ BadAltitude(d, t) \/ LosePad(d)
        PROVE  \E g : Sees(d, g)
    BY <2>2 DEF Scan, OffCentre, Centred, Descend, BadAltitude, LosePad, Follows,
                Frame
  <2>3. ASSUME \/ Leaves(d) \/ Commit(d) \/ BlindLand(d) \/ Grounded(d)
               \/ CommandEnds(d) \/ Reported(d) \/ TimePasses(d)
        PROVE  UNCHANGED padMap
    BY <2>3 DEF Leaves, Commit, BlindLand, Grounded, CommandEnds, Reported,
                TimePasses
  <2> QED
    BY <1>1, <1>2, <2>1, <2>2, <2>3 DEF DroneNext, Step
<1> QED
  BY <1>1, <1>3 DEF Next, Over, vars

\* At the start nothing is owned, and nothing known to be red.
LEMMA LandingRefinesInit == Init => Claims!Init
BY DEF Init, PadMapInit, Claims!Init

-----------------------------------------------------------------------------
(***************************************************************************)
(* The theorems.                                                           *)
(***************************************************************************)
\* What is known of every reachable state of the landings, together.
THEOREM LandingInvariant == Spec => []LandingInv
BY LandingInitial, LandingInductive, PTL DEF Spec

\* Type correctness: among others, a drone never centres for longer than it
\* has to, and never loses its pad more often than it may.
THEOREM LandingTypeCorrect == Spec => []TypeOK
<1>1. LandingInv => TypeOK
  BY DEF LandingInv
<1> QED
  BY <1>1, LandingInvariant, PTL

\* A drone that follows a beacon owns its pad, and no other drone follows it.
THEOREM LandingOneDronePerPad == Spec => []OneDronePerPad
<1>1. LandingInv => OneDronePerPad
  BY LandingAssumption DEF LandingInv, TargetOwned, OneDronePerPad, Follower
<1> QED
  BY <1>1, LandingInvariant, PTL

\* No step down but over a pad in view, seen often enough, owned, and not
\* read red by anybody so far.
THEOREM LandingDescendsOnGreen == Spec => DescendsOnGreen
<1> DEFINE Confirmed ==
      \A d \in Drones : (cmd[d] = "none" /\ cmd'[d] = "down") =>
        /\ Hits(recent'[d]) >= DescendHits /\ recent'[d][Len(recent'[d])]
        /\ ServoOn[d] = "marker" =>
             claimedBy'[target'[d]] = d /\ verdict'[target'[d]] = "valid"
<1>1. LandingInv /\ [Next]_vars => [Confirmed]_vars
  BY DescendConfirmed
<1> QED
  BY <1>1, LandingInvariant, PTL DEF Spec, DescendsOnGreen

\* The phases with the map they share implement pads that are owned by one
\* drone for good, and never taken when known to be red.
THEOREM LandingImplementsPadClaims == Spec => ImplementsPadClaims
BY LandingInvariant, LandingRefines, LandingRefinesInit, PTL
   DEF Spec, ImplementsPadClaims, Claims!Spec
=============================================================================
