----------------------- MODULE SafetyController_proofs -----------------------
(***************************************************************************)
(* Proofs about SafetyController for any fleet and any timing that the     *)
(* constructor accepts: the type invariant, the conservation of the two    *)
(* permits, the wall-clock bound of a ladder, the finality of an           *)
(* escalation, and that each slot implements the abstract corridor.        *)
(***************************************************************************)
EXTENDS SafetyController, TLAPS

(***************************************************************************)
(* The inductive invariant.  PermitsConserved alone is not inductive: that *)
(* a permit is back only when NOBODY is inside needs that one drone at     *)
(* most was inside, and that needs that there is one permit at most.  The  *)
(* ladder's bound needs where in the ladder the clock stood: below the     *)
(* window while it sleeps, at most one gap above it while it attempts.     *)
(***************************************************************************)
LaunchSlot ==
  /\ launchPermits \in {0, 1}
  /\ (launchPermits = 0) <=> (\E d \in Drones : Launching(d))
  /\ \A d, e \in Drones : Launching(d) /\ Launching(e) => d = e

LandingSlot ==
  /\ landPermits \in {0, 1}
  /\ (landPermits = 0) <=> (\E d \in Drones : OnLadder(d))
  /\ \A d, e \in Drones : OnLadder(d) /\ OnLadder(e) => d = e

LadderPosition ==
  \A d \in Drones :
    /\ elapsed[d] <= Window + Outer + Period
    /\ landing[d] = "attempt" => elapsed[d] < Window + Period
    /\ landing[d] = "pause" => elapsed[d] < Window /\ attempts[d] < MaxAttempts

SafetyInv ==
  /\ SafetyTypeOK
  /\ LaunchSlot
  /\ LandingSlot
  /\ LadderPosition
  /\ EscalationIsFinal

\* The ladder has at least one attempt: the window holds a period.
LEMMA MaxAttemptsType == MaxAttempts \in Nat /\ MaxAttempts >= 1
<1>1. MaxAttempts \in Int
  BY TimingAssumption DEF MaxAttempts
<1>2. MaxAttempts >= 1
  BY TimingAssumption DEF MaxAttempts
<1> QED
  BY <1>1, <1>2

\* A new controller satisfies the invariant.
LEMMA SafetyInitial == SafetyInit => SafetyInv
<1> SUFFICES ASSUME SafetyInit PROVE SafetyInv
  OBVIOUS
<1>1. SafetyTypeOK
  BY MaxAttemptsType DEF SafetyInit, SafetyTypeOK
<1>2. LaunchSlot /\ LandingSlot
  BY DEF SafetyInit, LaunchSlot, LandingSlot, Launching, OnLadder
<1>3. LadderPosition /\ EscalationIsFinal
  BY TimingAssumption DEF SafetyInit, LadderPosition, EscalationIsFinal
<1> QED
  BY <1>1, <1>2, <1>3 DEF SafetyInv

-----------------------------------------------------------------------------
(***************************************************************************)
(* The steps in two groups: those of the launch slot, and those of the     *)
(* landing slot and its ladder.  CancelAll alone belongs to both.          *)
(***************************************************************************)
LaunchStep(d) ==
  RequestLaunch(d) \/ AcquireLaunch(d) \/ LeaveLaunchQueue(d) \/ ReleaseLaunch(d)

LandingStep(d) ==
  \/ CallLand(d) \/ CallTrip(d) \/ AcquireLanding(d) \/ LandingSlotTimeout(d)
  \/ AttemptLands(d) \/ AttemptFails(d) \/ RetryLanding(d) \/ Escalate(d)
  \/ ReturnLanding(d) \/ AbandonLanding(d)

\* Every step is of one of the groups, or the end of the loop.
LEMMA StepGroups ==
  ASSUME SafetyNext
  PROVE  CancelAll \/ \E d \in Drones : LaunchStep(d) \/ LandingStep(d)
BY DEF SafetyNext, NextCall, LadderStep, LaunchStep, LandingStep

\* A step of one group leaves the other slot alone.
LEMMA GroupFrames ==
  ASSUME NEW d \in Drones
  PROVE  /\ LaunchStep(d) => UNCHANGED landingVars
         /\ LandingStep(d) => UNCHANGED launchVars
<1>1. LaunchStep(d) => UNCHANGED landingVars
  BY DEF LaunchStep, RequestLaunch, AcquireLaunch, LeaveLaunchQueue,
         ReleaseLaunch
<1>2. LandingStep(d) => UNCHANGED launchVars
  BY DEF LandingStep, CallLand, CallTrip, AcquireLanding, LandingSlotTimeout,
         AttemptLands, AttemptFails, RetryLanding, Escalate, ReturnLanding,
         AbandonLanding
<1> QED
  BY <1>1, <1>2

-----------------------------------------------------------------------------
(***************************************************************************)
(* The launch slot.                                                        *)
(***************************************************************************)
\* Every step of the launch group keeps permit and occupant in step.
LEMMA LaunchSlotStep ==
  ASSUME SafetyTypeOK, LaunchSlot, NEW d \in Drones, LaunchStep(d)
  PROVE  LaunchSlot'
<1>1. CASE RequestLaunch(d)
  BY <1>1 DEF RequestLaunch, SafetyTypeOK, LaunchSlot, Launching
<1>2. CASE AcquireLaunch(d)
  BY <1>2 DEF AcquireLaunch, SafetyTypeOK, LaunchSlot, Launching
<1>3. CASE LeaveLaunchQueue(d)
  BY <1>3 DEF LeaveLaunchQueue, SafetyTypeOK, LaunchSlot, Launching
<1>4. CASE ReleaseLaunch(d)
  BY <1>4 DEF ReleaseLaunch, SafetyTypeOK, LaunchSlot, Launching
<1> QED
  BY <1>1, <1>2, <1>3, <1>4 DEF LaunchStep

(***************************************************************************)
(* The landing slot.                                                       *)
(***************************************************************************)
\* Every step of the landing group keeps permit and occupant in step.
LEMMA LandingSlotStep ==
  ASSUME SafetyTypeOK, LandingSlot, NEW d \in Drones, LandingStep(d)
  PROVE  LandingSlot'
<1> USE DEF SafetyTypeOK, LandingSlot, OnLadder
<1>1. CASE EnterLanding(d)
  BY <1>1 DEF EnterLanding
<1>2. CASE AcquireLanding(d)
  BY <1>2 DEF AcquireLanding
<1>3. CASE LandingSlotTimeout(d)
  BY <1>3 DEF LandingSlotTimeout
<1>4. CASE AttemptLands(d)
  BY <1>4 DEF AttemptLands, EndLadder
<1>5. CASE AttemptFails(d)
  BY <1>5 DEF AttemptFails
<1>6. CASE RetryLanding(d)
  BY <1>6 DEF RetryLanding
<1>7. CASE Escalate(d)
  BY <1>7 DEF Escalate, EndLadder
<1>8. CASE ReturnLanding(d)
  BY <1>8 DEF ReturnLanding
<1>9. CASE AbandonLanding(d)
  BY <1>9 DEF AbandonLanding
<1> QED
  BY <1>1, <1>2, <1>3, <1>4, <1>5, <1>6, <1>7, <1>8, <1>9
     DEF LandingStep, CallLand, CallTrip

\* The end of the loop empties both slots and returns both permits.
LEMMA CancelAllSlots ==
  ASSUME SafetyTypeOK, LaunchSlot, LandingSlot, CancelAll
  PROVE  LaunchSlot' /\ LandingSlot'
<1>1. LaunchSlot'
  BY DEF CancelAll, SafetyTypeOK, LaunchSlot, Launching
<1>2. LandingSlot'
  BY DEF CancelAll, SafetyTypeOK, LandingSlot, OnLadder
<1> QED
  BY <1>1, <1>2

(***************************************************************************)
(* The ladder.                                                             *)
(***************************************************************************)
\* A ladder that has not given up is inside its window and its attempts.
LEMMA LadderStepPosition ==
  ASSUME SafetyTypeOK, LadderPosition, NEW d \in Drones, LandingStep(d)
  PROVE  LadderPosition'
<1> USE TimingAssumption, MaxAttemptsType DEF SafetyTypeOK, LadderPosition
<1>1. CASE EnterLanding(d)
  BY <1>1 DEF EnterLanding
<1>2. CASE AcquireLanding(d)
  BY <1>2 DEF AcquireLanding
<1>3. CASE LandingSlotTimeout(d)
  BY <1>3 DEF LandingSlotTimeout
<1>4. CASE AttemptLands(d)
  BY <1>4 DEF AttemptLands, EndLadder, ForgetLadder
<1>5. CASE AttemptFails(d)
  BY <1>5 DEF AttemptFails, GivesUp
<1>6. CASE RetryLanding(d)
  BY <1>6 DEF RetryLanding
<1>7. CASE Escalate(d)
  BY <1>7 DEF Escalate, EndLadder
<1>8. CASE ReturnLanding(d)
  BY <1>8 DEF ReturnLanding, ForgetLadder
<1>9. CASE AbandonLanding(d)
  BY <1>9 DEF AbandonLanding, ForgetLadder
<1> QED
  BY <1>1, <1>2, <1>3, <1>4, <1>5, <1>6, <1>7, <1>8, <1>9
     DEF LandingStep, CallLand, CallTrip

(***************************************************************************)
(* Escalation.  The set only grows, and the two ways out of "idle" and     *)
(* into the queue refuse a drone that is in it.                            *)
(***************************************************************************)
\* No step brings an escalated drone into the queue or onto a ladder.
LEMMA EscalationStep ==
  ASSUME SafetyTypeOK, EscalationIsFinal, NEW d \in Drones, LandingStep(d)
  PROVE  EscalationIsFinal'
<1> USE DEF SafetyTypeOK, EscalationIsFinal, OnLadder
<1>1. CASE EnterLanding(d) /\ UNCHANGED escalated
  BY <1>1 DEF EnterLanding
<1>2. CASE AcquireLanding(d) \/ LandingSlotTimeout(d)
  BY <1>2 DEF AcquireLanding, LandingSlotTimeout
<1>3. CASE AttemptLands(d) \/ AttemptFails(d) \/ RetryLanding(d)
  BY <1>3 DEF AttemptLands, AttemptFails, RetryLanding, EndLadder
<1>4. CASE Escalate(d)
  BY <1>4 DEF Escalate, EndLadder
<1>5. CASE ReturnLanding(d) \/ AbandonLanding(d)
  BY <1>5 DEF ReturnLanding, AbandonLanding
<1> QED
  BY <1>1, <1>2, <1>3, <1>4, <1>5 DEF LandingStep, CallLand, CallTrip

(***************************************************************************)
(* Types.  Only a retry counts an attempt, and it does so from a pause,    *)
(* where the ladder still has one left.                                    *)
(***************************************************************************)
\* Types, for the steps of the launch group ...
LEMMA LaunchTypeStep ==
  ASSUME SafetyTypeOK, NEW d \in Drones, LaunchStep(d)
  PROVE  SafetyTypeOK'
<1>1. UNCHANGED landingVars
  BY GroupFrames
<1>2. /\ launchPermits' \in Nat
      /\ launch' \in [Drones -> {"idle", "queued", "holding"}]
  BY DEF SafetyTypeOK, LaunchStep, RequestLaunch, AcquireLaunch,
         LeaveLaunchQueue, ReleaseLaunch, Launching
<1> QED
  BY <1>1, <1>2 DEF SafetyTypeOK, landingVars

\* ... and for those of the landing group.
LEMMA LandingTypeStep ==
  ASSUME SafetyTypeOK, LadderPosition, NEW d \in Drones, LandingStep(d)
  PROVE  SafetyTypeOK'
<1> USE TimingAssumption, MaxAttemptsType DEF SafetyTypeOK
<1>1. CASE CallLand(d) \/ CallTrip(d)
  BY <1>1 DEF CallLand, CallTrip, EnterLanding, launchVars
<1>2. CASE AcquireLanding(d) \/ LandingSlotTimeout(d)
  BY <1>2 DEF AcquireLanding, LandingSlotTimeout, launchVars
<1>3. CASE AttemptLands(d)
  BY <1>3 DEF AttemptLands, EndLadder, ForgetLadder, launchVars
<1>4. CASE AttemptFails(d)
  BY <1>4 DEF AttemptFails, launchVars
<1>5. CASE RetryLanding(d)
  BY <1>5 DEF RetryLanding, LadderPosition, launchVars
<1>6. CASE Escalate(d)
  BY <1>6 DEF Escalate, EndLadder, launchVars
<1>7. CASE ReturnLanding(d) \/ AbandonLanding(d)
  BY <1>7 DEF ReturnLanding, AbandonLanding, ForgetLadder, launchVars
<1> QED
  BY <1>1, <1>2, <1>3, <1>4, <1>5, <1>6, <1>7 DEF LandingStep

\* The end of the loop keeps the rest of the invariant.
LEMMA CancelAllRest ==
  ASSUME SafetyTypeOK, LadderPosition, EscalationIsFinal, CancelAll
  PROVE  SafetyTypeOK' /\ LadderPosition' /\ EscalationIsFinal'
<1> USE TimingAssumption, MaxAttemptsType DEF SafetyTypeOK, CancelAll
<1>1. SafetyTypeOK'
  OBVIOUS
<1>2. LadderPosition'
  BY DEF LadderPosition, OnLadder
<1>3. EscalationIsFinal'
  BY DEF EscalationIsFinal, OnLadder
<1> QED
  BY <1>1, <1>2, <1>3

-----------------------------------------------------------------------------
(***************************************************************************)
(* The invariant is inductive.                                             *)
(***************************************************************************)
\* Every step of the controller keeps the invariant.
LEMMA SafetyInductive == SafetyInv /\ [SafetyNext]_controller => SafetyInv'
<1> SUFFICES ASSUME SafetyInv, [SafetyNext]_controller
             PROVE  SafetyInv'
  OBVIOUS
<1>1. ASSUME NEW d \in Drones, LaunchStep(d)
      PROVE  SafetyInv'
  <2>1. SafetyTypeOK' /\ LaunchSlot'
    BY <1>1, LaunchTypeStep, LaunchSlotStep DEF SafetyInv
  <2>2. UNCHANGED landingVars
    BY <1>1, GroupFrames
  <2>3. LandingSlot' /\ LadderPosition' /\ EscalationIsFinal'
    BY <2>2 DEF SafetyInv, landingVars, LandingSlot, LadderPosition,
                EscalationIsFinal, OnLadder
  <2> QED
    BY <2>1, <2>3 DEF SafetyInv
<1>2. ASSUME NEW d \in Drones, LandingStep(d)
      PROVE  SafetyInv'
  <2>1. SafetyTypeOK' /\ LandingSlot' /\ LadderPosition' /\ EscalationIsFinal'
    BY <1>2, LandingTypeStep, LandingSlotStep, LadderStepPosition,
       EscalationStep DEF SafetyInv
  <2>2. UNCHANGED launchVars
    BY <1>2, GroupFrames
  <2>3. LaunchSlot'
    BY <2>2 DEF SafetyInv, launchVars, LaunchSlot, Launching
  <2> QED
    BY <2>1, <2>3 DEF SafetyInv
<1>3. CASE CancelAll
  BY <1>3, CancelAllSlots, CancelAllRest DEF SafetyInv
<1>4. CASE UNCHANGED controller
  BY <1>4 DEF controller, SafetyInv, SafetyTypeOK, LaunchSlot, LandingSlot,
              LadderPosition, EscalationIsFinal, Launching, OnLadder
<1> QED
  BY <1>1, <1>2, <1>3, <1>4, StepGroups

-----------------------------------------------------------------------------
(***************************************************************************)
(* The theorems.                                                           *)
(***************************************************************************)
\* What is known of every reachable state of the controller, together: types,
\* the accounting of both slots, the ladders' positions, finality.
THEOREM SafetyInvariant == SafetySpec => []SafetyInv
BY SafetyInitial, SafetyInductive, PTL DEF SafetySpec

\* Whatever the fleet and the timing, a ladder issues at most MaxAttempts land
\* commands and every call is in one of the states of the code.
THEOREM SafetyTypeCorrect == SafetySpec => []SafetyTypeOK
<1>1. SafetyInv => SafetyTypeOK
  BY DEF SafetyInv
<1> QED
  BY <1>1, SafetyInvariant, PTL

\* No interleaving of timeouts, cancellations, trips and escalations leaks a
\* permit of the two semaphores or gives one back twice.
THEOREM SafetyPermitsConserved == SafetySpec => []PermitsConserved
<1>1. SafetyInv => PermitsConserved
  BY DEF SafetyInv, LaunchSlot, LandingSlot, PermitsConserved
<1> QED
  BY <1>1, SafetyInvariant, PTL

\* land_bound_s: the holder of the landing slot gives it back within the
\* window plus one attempt plus one gap.
THEOREM SafetyLadderBounded == SafetySpec => []LadderWithinBound
<1>1. SafetyInv => LadderWithinBound
  BY DEF SafetyInv, LadderPosition, LadderWithinBound
<1> QED
  BY <1>1, SafetyInvariant, PTL

\* A drone whose ladder gave up never gets another land command from it.
THEOREM SafetyEscalationFinal == SafetySpec => []EscalationIsFinal
<1>1. SafetyInv => EscalationIsFinal
  BY DEF SafetyInv
<1> QED
  BY <1>1, SafetyInvariant, PTL

-----------------------------------------------------------------------------
(***************************************************************************)
(* Refinement: the set of drones inside a slot behaves as Corridor.tla.    *)
(* LaunchSlot and LandingSlot say that it has one element at most, so a    *)
(* step that takes a drone out empties it, and PermitsConserved that it is *)
(* empty when a drone finds a permit.                                      *)
(***************************************************************************)
\* A step of the launch group enters or leaves the takeoff zone, or stutters.
LEMMA LaunchStepRefines ==
  ASSUME SafetyInv, NEW d \in Drones, LaunchStep(d)
  PROVE  LaunchCorridor!Next \/ UNCHANGED TakeoffZone
<1> USE DEF SafetyInv, SafetyTypeOK, LaunchSlot, Launching, TakeoffZone
<1>1. CASE RequestLaunch(d) \/ AcquireLaunch(d)
  <2>1. CASE launchPermits = 0
    BY <1>1, <2>1 DEF RequestLaunch, AcquireLaunch
  <2>2. CASE launchPermits # 0
    <3>1. TakeoffZone = {} /\ TakeoffZone' = {d}
      BY <1>1, <2>2 DEF RequestLaunch, AcquireLaunch
    <3> QED
      BY <3>1 DEF LaunchCorridor!Next, LaunchCorridor!Enter
  <2> QED
    BY <2>1, <2>2
<1>2. CASE LeaveLaunchQueue(d)
  BY <1>2 DEF LeaveLaunchQueue
<1>3. CASE ReleaseLaunch(d)
  <2>1. TakeoffZone # {} /\ TakeoffZone' = {}
    BY <1>3 DEF ReleaseLaunch
  <2> QED
    BY <2>1 DEF LaunchCorridor!Next, LaunchCorridor!Leave
<1> QED
  BY <1>1, <1>2, <1>3 DEF LaunchStep

\* A step of the landing group enters or leaves the landing zone, or stutters.
LEMMA LandingStepRefines ==
  ASSUME SafetyInv, NEW d \in Drones, LandingStep(d)
  PROVE  LandingCorridor!Next \/ UNCHANGED LandingZone
<1> USE DEF SafetyInv, SafetyTypeOK, LandingSlot, OnLadder, LandingZone
<1>1. CASE EnterLanding(d) \/ AcquireLanding(d)
  <2>1. CASE landPermits = 0 \/ (d \in escalated /\ EnterLanding(d))
    BY <1>1, <2>1 DEF EnterLanding, AcquireLanding
  <2>2. CASE landPermits # 0 /\ ~(d \in escalated /\ EnterLanding(d))
    <3>1. LandingZone = {} /\ LandingZone' = {d}
      BY <1>1, <2>2 DEF EnterLanding, AcquireLanding
    <3> QED
      BY <3>1 DEF LandingCorridor!Next, LandingCorridor!Enter
  <2> QED
    BY <2>1, <2>2
<1>2. CASE LandingSlotTimeout(d) \/ ReturnLanding(d)
  BY <1>2 DEF LandingSlotTimeout, ReturnLanding
<1>3. CASE AttemptFails(d) \/ RetryLanding(d)
  BY <1>3 DEF AttemptFails, RetryLanding
<1>4. CASE AttemptLands(d) \/ Escalate(d)
  <2>1. LandingZone # {} /\ LandingZone' = {}
    BY <1>4 DEF AttemptLands, Escalate, EndLadder
  <2> QED
    BY <2>1 DEF LandingCorridor!Next, LandingCorridor!Leave
<1>5. CASE AbandonLanding(d)
  <2>1. CASE OnLadder(d)
    <3>1. LandingZone # {} /\ LandingZone' = {}
      BY <1>5, <2>1 DEF AbandonLanding
    <3> QED
      BY <3>1 DEF LandingCorridor!Next, LandingCorridor!Leave
  <2>2. CASE ~OnLadder(d)
    BY <1>5, <2>2 DEF AbandonLanding
  <2> QED
    BY <2>1, <2>2
<1> QED
  BY <1>1, <1>2, <1>3, <1>4, <1>5 DEF LandingStep, CallLand, CallTrip

\* The end of the loop empties both zones: at most one drone leaves each.
LEMMA CancelAllRefines ==
  ASSUME SafetyInv, CancelAll
  PROVE  /\ LaunchCorridor!Next \/ UNCHANGED TakeoffZone
         /\ LandingCorridor!Next \/ UNCHANGED LandingZone
<1>1. TakeoffZone' = {}
  BY DEF CancelAll, Launching, TakeoffZone
<1>2. LandingZone' = {}
  BY DEF CancelAll, OnLadder, LandingZone, SafetyInv, SafetyTypeOK
<1> QED
  BY <1>1, <1>2 DEF LaunchCorridor!Next, LaunchCorridor!Leave,
                    LandingCorridor!Next, LandingCorridor!Leave

\* One drone at most in the shared takeoff zone, for every fleet.
THEOREM LaunchSlotImplementsCorridor == SafetySpec => LaunchIsCorridor
<1>1. SafetyInit => LaunchCorridor!Init
  BY DEF SafetyInit, LaunchCorridor!Init, Launching, TakeoffZone
<1>2. SafetyInv /\ [SafetyNext]_controller
        => [LaunchCorridor!Next]_TakeoffZone
  <2> SUFFICES ASSUME SafetyInv, [SafetyNext]_controller
      PROVE  LaunchCorridor!Next \/ UNCHANGED TakeoffZone
    OBVIOUS
  <2>1. ASSUME NEW x \in Drones, LandingStep(x)
        PROVE  UNCHANGED TakeoffZone
    BY <2>1, GroupFrames DEF launchVars, Launching, TakeoffZone
  <2>2. CASE UNCHANGED controller
    BY <2>2 DEF controller, Launching, TakeoffZone
  <2> QED
    BY <2>1, <2>2, LaunchStepRefines, CancelAllRefines, StepGroups
<1> QED
  BY <1>1, <1>2, SafetyInvariant, PTL
     DEF SafetySpec, LaunchIsCorridor, LaunchCorridor!Spec

\* One descent at a time, for every fleet.
THEOREM LandingSlotImplementsCorridor == SafetySpec => LandingIsCorridor
<1>1. SafetyInit => LandingCorridor!Init
  BY DEF SafetyInit, LandingCorridor!Init, OnLadder, LandingZone
<1>2. SafetyInv /\ [SafetyNext]_controller
        => [LandingCorridor!Next]_LandingZone
  <2> SUFFICES ASSUME SafetyInv, [SafetyNext]_controller
      PROVE  LandingCorridor!Next \/ UNCHANGED LandingZone
    OBVIOUS
  <2>1. ASSUME NEW x \in Drones, LaunchStep(x)
        PROVE  UNCHANGED LandingZone
    BY <2>1, GroupFrames DEF landingVars, OnLadder, LandingZone
  <2>2. CASE UNCHANGED controller
    BY <2>2 DEF controller, OnLadder, LandingZone
  <2> QED
    BY <2>1, <2>2, LandingStepRefines, CancelAllRefines, StepGroups
<1> QED
  BY <1>1, <1>2, SafetyInvariant, PTL
     DEF SafetySpec, LandingIsCorridor, LandingCorridor!Spec
=============================================================================
