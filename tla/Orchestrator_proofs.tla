------------------------ MODULE Orchestrator_proofs ------------------------
(***************************************************************************)
(* Theorems about the whole mission, for any fleet, any timing of the      *)
(* landing ladders and any set of faults.                                  *)
(***************************************************************************)
EXTENDS Orchestrator, SafetyController_proofs

-----------------------------------------------------------------------------
(***************************************************************************)
(* The inductive invariant.                                                *)
(***************************************************************************)
\* The awaits at which an agent has no call of the controller under way.
Between == {"connecting", "tick", "waiting", "moving"}

\* What holds of one drone at every step: where its agent is determines which
\* slot it may be in; the latch says whether emergency_land was commanded, and
\* counts it; a drone in the air that nobody safes is known to be in the air, or
\* its agent died or is at a takeoff; and an agent that ended well left its
\* drone on the ground.
DroneInv(d) ==
  /\ launch[d] # "idle" => pc[d] = "launching"
  /\ pc[d] \in Between \union {"launching"} => landing[d] = "idle"
  /\ pc[d] \in Between \union {"launching", "landing"} => d \notin tripTask
  /\ d \notin latched => emergency[d] = "none"
  /\ commanded[d] = IF d \in latched THEN 1 ELSE 0
  /\ state[d] = "FAILED" => d \in latched
  /\ pc[d] = "safing" => d \in latched
  /\ landing[d] = "landed" => d \notin flying
  /\ Alive(d) => state[d] # "DONE"
  /\ d \in flying \ latched =>
       d \in airborne \/ pc[d] \in {"launching", "crashed", "cancelled"}
  /\ (d \notin latched /\ (pc[d] = "returned" \/ state[d] = "DONE")) =>
       d \notin flying \union airborne

\* The reconciliation is done with this drone.
Settled(d) == d \in latched \/ (~Alive(d) /\ d \notin flying \union airborne)

ShutdownInv ==
  /\ orch = "reconcile" => \A d \in Drones \ todo : Settled(d)
  /\ orch \in {"shutdown", "returned", "raised"} => \A d \in Drones : Settled(d)

MissionInv ==
  /\ TypeOK /\ SafetyInv
  /\ \A d \in Drones : DroneInv(d)
  /\ ShutdownInv

-----------------------------------------------------------------------------
(***************************************************************************)
(* The agents at the controller.                                           *)
(***************************************************************************)
\* A step of one drone at the controller leaves the calls of the others alone,
\* and never makes a trip task of theirs.
LEMMA ControllerFrame ==
  ASSUME SafetyTypeOK, NEW d \in Drones, LaunchStep(d) \/ LandingStep(d),
         NEW b \in Drones \ {d}
  PROVE  /\ launch'[b] = launch[b] /\ landing'[b] = landing[b]
         /\ b \in tripTask' <=> b \in tripTask
<1> USE DEF SafetyTypeOK
<1>1. CASE LaunchStep(d)
  BY <1>1 DEF LaunchStep, RequestLaunch, AcquireLaunch, LeaveLaunchQueue,
     ReleaseLaunch, landingVars
<1>2. CASE CallLand(d) \/ CallTrip(d)
  BY <1>2 DEF CallLand, CallTrip, EnterLanding, launchVars
<1>3. CASE AcquireLanding(d) \/ LandingSlotTimeout(d) \/ AttemptFails(d)
           \/ RetryLanding(d)
  BY <1>3 DEF AcquireLanding, LandingSlotTimeout, AttemptFails, RetryLanding,
     launchVars
<1>4. CASE AttemptLands(d) \/ Escalate(d)
  BY <1>4 DEF AttemptLands, Escalate, EndLadder, launchVars
<1>5. CASE ReturnLanding(d) \/ AbandonLanding(d)
  BY <1>5 DEF ReturnLanding, AbandonLanding, launchVars
<1> QED
  BY <1>1, <1>2, <1>3, <1>4, <1>5 DEF LandingStep

\* Every step of an agent is a step the controller allows its callers.
LEMMA AgentUsesController ==
  ASSUME MissionInv, NEW d \in Drones, AgentStep(d)
  PROVE  SafetyNext \/ UNCHANGED controller
<1> USE DEF SafetyNext, NextCall
<1>1. CASE Connect(d) \/ ConnectFails(d) \/ TickFails(d) \/ TickCrashes(d)
           \/ StartWait(d) \/ StartMove(d) \/ WaitEnds(d) \/ MoveEnds(d)
           \/ LiftsOff(d) \/ EmergencyAnswers(d) \/ Safed(d)
           \/ CancelSwallowed(d)
  BY <1>1 DEF Connect, ConnectFails, TickFails, TickCrashes, StartWait,
     StartMove, WaitEnds, MoveEnds, LiftsOff, EmergencyAnswers, Safed,
     CancelSwallowed
<1>2. At(d, "tick") => launch[d] = "idle" /\ landing[d] = "idle"
  BY DEF MissionInv, DroneInv, Between, At
<1>3. CASE WindDown(d) \/ GuardLandsThis(d) \/ GuardLandsAll(d)
  BY <1>2, <1>3 DEF WindDown, GuardLandsThis, GuardLandsAll, Acting,
     FinalDescent
<1>4. CASE StartTakeoff(d) \/ StartLand(d)
  BY <1>2, <1>4 DEF StartTakeoff, StartLand, Acting
<1>5. CASE LaunchSlotAcquired(d) \/ LaunchSlotRefused(d)
           \/ TakeoffDone(d) \/ TakeoffFails(d)
  BY <1>5 DEF LaunchSlotAcquired, LaunchSlotRefused, TakeoffDone,
     TakeoffFails
<1>6. CASE LandingProgress(d) \/ LandReturns(d) \/ LandRaises(d)
  BY <1>6 DEF LandingProgress, LandReturns, LandRaises, Answered
<1>7. CASE Cancelled(d)
  BY <1>7 DEF Cancelled, OutOfSlots
<1> QED
  BY <1>1, <1>3, <1>4, <1>5, <1>6, <1>7 DEF AgentStep, Tick, Answer

-----------------------------------------------------------------------------
(***************************************************************************)
(* The agent's steps, seen from the drone d.                               *)
(***************************************************************************)
\* What a step of d's agent leaves alone of another drone b.
Same(b) ==
  /\ pc'[b] = pc[b] /\ state'[b] = state[b]
  /\ emergency'[b] = emergency[b] /\ commanded'[b] = commanded[b]
  /\ launch'[b] = launch[b] /\ landing'[b] = landing[b]
  /\ b \in tripTask' <=> b \in tripTask
  /\ b \in latched' <=> b \in latched
  /\ b \in flying' <=> b \in flying
  /\ b \in airborne' <=> b \in airborne

\* What it does for d itself: everything the invariant says of d, the latch is
\* never cleared, and a task that has ended neither revives nor takes off.
Effect(d) ==
  /\ AgentLocalTypeOK' /\ DroneInv(d)'
  /\ d \in latched => d \in latched'
  /\ (~Alive(d) => ~Alive(d)' /\ (d \in flying' => d \in flying)
                   /\ (d \in airborne' => d \in airborne))

\* One tick of run(), every way it can end.
LEMMA TickEffect ==
  ASSUME MissionInv, NEW d \in Drones, Tick(d)
  PROVE  Effect(d)
<1> USE DEF MissionInv, SafetyInv, TypeOK, AgentTypeOK, SafetyTypeOK,
        AgentLocalTypeOK, Effect, DroneInv, Between, Alive, At, Ended,
        Goto, Acting,
        safeVars, latchVars, outside, agentLocal, controller, launchVars, landingVars
<1>1. CASE Connect(d)
  BY <1>1 DEF Connect
<1>2. CASE ConnectFails(d)
  BY <1>2 DEF ConnectFails, CommandFails, Fail, Crash, CommandEmergency
<1>3. CASE StartWait(d) \/ StartMove(d)
  BY <1>3 DEF StartWait, StartMove
<1>4. CASE TickFails(d)
  BY <1>4 DEF TickFails, Fail, CommandEmergency
<1>5. CASE TickCrashes(d)
  BY <1>5 DEF TickCrashes, Crash
<1>6. CASE StartTakeoff(d)
  BY <1>6 DEF StartTakeoff, RequestLaunch
<1>7. CASE StartLand(d)
  BY <1>7 DEF StartLand, CallLand, EnterLanding
<1>8. CASE WindDown(d)
  BY <1>8 DEF WindDown, FinalDescent, Finish, CallLand, EnterLanding
<1>9. CASE GuardLandsThis(d)
  BY <1>9 DEF GuardLandsThis, FinalDescent, Finish, CallTrip, EnterLanding
<1>10. CASE GuardLandsAll(d)
  BY <1>10 DEF GuardLandsAll, FinalDescent, Finish, CallTrip, EnterLanding
<1> QED
  BY <1>1, <1>2, <1>3, <1>4, <1>5, <1>6, <1>7, <1>8, <1>9, <1>10 DEF Tick

\* Every answer of the adapter, of a slot, of a ladder.
LEMMA AnswerEffect ==
  ASSUME MissionInv, NEW d \in Drones, Answer(d)
  PROVE  Effect(d)
<1> USE DEF MissionInv, SafetyInv, TypeOK, AgentTypeOK, SafetyTypeOK,
        AgentLocalTypeOK, Effect, DroneInv, Between, Alive, At, Ended,
        Goto, safeVars, latchVars, outside,
        agentLocal, controller, launchVars, landingVars
<1>1. CASE WaitEnds(d)
  BY <1>1 DEF WaitEnds
<1>2. CASE MoveEnds(d)
  BY <1>2 DEF MoveEnds, CommandFails, Fail, Crash, CommandEmergency
<1>3. CASE LaunchSlotAcquired(d)
  BY <1>3 DEF LaunchSlotAcquired, AcquireLaunch
<1>4. CASE LaunchSlotRefused(d)
  BY <1>4 DEF LaunchSlotRefused, LeaveLaunchQueue, CommandFails, Fail, Crash,
     CommandEmergency
<1>5. CASE LiftsOff(d)
  BY <1>5 DEF LiftsOff, Launching
<1>6. CASE TakeoffDone(d)
  BY <1>6 DEF TakeoffDone, ReleaseLaunch, Crash
<1>7. CASE TakeoffFails(d)
  BY <1>7 DEF TakeoffFails, ReleaseLaunch, CommandFails, Fail, Crash,
     CommandEmergency
<1>8. CASE LandingProgress(d)
  <2>1. CASE AttemptLands(d)
    BY <1>8, <2>1 DEF LandingProgress, AttemptLands, EndLadder
  <2>2. CASE AttemptFails(d)
    BY <1>8, <2>2 DEF LandingProgress, AttemptFails
  <2>3. CASE RetryLanding(d)
    BY <1>8, <2>3 DEF LandingProgress, RetryLanding
  <2>4. CASE Escalate(d)
    BY <1>8, <2>4 DEF LandingProgress, Escalate, EndLadder
  <2>5. CASE AcquireLanding(d)
    BY <1>8, <2>5 DEF LandingProgress, AcquireLanding
  <2>6. CASE LandingSlotTimeout(d)
    BY <1>8, <2>6 DEF LandingProgress, LandingSlotTimeout
  <2> QED
    BY <1>8, <2>1, <2>2, <2>3, <2>4, <2>5, <2>6 DEF LandingProgress, LadderStep
<1>9. CASE LandReturns(d)
  BY <1>9 DEF LandReturns, Answered, ReturnLanding, Finish, Crash
<1>10. CASE LandRaises(d)
  BY <1>10 DEF LandRaises, Answered, ReturnLanding, CommandFails, Fail, Crash,
     CommandEmergency
<1>11. CASE EmergencyAnswers(d)
  BY <1>11 DEF EmergencyAnswers
<1>12. CASE Safed(d)
  BY <1>12 DEF Safed, Believe
<1> QED
  BY <1>1, <1>2, <1>3, <1>4, <1>5, <1>6, <1>7, <1>8, <1>9, <1>10, <1>11, <1>12
     DEF Answer

\* A cancellation, delivered or swallowed, at any await.
LEMMA CancelEffect ==
  ASSUME MissionInv, NEW d \in Drones, Cancelled(d) \/ CancelSwallowed(d)
  PROVE  Effect(d)
<1> USE DEF MissionInv, SafetyInv, TypeOK, AgentTypeOK, SafetyTypeOK,
        AgentLocalTypeOK, Effect, DroneInv, Between, Alive, At, Ended,
        Goto, safeVars, latchVars, outside,
        agentLocal, controller, launchVars, landingVars
<1>1. CASE Cancelled(d)
  <2>1. CASE ReleaseLaunch(d)
    BY <1>1, <2>1 DEF Cancelled, ReleaseLaunch, Launching
  <2>2. CASE LeaveLaunchQueue(d)
    BY <1>1, <2>2 DEF Cancelled, LeaveLaunchQueue
  <2>3. CASE AbandonLanding(d)
    BY <1>1, <2>3 DEF Cancelled, AbandonLanding, OnLadder
  <2>4. CASE ReturnLanding(d)
    BY <1>1, <2>4 DEF Cancelled, ReturnLanding
  <2>5. CASE OutOfSlots(d)
    BY <1>1, <2>5 DEF Cancelled, OutOfSlots
  <2> QED
    BY <1>1, <2>1, <2>2, <2>3, <2>4, <2>5 DEF Cancelled
<1>2. CASE CancelSwallowed(d)
  BY <1>2 DEF CancelSwallowed
<1> QED
  BY <1>1, <1>2

\* An agent's step touches no other drone: the agents only share the slots
\* and the stop event.
LEMMA AgentFrame ==
  ASSUME MissionInv, NEW d \in Drones, AgentStep(d), NEW b \in Drones \ {d}
  PROVE  Same(b)
<1> USE DEF MissionInv, SafetyInv, TypeOK, AgentTypeOK, SafetyTypeOK,
        AgentLocalTypeOK, Same, Goto,
        safeVars, latchVars, outside, agentLocal, controller, launchVars, landingVars
<1>1. /\ launch'[b] = launch[b] /\ landing'[b] = landing[b]
      /\ b \in tripTask' <=> b \in tripTask
  <2>1. CASE LaunchStep(d) \/ LandingStep(d)
    BY <2>1, ControllerFrame
  <2>2. CASE UNCHANGED controller
    BY <2>2
  <2>3. LaunchStep(d) \/ LandingStep(d) \/ UNCHANGED controller
    BY DEF AgentStep, Tick, Answer, LaunchStep, LandingStep, LadderStep,
       Answered,
       Connect, ConnectFails, TickFails, TickCrashes, StartWait, StartMove,
       WindDown, GuardLandsThis, GuardLandsAll, FinalDescent, StartTakeoff,
       StartLand, WaitEnds, MoveEnds, LaunchSlotAcquired, LaunchSlotRefused,
       LiftsOff, TakeoffDone, TakeoffFails, LandingProgress, LandReturns,
       LandRaises, EmergencyAnswers, Safed, Cancelled, CancelSwallowed,
       OutOfSlots
  <2> QED
    BY <2>1, <2>2, <2>3
<1>2. CASE Tick(d)
  BY <1>1, <1>2 DEF Tick, Connect, ConnectFails, TickFails, TickCrashes,
     StartWait, StartMove, WindDown, GuardLandsThis, GuardLandsAll,
     FinalDescent, Finish,
     StartTakeoff, StartLand, CommandFails, Fail, Crash, CommandEmergency
<1>3. CASE Answer(d)
  BY <1>1, <1>3 DEF Answer, WaitEnds, MoveEnds, LaunchSlotAcquired,
     LaunchSlotRefused, LiftsOff, TakeoffDone, TakeoffFails, LandingProgress,
     LandReturns, LandRaises, EmergencyAnswers, Safed, Believe, CommandFails,
     Fail, Crash, Finish, CommandEmergency
<1>4. CASE Cancelled(d) \/ CancelSwallowed(d)
  BY <1>1, <1>4 DEF Cancelled, CancelSwallowed
<1> QED
  BY <1>2, <1>3, <1>4 DEF AgentStep

-----------------------------------------------------------------------------
(***************************************************************************)
(* The steps of an agent preserve the invariant.                           *)
(***************************************************************************)
\* The drone that moves is left in order, the others are left alone, and what
\* the reconciliation has settled stays settled.
LEMMA AgentRunsPreserve ==
  ASSUME MissionInv, NEW d \in Drones, AgentRuns(d)
  PROVE  MissionInv'
<1>1. AgentStep(d) /\ UNCHANGED <<mission, abortKey>>
  BY DEF AgentRuns
<1>2. Effect(d)
  BY <1>1, TickEffect, AnswerEffect, CancelEffect DEF AgentStep
<1>3. \A b \in Drones \ {d} : Same(b)
  BY <1>1, AgentFrame
<1>4. SafetyInv'
  BY <1>1, AgentUsesController, SafetyInductive DEF MissionInv
<1>5. TypeOK'
  BY <1>1, <1>2, <1>4 DEF Effect, SafetyInv, MissionInv, TypeOK, AgentTypeOK,
     mission
<1>6. ASSUME NEW b \in Drones PROVE DroneInv(b)'
  <2>1. CASE b = d
    BY <1>2, <2>1 DEF Effect
  <2>2. CASE b # d
    BY <1>3, <2>2 DEF MissionInv, DroneInv, Same, Alive
  <2> QED
    BY <2>1, <2>2
<1>7. ASSUME NEW b \in Drones, Settled(b) PROVE Settled(b)'
  <2>1. CASE b = d
    BY <1>2, <1>7, <2>1 DEF Effect, Settled
  <2>2. CASE b # d
    BY <1>3, <1>7, <2>2 DEF Same, Settled, Alive
  <2> QED
    BY <2>1, <2>2
<1>8. ShutdownInv'
  BY <1>1, <1>7 DEF ShutdownInv, MissionInv, mission
<1> QED
  BY <1>4, <1>5, <1>6, <1>8 DEF MissionInv

-----------------------------------------------------------------------------
(***************************************************************************)
(* The steps of the orchestrator and of what is around it.                 *)
(***************************************************************************)
\* The steps that touch no drone.
Drift == UNCHANGED <<controller, pc, safeVars, latchVars, airborne, flying>>

\* Such a step preserves whatever is said of the drones.
LEMMA DriftPreserves ==
  ASSUME MissionInv, Drift, TypeOK', ShutdownInv'
  PROVE  MissionInv'
<1>1. SafetyInv'
  BY SafetyInductive DEF MissionInv, Drift
<1>2. \A b \in Drones : DroneInv(b)'
  BY DEF MissionInv, Drift, DroneInv, Alive, safeVars, latchVars, controller
<1> QED
  BY <1>1, <1>2 DEF MissionInv

\* The supervision, its end, the interrupts, the clock and the abort key.
LEMMA SupervisionPreserves ==
  ASSUME MissionInv,
         \/ \E ownCause \in BOOLEAN : Beat(ownCause)
         \/ SupervisionEnds \/ Interrupt \/ Reap \/ ReconcileEnds \/ Return
         \/ ClockAdvances \/ AbortKey \/ AbortWakeup \/ Over
  PROVE  MissionInv'
<1> USE DEF MissionInv, TypeOK, AgentTypeOK, SafetyTypeOK, AgentLocalTypeOK,
        ShutdownInv, Settled, Alive, Drift, agentVars, agentLocal, mission,
        controller, safeVars, latchVars
<1>1. CASE \E ownCause \in BOOLEAN : Beat(ownCause)
  BY <1>1, DriftPreserves DEF Beat
<1>2. CASE SupervisionEnds
  BY <1>2, DriftPreserves DEF SupervisionEnds, Settle, Pending
<1>3. CASE Interrupt
  BY <1>3, DriftPreserves DEF Interrupt, Settle, Pending
<1>4. CASE Reap
  BY <1>4, DriftPreserves DEF Reap
<1>5. CASE ReconcileEnds
  BY <1>5, DriftPreserves DEF ReconcileEnds
<1>6. CASE Return
  BY <1>6, DriftPreserves DEF Return
<1>7. CASE ClockAdvances
  BY <1>7, DriftPreserves DEF ClockAdvances
<1>8. CASE AbortKey
  BY <1>8, DriftPreserves DEF AbortKey
<1>9. CASE AbortWakeup
  BY <1>9, DriftPreserves DEF AbortWakeup
<1>10. CASE Over
  BY <1>10, DriftPreserves DEF Over, vars
<1> QED
  BY <1>1, <1>2, <1>3, <1>4, <1>5, <1>6, <1>7, <1>8, <1>9, <1>10

\* Reconciliation and shutdown: the agent they look at is settled afterwards.
LEMMA SafeDownPreserves ==
  ASSUME MissionInv, NEW d \in Drones,
         Reconcile(d) \/ Shutdown(d) \/ SafeDownAnswered(d)
  PROVE  MissionInv'
<1> USE DEF MissionInv, TypeOK, AgentTypeOK, SafetyTypeOK, AgentLocalTypeOK,
        Alive, SafeDown, CommandEmergency, Believe, Ended, Between, outside,
        safeVars, latchVars
<1>1. SafetyInv'
  BY SafetyInductive DEF Reconcile, Shutdown, SafeDownAnswered
<1>2. CASE Reconcile(d)
  <2>1. TypeOK'
    BY <1>1, <1>2 DEF Reconcile, SafetyInv
  <2>2. \A b \in Drones : DroneInv(b)'
    BY <1>2 DEF Reconcile, DroneInv, controller
  <2>3. ShutdownInv'
    BY <1>2 DEF Reconcile, ShutdownInv, Settled, DroneInv
  <2> QED
    BY <1>1, <2>1, <2>2, <2>3
<1>3. CASE Shutdown(d)
  <2>1. TypeOK'
    BY <1>1, <1>3 DEF Shutdown, SafetyInv
  <2>2. \A b \in Drones : DroneInv(b)'
    BY <1>3 DEF Shutdown, DroneInv, controller
  <2>3. ShutdownInv'
    BY <1>3 DEF Shutdown, ShutdownInv, Settled
  <2> QED
    BY <1>1, <2>1, <2>2, <2>3
<1>4. CASE SafeDownAnswered(d)
  <2>1. TypeOK'
    BY <1>1, <1>4 DEF SafeDownAnswered, SafetyInv
  <2>2. \A b \in Drones : DroneInv(b)'
    BY <1>4 DEF SafeDownAnswered, DroneInv, controller
  <2>3. ShutdownInv'
    BY <1>4 DEF SafeDownAnswered, ShutdownInv, Settled
  <2> QED
    BY <1>1, <2>1, <2>2, <2>3
<1> QED
  BY <1>2, <1>3, <1>4

\* asyncio.run() ends every task that is left.
LEMMA LoopClosesPreserves ==
  ASSUME MissionInv, LoopCloses
  PROVE  MissionInv'
<1> USE DEF MissionInv, TypeOK, AgentTypeOK, SafetyTypeOK, AgentLocalTypeOK,
        LoopCloses, Alive, Ended
<1>1. SafetyInv'
  BY SafetyInductive DEF SafetyNext
<1>2. TypeOK'
  BY <1>1 DEF SafetyInv
<1>3. \A b \in Drones : DroneInv(b)'
  BY DEF DroneInv, CancelAll, Between, OnLadder
<1>4. ShutdownInv'
  BY DEF ShutdownInv
<1> QED
  BY <1>1, <1>2, <1>3, <1>4

-----------------------------------------------------------------------------
(***************************************************************************)
(* The theorems.                                                           *)
(***************************************************************************)
\* A mission that has not begun satisfies the invariant.
LEMMA MissionInitial == Init => MissionInv
<1> SUFFICES ASSUME Init PROVE MissionInv
  OBVIOUS
<1>1. SafetyInv
  BY SafetyInitial DEF Init, AgentInit
<1>2. TypeOK
  BY <1>1 DEF SafetyInv, TypeOK, AgentTypeOK, AgentLocalTypeOK, Init,
     AgentInit
<1>3. (\A d \in Drones : DroneInv(d)) /\ ShutdownInv
  BY DEF Init, AgentInit, SafetyInit, DroneInv, ShutdownInv, Alive, Ended,
     Between
<1> QED
  BY <1>1, <1>2, <1>3 DEF MissionInv

\* The invariant is inductive.
LEMMA MissionInductive == MissionInv /\ [Next]_vars => MissionInv'
<1> SUFFICES ASSUME MissionInv, [Next]_vars PROVE MissionInv'
  OBVIOUS
<1>1. ASSUME NEW d \in Drones, AgentRuns(d) PROVE MissionInv'
  BY <1>1, AgentRunsPreserve
<1>2. CASE OrchStep
  BY <1>2, SupervisionPreserves, SafeDownPreserves, LoopClosesPreserves
     DEF OrchStep
<1>3. CASE Interrupt \/ ClockAdvances \/ AbortKey \/ AbortWakeup \/ Over
  BY <1>3, SupervisionPreserves
<1>4. CASE UNCHANGED vars
  <2>1. TypeOK' /\ ShutdownInv'
    BY <1>4 DEF MissionInv, TypeOK, AgentTypeOK, SafetyTypeOK,
       AgentLocalTypeOK, ShutdownInv, Settled, Alive, vars, agentVars,
       agentLocal, controller
  <2> QED
    BY <1>4, <2>1, DriftPreserves DEF Drift, vars, agentVars, agentLocal,
       safeVars, latchVars
<1> QED
  BY <1>1, <1>2, <1>3, <1>4 DEF Next

\* The inductive invariant holds throughout a mission.
THEOREM MissionInvariant == Spec => []MissionInv
BY MissionInitial, MissionInductive, PTL DEF Spec

\* Every variable of the mission has its type, at every step.
THEOREM MissionTypeCorrect == Spec => []TypeOK
<1>1. MissionInv => TypeOK
  BY DEF MissionInv
<1> QED
  BY <1>1, MissionInvariant, PTL

\* Whatever the fleet and the faults, run() never ends with a drone in the air
\* whose emergency_land was not commanded.
THEOREM MissionForgetsNoDrone == Spec => []NoDroneForgotten
<1>1. MissionInv => NoDroneForgotten
  BY DEF MissionInv, TypeOK, AgentTypeOK, AgentLocalTypeOK, ShutdownInv,
     Settled, NoDroneForgotten
<1> QED
  BY <1>1, MissionInvariant, PTL

\* Reconciliation leaves shutdown() no drone to land that was not commanded
\* down already.
THEOREM MissionShutdownLandsNothing == Spec => []ShutdownLandsNothing
<1>1. MissionInv => ShutdownLandsNothing
  BY DEF MissionInv, TypeOK, AgentTypeOK, AgentLocalTypeOK, ShutdownInv,
     Settled, ShutdownLandsNothing
<1> QED
  BY <1>1, MissionInvariant, PTL

\* The exactly-once promise of emergency_land, across the agent's own failure
\* path, the reconciliation and shutdown(): however many of them find the drone
\* to be safed, and while the first command is still in flight, it is commanded
\* once, and once for every drone that FAILED.
THEOREM MissionCommandsEmergencyOnce == Spec => []EmergencyOnce
<1>1. ASSUME MissionInv, NEW d \in Drones
      PROVE  /\ commanded[d] <= 1
             /\ d \in latched \/ state[d] = "FAILED" => commanded[d] = 1
  <2>1. /\ commanded[d] = IF d \in latched THEN 1 ELSE 0
        /\ state[d] = "FAILED" => d \in latched
    BY <1>1 DEF MissionInv, DroneInv
  <2>2. CASE d \in latched
    BY <2>1, <2>2
  <2>3. CASE d \notin latched
    BY <2>1, <2>3
  <2> QED
    BY <2>2, <2>3
<1>2. MissionInv => EmergencyOnce
  BY <1>1 DEF EmergencyOnce
<1> QED
  BY <1>2, MissionInvariant, PTL

\* Every step of the mission is one the SafetyController expects.
LEMMA MissionControllerStep ==
  MissionInv /\ [Next]_vars => [SafetyNext]_controller
<1> SUFFICES ASSUME MissionInv, [Next]_vars PROVE [SafetyNext]_controller
  OBVIOUS
<1>1. CASE \E d \in Drones : AgentRuns(d)
  BY <1>1, AgentUsesController DEF AgentRuns
<1>2. CASE LoopCloses
  BY <1>2 DEF LoopCloses, SafetyNext
<1>3. CASE UNCHANGED vars
  BY <1>3 DEF vars, agentVars
<1>4. CASE \/ \E ownCause \in BOOLEAN : Beat(ownCause)
           \/ SupervisionEnds \/ Interrupt \/ Reap \/ ReconcileEnds
           \/ Return \/ ClockAdvances \/ AbortKey \/ AbortWakeup \/ Over
           \/ \E d \in Drones : Reconcile(d) \/ Shutdown(d)
                                  \/ SafeDownAnswered(d)
  BY <1>4 DEF Beat, SupervisionEnds, Interrupt, Settle, Reap, ReconcileEnds,
     Return, ClockAdvances, AbortKey, AbortWakeup, Over, Reconcile, Shutdown,
     SafeDownAnswered, vars, agentVars
<1> QED
  BY <1>1, <1>2, <1>3, <1>4 DEF Next, OrchStep

\* The mission implements SafetyController.tla's specification: agents, trips,
\* cancellations and the end of asyncio.run() call the controller as its
\* clients should, so that every theorem about it holds in a mission.
THEOREM MissionUsesController == Spec => UsesSafetyController
<1>1. Init => SafetyInit
  BY DEF Init, AgentInit
<1> QED
  BY <1>1, MissionControllerStep, MissionInvariant, PTL
     DEF Spec, UsesSafetyController, SafetySpec

\* In a whole mission too, each slot is the abstract corridor: at most one
\* drone at a time takes off, and at most one descends.
THEOREM MissionKeepsCorridor ==
  Spec => LaunchIsCorridor /\ LandingIsCorridor
BY MissionUsesController, LaunchSlotImplementsCorridor,
   LandingSlotImplementsCorridor, PTL DEF UsesSafetyController

-----------------------------------------------------------------------------
(***************************************************************************)
(* Who stopped the mission.                                                *)
(***************************************************************************)
Tripped == \E d \in Drones : pendingTrip[d] = "all"

\* While the loop supervises, a stop has a cause: a trip, one that is already
\* logged, or the abort key, which any look at the abort event finds.  After
\* it the stop is set, so that no guard trips once the cause is attributed.
AttributionInv ==
  /\ Tripped => stop
  /\ stop /\ orch = "supervise" =>
       Tripped \/ stopLog # {} \/ abortKey # "idle"
  /\ orch # "supervise" => stop
  /\ StopAttributed

\* What an agent's step does to the trips and to the stop event.
LEMMA AgentTrips ==
  ASSUME NEW d \in Drones, AgentStep(d)
  PROVE  \/ UNCHANGED <<pendingTrip, stop>>
         \/ Acting(d) /\ pendingTrip' = [pendingTrip EXCEPT ![d] = "this"]
                      /\ UNCHANGED stop
         \/ Acting(d) /\ pendingTrip' = [pendingTrip EXCEPT ![d] = "all"]
                      /\ stop'
<1> USE DEF outside
<1>1. CASE Tick(d)
  BY <1>1 DEF Tick, Connect, ConnectFails, TickFails, TickCrashes, StartWait,
     StartMove, WindDown, GuardLandsThis, GuardLandsAll, StartTakeoff,
     StartLand
<1>2. CASE Answer(d)
  BY <1>2 DEF Answer, WaitEnds, MoveEnds, LaunchSlotAcquired, agentLocal,
     LaunchSlotRefused, LiftsOff, TakeoffDone, TakeoffFails,
     LandingProgress, LandReturns, LandRaises, EmergencyAnswers, Safed
<1>3. CASE Cancelled(d) \/ CancelSwallowed(d)
  BY <1>3 DEF Cancelled, CancelSwallowed
<1> QED
  BY <1>1, <1>2, <1>3 DEF AgentStep

\* The invariant of the attribution is inductive, relative to MissionInv.
LEMMA AttributionInductive ==
  ASSUME MissionInv, AttributionInv, [Next]_vars
  PROVE  AttributionInv'
<1> USE DEF AttributionInv, StopAttributed, Tripped
<1>1. CASE \E d \in Drones : AgentRuns(d)
  <2>1. PICK d \in Drones : AgentRuns(d)
    BY <1>1
  <2>2. AgentStep(d) /\ UNCHANGED <<orch, stopLog, abortKey>>
    BY <2>1 DEF AgentRuns, mission
  <2>3. pendingTrip \in [Drones -> {"none", "this", "all"}]
    BY DEF MissionInv, TypeOK, AgentTypeOK, AgentLocalTypeOK
  <2> QED
    BY <2>2, <2>3, AgentTrips DEF Acting
<1>2. CASE \E ownCause \in BOOLEAN : Beat(ownCause)
  BY <1>2 DEF Beat, AbortSeen, agentLocal
<1>3. CASE SupervisionEnds \/ Interrupt
  BY <1>3 DEF SupervisionEnds, Interrupt, Settle, agentVars, agentLocal
<1>4. CASE AbortKey \/ AbortWakeup \/ ClockAdvances
  BY <1>4 DEF AbortKey, AbortWakeup, ClockAdvances, mission, agentVars,
     agentLocal
<1>5. CASE Reap \/ ReconcileEnds \/ Return \/ LoopCloses \/ Over
           \/ UNCHANGED vars
  BY <1>5 DEF Reap, ReconcileEnds, Return, LoopCloses, Over, vars, agentVars,
     agentLocal
<1>6. CASE \E d \in Drones : Reconcile(d) \/ Shutdown(d)
                               \/ SafeDownAnswered(d)
  BY <1>6 DEF Reconcile, Shutdown, SafeDownAnswered, outside
<1> QED
  BY <1>1, <1>2, <1>3, <1>4, <1>5, <1>6 DEF Next, OrchStep

\* The forensic record never blames the agents for a stop they did not cause,
\* and never leaves a tripped LAND_ALL without an attribution.
THEOREM MissionAttributesStop == Spec => []StopAttributed
<1>1. Init => AttributionInv
  BY DEF Init, AgentInit, AttributionInv, StopAttributed, Tripped
<1>2. AttributionInv => StopAttributed
  BY DEF AttributionInv
<1> QED
  BY <1>1, <1>2, AttributionInductive, MissionInvariant, PTL DEF Spec

-----------------------------------------------------------------------------
(***************************************************************************)
(* The exit code.  It tells the truth as long as no cancellation is lost:  *)
(* a drone that the reconciliation safed is then no agent's any more.      *)
(***************************************************************************)
KeptInv ==
  /\ \A d \in Drones : Alive(d) /\ d \in latched => pc[d] = "safing"
  /\ \A d \in Drones : state[d] = "DONE" => d \notin flying
  /\ orch # "supervise" => \A d \in Drones : Alive(d) => d \in cancelReq
  /\ orch \in {"reconcile", "shutdown", "returned", "raised"} =>
       \A d \in Drones : ~Alive(d)
  /\ exitCode = 0 =>
       orch \in {"returned", "closed"} /\ \A d \in Drones : state[d] = "DONE"

\* What a step of d's agent does to this.
KeptEffect(d) ==
  /\ Alive(d)' /\ d \in latched' => pc'[d] = "safing"
  /\ state'[d] = "DONE" => d \notin flying'
  /\ Alive(d)' /\ d \in cancelReq => d \in cancelReq'
  /\ ~Alive(d) => ~Alive(d)' /\ state'[d] = state[d]

\* The last statements of run() are only reached by a drone on the ground.
LEMMA AgentKeeps ==
  ASSUME MissionInv, KeptInv, "swallow" \notin Faults,
         NEW d \in Drones, AgentStep(d)
  PROVE  KeptEffect(d)
<1> USE DEF MissionInv, SafetyInv, TypeOK, AgentTypeOK, SafetyTypeOK,
        AgentLocalTypeOK, KeptInv, KeptEffect, DroneInv, Alive, At, Ended, Goto,
        Between, safeVars, latchVars, outside, agentLocal, controller
<1>1. CASE Connect(d) \/ ConnectFails(d) \/ TickFails(d) \/ TickCrashes(d)
  BY <1>1 DEF Connect, ConnectFails, TickFails, TickCrashes, Acting, CommandFails,
              Fail, Crash, CommandEmergency
<1>2. CASE StartWait(d) \/ StartMove(d) \/ StartTakeoff(d) \/ StartLand(d)
  BY <1>2 DEF StartWait, StartMove, StartTakeoff, StartLand, Acting
<1>3. CASE WindDown(d) \/ GuardLandsThis(d) \/ GuardLandsAll(d)
  BY <1>3 DEF WindDown, GuardLandsThis, GuardLandsAll, Acting, FinalDescent, Finish
<1>4. CASE WaitEnds(d) \/ MoveEnds(d)
  BY <1>4 DEF WaitEnds, MoveEnds, CommandFails, Fail, Crash, CommandEmergency
<1>5. CASE LaunchSlotAcquired(d) \/ LaunchSlotRefused(d) \/ LiftsOff(d)
  BY <1>5 DEF LaunchSlotAcquired, LaunchSlotRefused, LiftsOff, CommandFails, Fail,
              Crash, CommandEmergency
<1>6. CASE TakeoffDone(d) \/ TakeoffFails(d)
  BY <1>6 DEF TakeoffDone, TakeoffFails, CommandFails, Fail, Crash, CommandEmergency
<1>7. CASE LandingProgress(d)
  BY <1>7 DEF LandingProgress
<1>8. CASE LandReturns(d)
  BY <1>8 DEF LandReturns, Finish, Crash
<1>9. CASE LandRaises(d)
  BY <1>9 DEF LandRaises, CommandFails, Fail, Crash, CommandEmergency
<1>10. CASE EmergencyAnswers(d) \/ Safed(d)
  BY <1>10 DEF EmergencyAnswers, Safed
<1>11. CASE Cancelled(d)
  BY <1>11 DEF Cancelled
<1> QED
  BY <1>1, <1>2, <1>3, <1>4, <1>5, <1>6, <1>7, <1>8, <1>9, <1>10, <1>11
     DEF AgentStep, Tick, Answer, CancelSwallowed

LEMMA KeptInductive ==
  ASSUME MissionInv, KeptInv, "swallow" \notin Faults, [Next]_vars
  PROVE  KeptInv'
<1> USE DEF Alive, Ended
<1>1. ASSUME NEW d \in Drones, AgentRuns(d) PROVE KeptInv'
  <2>1. AgentStep(d) /\ UNCHANGED <<orch, exitCode>> /\ KeptEffect(d)
    BY <1>1, AgentKeeps DEF AgentRuns, mission
  <2>2. \A b \in Drones \ {d} : Same(b) /\ cancelReq' \in SUBSET Drones
    BY <2>1, AgentFrame, <1>1, AgentRunsPreserve
    DEF MissionInv, TypeOK, AgentTypeOK, AgentLocalTypeOK
  <2>3. \A b \in Drones \ {d} : b \in cancelReq => b \in cancelReq'
    <3>1. cancelReq' = cancelReq \/ cancelReq' = cancelReq \ {d}
      BY <2>1
      DEF AgentStep, Tick, Answer, Connect, ConnectFails, TickFails, TickCrashes,
          StartWait, StartMove, WindDown, GuardLandsThis, GuardLandsAll, FinalDescent,
          StartTakeoff, StartLand, WaitEnds, MoveEnds, LaunchSlotAcquired,
          LaunchSlotRefused, LiftsOff, TakeoffDone, TakeoffFails, LandingProgress,
          LandReturns, LandRaises, EmergencyAnswers, Safed, Cancelled,
          CancelSwallowed, outside, agentLocal
    <3> QED
      BY <3>1
  <2>4. orch # "closed"
    BY <1>1 DEF AgentRuns
  <2>5. ASSUME NEW b \in Drones
        PROVE  /\ Alive(b)' /\ b \in latched' => pc'[b] = "safing"
               /\ state'[b] = "DONE" => b \notin flying'
               /\ orch' # "supervise" /\ Alive(b)' => b \in cancelReq'
               /\ ~Alive(b) => ~Alive(b)' /\ state'[b] = state[b]
    <3>1. CASE b = d
      BY <2>1, <3>1 DEF KeptInv, KeptEffect
    <3>2. CASE b # d
      BY <2>1, <2>2, <2>3, <3>2 DEF KeptInv, Same
    <3> QED
      BY <3>1, <3>2
  <2> QED
    BY <2>1, <2>4, <2>5 DEF KeptInv
<1>2. CASE \E d \in Drones : Reconcile(d) \/ Shutdown(d) \/ SafeDownAnswered(d)
  <2>1. orch \in {"reconcile", "shutdown"} /\ UNCHANGED <<pc, flying, cancelReq,
                                                         orch, exitCode>>
    BY <1>2 DEF Reconcile, Shutdown, SafeDownAnswered, outside
  <2>2. \A d \in Drones : state'[d] = state[d] \/ state'[d] = "FAILED"
    <3>1. state \in [Drones -> {"INIT", "RUNNING", "LANDING", "DONE", "FAILED"}]
      BY DEF MissionInv, TypeOK, AgentTypeOK, AgentLocalTypeOK
    <3> QED
      BY <1>2, <3>1 DEF Reconcile, Shutdown, SafeDownAnswered, safeVars, latchVars,
                        outside
  <2> QED
    BY <2>1, <2>2 DEF KeptInv
<1>3. CASE SupervisionEnds \/ Interrupt
  BY <1>3 DEF KeptInv, SupervisionEnds, Interrupt, Settle, Pending, safeVars, latchVars,
              agentVars, agentLocal
<1>4. CASE Reap
  BY <1>4 DEF KeptInv, Reap, Pending, agentVars, agentLocal
<1>5. CASE ReconcileEnds
  BY <1>5 DEF KeptInv, ReconcileEnds, agentVars, agentLocal
<1>6. CASE Return
  <2>1. UNCHANGED <<pc, state, latched, flying, cancelReq>>
    BY <1>6 DEF Return, agentVars, agentLocal, controller, safeVars, latchVars, outside
  <2>2. orch = "shutdown" /\ orch' \in {"returned", "raised"}
    BY <1>6 DEF Return
  <2>3. exitCode # 0
    BY <2>2 DEF KeptInv
  <2>4. exitCode' = 0 =>
          orch' = "returned" /\ \A d \in Drones : state[d] = "DONE"
    BY <1>6, <2>3 DEF Return
  <2> QED
    BY <2>1, <2>2, <2>4 DEF KeptInv
<1>7. CASE LoopCloses
  <2>1. orch' = "closed" /\ UNCHANGED <<state, flying, latched, exitCode>>
    BY <1>7 DEF LoopCloses
  <2>2. pc' = [d \in Drones |-> IF Alive(d) THEN "cancelled" ELSE pc[d]]
    BY <1>7 DEF LoopCloses
  <2>3. \A d \in Drones : ~Alive(d)'
    BY <2>2
  <2> QED
    BY <2>1, <2>3 DEF KeptInv
<1>8. CASE UNCHANGED <<pc, state, latched, flying, cancelReq, orch, exitCode>>
  BY <1>8 DEF KeptInv
<1>9. (\E ownCause \in BOOLEAN : Beat(ownCause)) \/ ClockAdvances \/ AbortKey
        \/ AbortWakeup \/ Over \/ UNCHANGED vars
      => UNCHANGED <<pc, state, latched, flying, cancelReq, orch, exitCode>>
  BY DEF Beat, ClockAdvances, AbortKey, AbortWakeup, Over, vars, agentVars,
         agentLocal, mission
<1> QED
  BY <1>1, <1>2, <1>3, <1>4, <1>5, <1>6, <1>7, <1>8, <1>9 DEF Next, OrchStep

\* Unless a cancellation is lost, exit code 0 is only reported with every drone
\* on the ground, for any fleet and whatever else fails.
THEOREM MissionCleanExit ==
  ASSUME "swallow" \notin Faults
  PROVE  Spec => []CleanExitMeansGrounded
<1>1. Init => KeptInv
  BY DEF Init, AgentInit, KeptInv, Alive, Ended
<1>2. MissionInv /\ KeptInv /\ [Next]_vars => KeptInv'
  BY KeptInductive
<1>3. MissionInv /\ KeptInv => CleanExitMeansGrounded
  BY DEF MissionInv, TypeOK, AgentTypeOK, AgentLocalTypeOK, KeptInv,
         CleanExitMeansGrounded
<1> QED
  BY <1>1, <1>2, <1>3, MissionInvariant, PTL DEF Spec
=============================================================================
