----------------------------- MODULE DroneAgent -----------------------------
(***************************************************************************)
(* finals.mission.agent.DroneAgent: one drone's life as one coroutine.     *)
(* Connect, step the phases (each step may issue one flight command and    *)
(* await it), land, DONE; any typed failure commands emergency_land once,  *)
(* behind a latch, and is FAILED for good.  Every action below is the code *)
(* one agent task runs between two awaits, or one answer of its adapter.   *)
(*                                                                         *)
(* The phases are abstracted to what they may ask for: any of the actions  *)
(* of finals.types.Action, whenever the agent steps them.  Takeoffs and    *)
(* landings go through the slots of SafetyController, which this module    *)
(* extends.  stop, clock and cancelReq are driven by Orchestrator.tla.     *)
(***************************************************************************)
EXTENDS SafetyController

CONSTANT Faults     \* the faults and operator inputs the instance exercises:
  \* "log"     the event log cannot be written (EventLogError, full disk)
  \* "phase"   a phase raises outside the typed failures
  \* "hang"    emergency_land does not answer within its outer deadline
  \* "swallow" a cancellation is lost: wait_for returns the result of a
  \*           command that completed in the same turn of the loop
  \* "interrupt" Ctrl+C
  \* "abortkey" the operator's 'q'

ASSUME FaultsAssumption ==
  Faults \subseteq {"log", "phase", "hang", "swallow", "interrupt", "abortkey"}

VARIABLES
  pc,           \* pc[d]: the await the agent task is at, or how it ended
  state,        \* state[d]: AgentState (READY is left without an await)
  airborne,     \* drones whose agent believes they fly (_airborne)
  flying,       \* drones that do fly
  latched,      \* drones whose exactly-once latch is set
  emergency,    \* emergency[d]: the emergency_land call, the last one
  commanded,    \* commanded[d]: how many of them there were.  A history
                \* variable: no action reads it
  pendingTrip,  \* pendingTrip[d]: the guard trip that ends the mission for d
  cancelReq,    \* agent tasks with a requested, undelivered cancellation
  stop,         \* the shared stop event
  clock         \* "flying", "grace" past the budget, "over" past the grace

agentLocal == <<pc, state, airborne, flying, latched, emergency, commanded,
                pendingTrip, cancelReq>>
agentVars  == <<controller, agentLocal, stop, clock>>

latchVars == <<latched, emergency, commanded>>      \* what a command assigns
safeVars == <<state, latchVars>>                  \* what _fail() assigns
outside  == <<airborne, flying, pendingTrip, cancelReq, stop, clock>>

Ended == {"returned", "crashed", "cancelled"}
Alive(d) == pc[d] \notin Ended
\* The task runs on: it is at that await and no cancellation is pending.
At(d, label) == pc[d] = label /\ d \notin cancelReq

AgentLocalTypeOK ==
  /\ pc \in [Drones -> {"connecting", "tick", "waiting", "launching", "moving",
                        "landing", "final", "safing"} \union Ended]
  /\ state \in [Drones -> {"INIT", "RUNNING", "LANDING", "DONE", "FAILED"}]
  /\ airborne \subseteq Drones /\ flying \subseteq Drones
  /\ latched \subseteq Drones /\ cancelReq \subseteq Drones
  /\ emergency \in [Drones -> {"none", "running", "returned", "hung",
                               "killed"}]
  /\ commanded \in [Drones -> Nat]
  /\ pendingTrip \in [Drones -> {"none", "this", "all"}]
  /\ stop \in BOOLEAN /\ clock \in {"flying", "grace", "over"}

AgentTypeOK == SafetyTypeOK /\ AgentLocalTypeOK

AgentInit ==
  /\ SafetyInit
  /\ pc = [d \in Drones |-> "connecting"] /\ state = [d \in Drones |-> "INIT"]
  /\ airborne = {} /\ flying = {} /\ latched = {} /\ cancelReq = {}
  /\ emergency = [d \in Drones |-> "none"] /\ commanded = [d \in Drones |-> 0]
  /\ pendingTrip = [d \in Drones |-> "none"]
  /\ stop = FALSE /\ clock = "flying"

(***************************************************************************)
(* Ends of a step.  Goto keeps the coroutine going; Fail is _fail() up to  *)
(* its await; Crash is any exception that is not a typed flight failure.   *)
(***************************************************************************)
Goto(d, label) == pc' = [pc EXCEPT ![d] = label]

\* The latch decides whether emergency_land is commanded, by anyone.
CommandEmergency(d) ==
  /\ latched' = latched \union {d}
  /\ emergency' = [emergency EXCEPT ![d] = "running"]
  /\ commanded' = [commanded EXCEPT ![d] = @ + 1]

Fail(d) ==
  /\ state' = [state EXCEPT ![d] = "FAILED"]
  /\ IF d \in latched
     THEN Goto(d, "returned") /\ UNCHANGED latchVars
     ELSE Goto(d, "safing") /\ CommandEmergency(d)

Crash(d) == Goto(d, "crashed") /\ UNCHANGED safeVars

\* A failed command is logged (action_failed) before it reaches _fail(): if
\* that write raises, the EventLogError is what the coroutine sees.
CommandFails(d) == Fail(d) \/ ("log" \in Faults /\ Crash(d))

(***************************************************************************)
(* run(): connect, and the tick.                                           *)
(***************************************************************************)
Connect(d) ==
  /\ At(d, "connecting")
  /\ Goto(d, "tick") /\ state' = [state EXCEPT ![d] = "RUNNING"]
  /\ UNCHANGED <<controller, outside, latchVars>>

ConnectFails(d) ==
  /\ At(d, "connecting")
  /\ CommandFails(d)
  /\ UNCHANGED <<controller, outside>>

\* The last statements of run(): DONE, then the agent_done event.
Finish(d) ==
  /\ state' = [state EXCEPT ![d] = "DONE"]
  /\ Goto(d, "returned") \/ ("log" \in Faults /\ Goto(d, "crashed"))
  /\ UNCHANGED latchVars

\* The final descent: the landing a guard asked for (trip) or a normal one,
\* or nothing to land, unless the events that precede it cannot be written.
FinalDescent(d, trip) ==
  /\ \/ /\ d \in airborne /\ Goto(d, "final")
        /\ state' = [state EXCEPT ![d] = "LANDING"]
        /\ IF trip THEN CallTrip(d) ELSE CallLand(d)
        /\ UNCHANGED latchVars
     \/ d \notin airborne /\ Finish(d) /\ UNCHANGED controller
     \/ /\ "log" \in Faults /\ Goto(d, "crashed")
        /\ \E s \in {state[d], "LANDING"} : state' = [state EXCEPT ![d] = s]
        /\ UNCHANGED <<controller, latchVars>>
  /\ UNCHANGED <<airborne, flying, cancelReq, clock>>

\* The stop event, the deadline or the end of the phase queue.
WindDown(d) ==
  /\ At(d, "tick")
  /\ FinalDescent(d, FALSE)
  /\ UNCHANGED <<pendingTrip, stop>>

\* Only an agent that found neither stop nor deadline goes on to its guards
\* and its phase.
Acting(d) == At(d, "tick") /\ ~stop /\ clock = "flying"

GuardLandsThis(d) ==
  /\ Acting(d)
  /\ pendingTrip' = [pendingTrip EXCEPT ![d] = "this"]
  /\ FinalDescent(d, TRUE)
  /\ UNCHANGED stop

GuardLandsAll(d) ==
  /\ Acting(d)
  /\ pendingTrip' = [pendingTrip EXCEPT ![d] = "all"]
  /\ stop' = TRUE
  /\ FinalDescent(d, TRUE)

\* Stale or failing telemetry, or a phase that returns Abort.
TickFails(d) ==
  /\ Acting(d)
  /\ Fail(d)
  /\ UNCHANGED <<controller, outside>>

\* A phase raises, or one of the events of the tick cannot be written.
TickCrashes(d) ==
  /\ "phase" \in Faults \/ "log" \in Faults
  /\ Acting(d)
  /\ Crash(d)
  /\ UNCHANGED <<controller, outside>>

\* A Wait of the phase, or a HOLD_THIS guard instead of the phase.
StartWait(d) ==
  /\ Acting(d) /\ Goto(d, "waiting") /\ UNCHANGED safeVars
  /\ UNCHANGED <<controller, outside>>

\* Move, Rotate, Hover: the adapter refuses them on the ground.
StartMove(d) ==
  /\ Acting(d) /\ d \in airborne /\ Goto(d, "moving") /\ UNCHANGED safeVars
  /\ UNCHANGED <<controller, outside>>

StartTakeoff(d) ==
  /\ Acting(d) /\ d \notin airborne /\ Goto(d, "launching") /\ UNCHANGED safeVars
  /\ RequestLaunch(d)
  /\ UNCHANGED outside

StartLand(d) ==
  /\ Acting(d) /\ d \in airborne /\ Goto(d, "landing") /\ UNCHANGED safeVars
  /\ CallLand(d)
  /\ UNCHANGED outside

(***************************************************************************)
(* _execute() and _wait(): the command in flight, and its answers.         *)
(***************************************************************************)
WaitEnds(d) ==
  /\ At(d, "waiting") /\ Goto(d, "tick")
  /\ UNCHANGED <<controller, outside, safeVars>>

MoveEnds(d) ==
  /\ At(d, "moving")
  /\ \/ Goto(d, "tick") /\ UNCHANGED safeVars
     \/ "log" \in Faults /\ Crash(d)               \* action_complete
     \/ CommandFails(d)
  /\ UNCHANGED <<controller, outside>>

LaunchSlotAcquired(d) ==
  /\ At(d, "launching") /\ AcquireLaunch(d)
  /\ UNCHANGED <<agentLocal, stop, clock>>

LaunchSlotRefused(d) ==
  /\ At(d, "launching") /\ LeaveLaunchQueue(d)
  /\ CommandFails(d)
  /\ UNCHANGED outside

\* The drone leaves the ground some time before its takeoff is answered.
LiftsOff(d) ==
  /\ pc[d] = "launching" /\ Launching(d) /\ d \notin flying
  /\ flying' = flying \union {d}
  /\ UNCHANGED <<controller, pc, safeVars, airborne, pendingTrip, cancelReq,
                 stop, clock>>

\* Mutant of TakeoffDone: the launch slot is released on errors only.
TakeoffKeepsSlot(d) ==
  /\ At(d, "launching") /\ d \in flying /\ Launching(d)
  /\ airborne' = airborne \union {d}
  /\ Goto(d, "tick") /\ UNCHANGED safeVars
  /\ UNCHANGED <<controller, flying, pendingTrip, cancelReq, stop, clock>>

TakeoffDone(d) ==
  /\ At(d, "launching") /\ d \in flying /\ ReleaseLaunch(d)
  /\ airborne' = airborne \union {d}
  /\ \/ Goto(d, "tick") /\ UNCHANGED safeVars
     \/ "log" \in Faults /\ Crash(d)               \* action_complete
  /\ UNCHANGED <<flying, pendingTrip, cancelReq, stop, clock>>

TakeoffFails(d) ==
  /\ At(d, "launching") /\ ReleaseLaunch(d)
  /\ CommandFails(d)
  /\ UNCHANGED outside

\* The ladder runs in the agent's task unless a trip gave it its own.
LandingProgress(d) ==
  /\ d \notin cancelReq \/ d \in tripTask
  /\ LadderStep(d)
  /\ flying' = IF landing'[d] = "landed" THEN flying \ {d} ELSE flying
  /\ UNCHANGED <<pc, safeVars, airborne, pendingTrip, cancelReq, stop, clock>>

\* trip() keeps its finished task, land() just returns.
Answered(d) == IF d \in tripTask THEN UNCHANGED controller ELSE ReturnLanding(d)

LandReturns(d) ==
  /\ At(d, "landing") \/ At(d, "final")
  /\ landing[d] = "landed" /\ Answered(d)
  /\ airborne' = airborne \ {d}
  /\ \/ pc[d] = "landing" /\ Goto(d, "tick") /\ UNCHANGED safeVars
     \/ pc[d] = "final" /\ Finish(d)
     \/ "log" \in Faults /\ Crash(d)               \* action_complete
  /\ UNCHANGED <<flying, pendingTrip, cancelReq, stop, clock>>

LandRaises(d) ==
  /\ At(d, "landing") \/ At(d, "final")
  /\ landing[d] = "failed" /\ Answered(d)
  /\ CommandFails(d)
  /\ UNCHANGED outside

(***************************************************************************)
(* emergency_land: no slot, one answer.  The adapter swallows a failure of *)
(* the SDK, so an answer does not mean the drone is down.                  *)
(***************************************************************************)
EmergencyAnswers(d) ==
  /\ emergency[d] = "running"
  /\ \/ /\ emergency' = [emergency EXCEPT ![d] = "returned"]
        /\ flying' \in {flying, flying \ {d}}
     \/ /\ "hang" \in Faults
        /\ emergency' = [emergency EXCEPT ![d] = "hung"]
        /\ UNCHANGED flying
  /\ UNCHANGED <<controller, pc, state, airborne, latched, commanded,
                 pendingTrip, cancelReq, stop, clock>>

\* After an answer that is not a hang the agent no longer believes it flies.
Believe(d) ==
  airborne' = IF emergency[d] = "returned" THEN airborne \ {d} ELSE airborne

Safed(d) ==
  /\ At(d, "safing") /\ emergency[d] \in {"returned", "hung"}
  /\ Believe(d)
  /\ Goto(d, "returned") \/ ("log" \in Faults /\ Goto(d, "crashed"))
  /\ UNCHANGED <<controller, safeVars, flying, pendingTrip, cancelReq, stop,
                 clock>>

(***************************************************************************)
(* Cancellation: thrown into whatever the task awaits.  The slots are left *)
(* by their finally clauses; a shielded emergency_land or trip goes on.    *)
(***************************************************************************)
OutOfSlots(d) ==
  /\ launch[d] = "idle"
  /\ landing[d] = "idle" \/ d \in tripTask
  /\ UNCHANGED controller

Cancelled(d) ==
  /\ d \in cancelReq /\ Alive(d)
  /\ \/ ReleaseLaunch(d) \/ LeaveLaunchQueue(d)
     \/ AbandonLanding(d) \/ ReturnLanding(d) \/ OutOfSlots(d)
  /\ Goto(d, "cancelled")
  /\ cancelReq' = cancelReq \ {d}
  /\ UNCHANGED <<safeVars, airborne, flying, pendingTrip, stop, clock>>

\* Python 3.11: a wait_for whose command is done returns its result.
CancelSwallowed(d) ==
  /\ "swallow" \in Faults
  /\ d \in cancelReq
  /\ \/ pc[d] \in {"connecting", "waiting", "moving"}
     \/ pc[d] = "launching" /\ Launching(d)
     \/ pc[d] \in {"landing", "final"} /\ landing[d] = "attempt"
        /\ d \notin tripTask
  /\ cancelReq' = cancelReq \ {d}
  /\ UNCHANGED <<controller, pc, safeVars, airborne, flying, pendingTrip, stop,
                 clock>>

Tick(d) ==
  \/ Connect(d) \/ ConnectFails(d) \/ WindDown(d)
  \/ GuardLandsThis(d) \/ GuardLandsAll(d) \/ TickFails(d) \/ TickCrashes(d)
  \/ StartWait(d) \/ StartMove(d) \/ StartTakeoff(d) \/ StartLand(d)

Answer(d) ==
  \/ WaitEnds(d) \/ MoveEnds(d)
  \/ LaunchSlotAcquired(d) \/ LaunchSlotRefused(d) \/ LiftsOff(d)
  \/ TakeoffDone(d) \/ TakeoffFails(d)
  \/ LandingProgress(d) \/ LandReturns(d) \/ LandRaises(d)
  \/ EmergencyAnswers(d) \/ Safed(d)

AgentStep(d) == Tick(d) \/ Answer(d) \/ Cancelled(d) \/ CancelSwallowed(d)
=============================================================================
