-------------------------- MODULE SafetyController --------------------------
(***************************************************************************)
(* finals.guards.SafetyController: the one object through which every      *)
(* NORMAL takeoff and landing of the fleet passes.  Two asyncio semaphores *)
(* of one permit each serialise the shared C2 corridor, one for launches   *)
(* and one for descents; a descent is a ladder of at most MaxAttempts land *)
(* commands inside a wall-clock window; a guard trip runs the descent in a *)
(* task of its own that survives the cancellation of its caller; a ladder  *)
(* that gives up is escalated and never tried again.                       *)
(*                                                                         *)
(* Every step is the code between two awaits.  asyncio hands a permit to   *)
(* its waiters in FIFO order; here any waiter may get it, which allows     *)
(* every order the library does.  The callers are the agents, one call at  *)
(* a time per drone; DroneAgent.tla extends this module with them.         *)
(***************************************************************************)
EXTENDS Integers

CONSTANTS
  Drones,     \* the fleet
  Window,     \* land_retry_window_s: wall-clock budget of one ladder
  Period,     \* land_retry_period_s: the sleep between two attempts
  Outer       \* command_timeout_s + command_grace_s: bound of one attempt

\* The constructor refuses anything else (_check_threshold, window < period).
ASSUME TimingAssumption ==
  /\ Window \in Nat /\ Period \in Nat \ {0} /\ Outer \in Nat
  /\ Window >= Period

VARIABLES
  launchPermits,  \* value of the launch semaphore
  launch,         \* launch[d]: the drone's use of launch_slot()
  landPermits,    \* value of the landing semaphore
  landing,        \* landing[d]: the drone's call of land(), direct or tripped
  attempts,       \* attempts[d]: land commands issued by the current ladder
  elapsed,        \* elapsed[d]: seconds since the ladder's t_start
  tripTask,       \* the drones whose descent runs as a trip task
  escalated       \* the drones whose ladder gave up (_escalations)

controller == <<launchPermits, launch, landPermits, landing, attempts, elapsed,
                tripTask, escalated>>
launchVars  == <<launchPermits, launch>>
landingVars == <<landPermits, landing, attempts, elapsed, tripTask, escalated>>

\* max(1, ceil(window / period)); Window >= Period makes the max redundant.
MaxAttempts == (Window + Period - 1) \div Period

OnLadder(d)  == landing[d] \in {"attempt", "pause"}   \* inside the landing slot
Launching(d) == launch[d] = "holding"                 \* inside the launch slot

SafetyTypeOK ==
  /\ launchPermits \in Nat /\ landPermits \in Nat
  /\ launch \in [Drones -> {"idle", "queued", "holding"}]
  /\ landing \in [Drones -> {"idle", "queued", "attempt", "pause", "landed",
                             "failed", "killed"}]
  /\ attempts \in [Drones -> 0..MaxAttempts]
  /\ elapsed \in [Drones -> Nat]
  /\ tripTask \subseteq Drones /\ escalated \subseteq Drones

SafetyInit ==
  /\ launchPermits = 1 /\ launch = [d \in Drones |-> "idle"]
  /\ landPermits = 1   /\ landing = [d \in Drones |-> "idle"]
  /\ attempts = [d \in Drones |-> 0] /\ elapsed = [d \in Drones |-> 0]
  /\ tripTask = {} /\ escalated = {}

(***************************************************************************)
(* launch_slot(): `async with` around one takeoff.                         *)
(***************************************************************************)
\* Semaphore.acquire() takes a free permit without yielding, else queues.
RequestLaunch(d) ==
  /\ launch[d] = "idle"
  /\ \/ /\ launchPermits > 0
        /\ launchPermits' = launchPermits - 1
        /\ launch' = [launch EXCEPT ![d] = "holding"]
     \/ /\ launchPermits = 0
        /\ launch' = [launch EXCEPT ![d] = "queued"]
        /\ UNCHANGED launchPermits
  /\ UNCHANGED landingVars

AcquireLaunch(d) ==
  /\ launch[d] = "queued" /\ launchPermits > 0
  /\ launchPermits' = launchPermits - 1
  /\ launch' = [launch EXCEPT ![d] = "holding"]
  /\ UNCHANGED landingVars

\* Mutant of LeaveLaunchQueue: a finally around the acquire as well, which
\* gives back a permit that was never taken.
LeaveQueueReleasing(d) ==
  /\ launch[d] = "queued"
  /\ launch' = [launch EXCEPT ![d] = "idle"]
  /\ launchPermits' = launchPermits + 1
  /\ UNCHANGED landingVars

\* The acquire deadline passes (FlightTimeout) or the waiter is cancelled.
LeaveLaunchQueue(d) ==
  /\ launch[d] = "queued"
  /\ launch' = [launch EXCEPT ![d] = "idle"]
  /\ UNCHANGED <<launchPermits, landingVars>>

\* The finally of the context manager: takeoff done, failed or cancelled.
ReleaseLaunch(d) ==
  /\ Launching(d)
  /\ launchPermits' = launchPermits + 1
  /\ launch' = [launch EXCEPT ![d] = "idle"]
  /\ UNCHANGED landingVars

(***************************************************************************)
(* land() and trip(): the two ways into the landing slot.                  *)
(***************************************************************************)
\* Mutant of EnterLanding: the _escalations check is missing.
EnterUnchecked(d) ==
  /\ landing[d] = "idle"
  /\ landing' = [landing EXCEPT ![d] =
                   IF landPermits > 0 THEN "attempt" ELSE "queued"]
  /\ landPermits' = IF landPermits > 0 THEN landPermits - 1 ELSE landPermits
  /\ attempts' = [attempts EXCEPT ![d] = IF landPermits > 0 THEN 1 ELSE 0]
  /\ elapsed' = [elapsed EXCEPT ![d] = 0]

\* An escalated drone is refused, a free permit starts the ladder at once.
EnterLanding(d) ==
  /\ landing[d] = "idle"
  /\ landing' = [landing EXCEPT ![d] =
                   IF d \in escalated THEN "failed"
                   ELSE IF landPermits > 0 THEN "attempt" ELSE "queued"]
  /\ LET starts == d \notin escalated /\ landPermits > 0 IN
       /\ landPermits' = IF starts THEN landPermits - 1 ELSE landPermits
       /\ attempts' = [attempts EXCEPT ![d] = IF starts THEN 1 ELSE 0]
       /\ elapsed' = [elapsed EXCEPT ![d] = 0]

CallLand(d) ==
  /\ d \notin tripTask
  /\ EnterLanding(d)
  /\ UNCHANGED <<launchVars, tripTask, escalated>>

\* Mutant of CallTrip: an emergency does not queue, the trip task runs the
\* ladder without the slot.
TripWithoutSlot(d) ==
  /\ d \notin tripTask /\ landing[d] = "idle"
  /\ landing' = [landing EXCEPT ![d] = "attempt"]
  /\ attempts' = [attempts EXCEPT ![d] = 1]
  /\ elapsed' = [elapsed EXCEPT ![d] = 0]
  /\ tripTask' = tripTask \union {d}
  /\ UNCHANGED <<launchVars, landPermits, escalated>>

\* The first trip starts the task; a later one only awaits its outcome.
CallTrip(d) ==
  /\ d \notin tripTask
  /\ EnterLanding(d)
  /\ tripTask' = tripTask \union {d}
  /\ UNCHANGED <<launchVars, escalated>>

AcquireLanding(d) ==
  /\ landing[d] = "queued" /\ landPermits > 0
  /\ landPermits' = landPermits - 1
  /\ landing' = [landing EXCEPT ![d] = "attempt"]
  /\ attempts' = [attempts EXCEPT ![d] = 1]
  /\ elapsed' = [elapsed EXCEPT ![d] = 0]
  /\ UNCHANGED <<launchVars, tripTask, escalated>>

\* slot_wait_s passes: FlightTimeout, and no escalation.
LandingSlotTimeout(d) ==
  /\ landing[d] = "queued"
  /\ landing' = [landing EXCEPT ![d] = "failed"]
  /\ UNCHANGED <<launchVars, landPermits, attempts, elapsed, tripTask,
                 escalated>>

(***************************************************************************)
(* _land_with_retries(): the ladder, run while holding the landing slot.   *)
(***************************************************************************)
\* What every exit of the ladder does: the finally of land() gives the slot
\* back, and the call ends as outcome says.
EndLadder(d, outcome) ==
  /\ landPermits' = landPermits + 1
  /\ landing' = [landing EXCEPT ![d] = outcome]

\* attempts and elapsed are locals of the ladder.
ForgetLadder(d) ==
  /\ attempts' = [attempts EXCEPT ![d] = 0]
  /\ elapsed' = [elapsed EXCEPT ![d] = 0]

AttemptLands(d) ==
  /\ landing[d] = "attempt"
  /\ EndLadder(d, "landed")
  /\ ForgetLadder(d)
  /\ UNCHANGED <<launchVars, tripTask, escalated>>

\* Mutant of GivesUp: the attempts alone end a ladder.
GivesUpByAttempt(d, now) == attempts[d] >= MaxAttempts

\* The ladder stops at the last attempt or when the window is used up.
GivesUp(d, now) == attempts[d] >= MaxAttempts \/ now >= Window

\* An attempt raised or hit its outer deadline after t seconds: sleep.
AttemptFails(d) ==
  /\ landing[d] = "attempt"
  /\ \E t \in 0..Outer :
       /\ ~GivesUp(d, elapsed[d] + t)
       /\ elapsed' = [elapsed EXCEPT ![d] = @ + t]
  /\ landing' = [landing EXCEPT ![d] = "pause"]
  /\ UNCHANGED <<launchVars, landPermits, attempts, tripTask, escalated>>

\* Mutant of RetryLanding: a retry is a new ladder with a new t_start.
RetryAfresh(d) ==
  /\ landing[d] = "pause"
  /\ landing' = [landing EXCEPT ![d] = "attempt"]
  /\ attempts' = [attempts EXCEPT ![d] = 1]
  /\ elapsed' = [elapsed EXCEPT ![d] = 0]
  /\ UNCHANGED <<launchVars, landPermits, tripTask, escalated>>

RetryLanding(d) ==
  /\ landing[d] = "pause"
  /\ landing' = [landing EXCEPT ![d] = "attempt"]
  /\ attempts' = [attempts EXCEPT ![d] = @ + 1]
  /\ elapsed' = [elapsed EXCEPT ![d] = @ + Period]
  /\ UNCHANGED <<launchVars, landPermits, tripTask, escalated>>

\* ... or the operator alarm: FlightError, and the drone is never retried.
Escalate(d) ==
  /\ landing[d] = "attempt"
  /\ \E t \in 0..Outer :
       /\ GivesUp(d, elapsed[d] + t)
       /\ elapsed' = [elapsed EXCEPT ![d] = @ + t]
  /\ EndLadder(d, "failed")
  /\ escalated' = escalated \union {d}
  /\ UNCHANGED <<launchVars, attempts, tripTask>>

(***************************************************************************)
(* The caller: it takes the outcome of a direct call, or is cancelled in   *)
(* it.  Cancelling the caller of a trip leaves the shielded task alone.    *)
(***************************************************************************)
ReturnLanding(d) ==
  /\ d \notin tripTask
  /\ landing[d] \in {"landed", "failed"}
  /\ landing' = [landing EXCEPT ![d] = "idle"]
  /\ ForgetLadder(d)
  /\ UNCHANGED <<launchVars, landPermits, tripTask, escalated>>

\* Mutant of AbandonLanding: the slot is released only on the normal exits.
AbandonKeepingSlot(d) ==
  /\ d \notin tripTask
  /\ landing[d] = "queued" \/ OnLadder(d)
  /\ landing' = [landing EXCEPT ![d] = "idle"]
  /\ ForgetLadder(d)
  /\ UNCHANGED <<launchVars, landPermits, tripTask, escalated>>

AbandonLanding(d) ==
  /\ d \notin tripTask
  /\ landing[d] = "queued" \/ OnLadder(d)
  /\ landPermits' = IF OnLadder(d) THEN landPermits + 1 ELSE landPermits
  /\ landing' = [landing EXCEPT ![d] = "idle"]
  /\ ForgetLadder(d)
  /\ UNCHANGED <<launchVars, tripTask, escalated>>

\* asyncio.run is over: every coroutine still inside a slot is cancelled.
CancelAll ==
  /\ launchPermits' = IF \E d \in Drones : Launching(d)
                      THEN launchPermits + 1 ELSE launchPermits
  /\ launch' = [d \in Drones |-> "idle"]
  /\ landPermits' = IF \E d \in Drones : OnLadder(d)
                    THEN landPermits + 1 ELSE landPermits
  /\ landing' = [d \in Drones |-> IF landing[d] = "queued" \/ OnLadder(d)
                                  THEN "killed" ELSE landing[d]]
  /\ attempts' = [d \in Drones |-> 0] /\ elapsed' = [d \in Drones |-> 0]
  /\ UNCHANGED <<tripTask, escalated>>

\* What goes on without the caller: the semaphores and the ladder.
LadderStep(d) ==
  \/ AcquireLanding(d) \/ LandingSlotTimeout(d)
  \/ AttemptLands(d) \/ AttemptFails(d) \/ RetryLanding(d) \/ Escalate(d)

\* An agent is one task awaiting one call after the other: it asks for a
\* slot only when it is in neither.
NextCall(d) ==
  /\ launch[d] = "idle" /\ landing[d] = "idle"
  /\ RequestLaunch(d) \/ CallLand(d) \/ CallTrip(d)

SafetyNext ==
  \/ \E d \in Drones :
       \/ NextCall(d) \/ AcquireLaunch(d)
       \/ LeaveLaunchQueue(d) \/ ReleaseLaunch(d)
       \/ LadderStep(d) \/ ReturnLanding(d) \/ AbandonLanding(d)
  \/ CancelAll

SafetySpec == SafetyInit /\ [][SafetyNext]_controller

\* Every await of the controller has a deadline, so its own steps happen.
FairSafetySpec ==
  /\ SafetySpec
  /\ \A d \in Drones : WF_controller(LadderStep(d))

-----------------------------------------------------------------------------
(***************************************************************************)
(* Properties.                                                             *)
(***************************************************************************)
\* The drones inside each slot, as the corridor of Corridor.tla.
TakeoffZone == {d \in Drones : Launching(d)}
LandingZone == {d \in Drones : OnLadder(d)}

LaunchCorridor  == INSTANCE Corridor WITH inCorridor <- TakeoffZone
LandingCorridor == INSTANCE Corridor WITH inCorridor <- LandingZone

\* "At most ONE drone occupies the shared takeoff zone at a time", and the
\* descents are serialised the same way, whatever mix of timeouts,
\* cancellations and trips releases the permits: each slot implements the
\* abstract corridor.
LaunchIsCorridor  == LaunchCorridor!Spec
LandingIsCorridor == LandingCorridor!Spec

\* land_bound_s: a descent that got the slot is over within the window plus
\* one outer deadline plus one gap, however its attempts fail or hang.
LadderWithinBound ==
  \A d \in Drones : elapsed[d] <= Window + Outer + Period

\* "refusing to burn another ladder": after the operator alarm for a drone
\* no land command of the ladder is ever sent to it again.
EscalationIsFinal == \A d \in escalated : ~OnLadder(d) /\ landing[d] # "queued"

\* A permit is in the semaphore exactly when nobody is inside the slot: no
\* path leaks the permit (the fleet could never land again) or returns it
\* twice.
PermitsConserved ==
  /\ (launchPermits = 0) <=> (\E d \in Drones : Launching(d))
  /\ (landPermits = 0) <=> (\E d \in Drones : OnLadder(d))

\* Every landing call ends although the slot is shared and each attempt may
\* hang: the caller is never left waiting.
LandingEnds ==
  \A d \in Drones :
    (landing[d] = "queued" \/ OnLadder(d))
      ~> ~(landing[d] = "queued" \/ OnLadder(d))
=============================================================================
