# A verification model of the drone mission

The repository flies three HULA drones from one laptop (`finals/`).  It also holds a
PX4 rehearsal (`sim/`), the code of an earlier qualifier (`precomp/`), models,
documents and tests.  This directory holds TLA+ modules for the
coordination code of `finals/`, the TLC configurations that check them, and proofs
checked by TLAPS.  Paths below are relative to the repository's root.

Contents: [the system](#the-system) ·
[modules and code](#modules-and-code) · [runs](#runs) · [bounds](#bounds) ·
[fairness](#fairness) · [where the code and its comments part](#where-the-code-and-its-comments-part) ·
[proofs](#proofs) · [only model-checked](#only-model-checked) ·
[not modelled](#not-modelled) · [plan](#plan)

## The system

One process, one asyncio loop.  A tournament run passes preflight, starts the
perception tasks, then hands one `DroneAgent` per drone to the `Orchestrator`.
Everything that commands a drone is a coroutine of that loop; three things are not:
each adapter's single worker thread (the blocking SDK), the video and inference
threads, and the thread that reads the abort key.

| component | state it keeps | operations | correct when |
|---|---|---|---|
| `SafetyController` (`finals/guards.py`) | two one-permit semaphores, a task per tripped drone, the set of escalated drones | `launch_slot`, `land`, `trip`, the retry ladder | one drone per slot; permits never leak or double; a ladder is bounded; an escalated drone is not tried again; every call ends |
| `DroneAgent` (`finals/mission/agent.py`) | `AgentState`, `_airborne`, the emergency latch, the pending guard trip, phase queue | connect, tick, execute one action, final descent, `_fail`, `fail_safe`, `shutdown` | `emergency_land` exactly once; no failure leaves the drone in the air; DONE means grounded |
| `Orchestrator` (`finals/mission/orchestrator.py`) | agent tasks, stop event and its attribution, deadlines, the current shutdown step | beat, settle, reap, reconcile, shutdown | it always returns; nobody is left flying; the exit code and the attribution tell the truth |
| `AbortListener` (`finals/guards.py`) | `abort_event` | key press, threadsafe stop | the stop is attributed to the operator |
| `ConvoyRegistry` (`finals/mission/convoy_registry.py`) | per convoy: status, owner, heartbeat, exit flag, bearing, offer | `claim`, `renew`, `release`, flag, `offer`, `expire` | one owner; a held convoy moves by offer only; flags die with the claim; serviced is final |
| `TrackConvoy` (`finals/mission/phases/track_convoy.py`) | phase, target, reads, "exit flagged", budgets | one `step` per tick | a live lock is worked for; its memory of the flag agrees with the registry |
| per-drone and swarm guards (`finals/guards.py`) | latches, streaks | `evaluate`, `evaluate_swarm` | a trip ends in the right verdict |
| `PadValidityMap`, `LandOnPad` (`finals/mission/`) | per beacon: broadcast verdict, owner; per drone: sub-state, locked target, window of recent hits, streak, losses, deadlines | `record`, `claim`; one `step` per tick | one drone per pad; no step down on a pad read as red; the phase ends whatever it sees |
| `PyhulaxAdapter` (`finals/flight/pyhulax_adapter.py`) | a pool with one worker, `_connected`, `degraded`, `_airborne`, the poller's thread and its last snapshot | connect, disconnect, takeoff, steering, land, `emergency_land`; one poll | the aircraft sees one call at a time; no steering on an old outage; every call returns |
| `SightingLog` (`finals/sightings.py`) | a CSV file, an in-memory mirror, a lock, a poisoned flag | open and recover, append, close | an id that was returned is that row for good; a crash costs the torn row only |
| `SightingBus` (`finals/sightings.py`) | bounded deque, sequence numbers | publish, drain after a cursor | a reader gets each surviving sighting once |
| perception and detectors (`finals/vision/perception.py`, `detector.py`) | last frame key, shed latch, CSV health; the pool's queue and workers | sample a frame, record, infer, stop | what is on the bus is in the log; nobody appends behind the close |
| preflight and discovery (`finals/preflight.py`, `finals/flight/discovery.py`) | gate, dropped drones, started sources | P0–P10, drop, teardown, hand-over | who flies has passed every gate; who is refused is taken down; a start is decided |
| `ObstacleMap`, visibility-graph planner (`finals/mission/obstacle_map.py`, `finals/mission/planning/`) | observed keep-outs; A*'s open and closed sets | merge, inflate, plan | the route is shortest and clear |
| `Navigate` (`finals/mission/phases/navigate.py`) | frozen legs, index, substep, rotations | one `step` per tick | legs are flown in order with the nose on them; the phase ends |
| event log, heartbeat (`finals/events.py`) | file | append | every event is on disk or raises |

How they interact: the orchestrator starts agents as tasks and cancels them; an
agent calls the `SafetyController` for each takeoff and landing, and its own adapter
for the rest; agents and orchestrator share the `stop` event; the
orchestrator's beat reads every agent's last state, runs the swarm guards, and
expires and matches convoys in the `ConvoyRegistry`; phases read the
`SightingBus` and write the registry; both cameras' loops and the detector's workers write bus and log; the abort thread sets a
`threading.Event` and schedules `stop.set()` on the loop.

What is hard: a cancellation may land in a queue, in a slot or behind a shield;
each command may fail, hang or be answered late; the drone may already fly when its
agent still thinks it does not; three independent parties can decide that
the same drone needs its one `emergency_land`; a lock may lapse while its owner is inside a long
command; the abort thread may act between any two beats; a command that timed out still
occupies the adapter's worker; a row may be torn by a dying process while two threads append; a
drone may be lost at any gate; the compass is a cached reading.  `PROJECT.json` lists
these hazards at their lines, with the properties that cover them.

## Modules and code

| module | models | built on |
|---|---|---|
| `Corridor` | abstract: a zone with at most one drone in it | – |
| `SafetyController` | `SafetyController` | `Corridor` (refined twice) |
| `SafetyController_proofs` | theorems about it | `SafetyController`, TLAPS |
| `DroneAgent` | `DroneAgent`, and the answers of its adapter | extends `SafetyController` |
| `Orchestrator` | `Orchestrator.run()`, abort thread, Ctrl+C, end of `asyncio.run()` | extends `DroneAgent` |
| `Orchestrator_proofs` | theorems about the whole mission | `Orchestrator`, `SafetyController_proofs` |
| `ConvoyOwnership` | abstract: who holds which convoy | – |
| `ConvoyRegistry` | `ConvoyRegistry`, as functions on one entry | – |
| `TrackConvoy` | the phase, one action per outcome of `step()` | extends `ConvoyRegistry` |
| `ConvoyMission` | phases, registry, the convoy part of the beat | extends `TrackConvoy`, refines `ConvoyOwnership` |
| `ConvoyMission_proofs` | theorems about it | `ConvoyMission`, TLAPS |
| `PadClaims` | abstract: who owns which pad, which pads are red | – |
| `PadValidity` | `PadValidityMap`, as functions on its fields | – |
| `LandOnPad` | the landing phases of all drones on one map, one action per outcome of `step()` | extends `PadValidity`, refines `PadClaims` |
| `LandOnPad_proofs` | theorems about it | `LandOnPad`, TLAPS |
| `CommandLine` | abstract: one call at a time, and trust lost when one is given up | – |
| `PyhulaxAdapter` | `PyhulaxAdapter`: coroutines, pool, poller, link | refines `CommandLine` |
| `PyhulaxAdapter_proofs` | theorems about it | `PyhulaxAdapter`, TLAPS |
| `SightingLog` | the CSV log: append, failure, kill, recovery | – |
| `SightingBus` | the bus and its cursors | – |
| `Perception` | sampling loops, recording callbacks, detector pool, end of a run | extends `SightingLog`, `SightingBus` |
| `Perception_proofs` | theorems about it | `Perception`, TLAPS |
| `Preflight` | the gates, degraded fleets, teardown, the hand-over in `main` | – |
| `Preflight_proofs` | theorems about it | `Preflight`, TLAPS |
| `Geometry` | `polygon_tools.py` on an integer grid | – |
| `Planner` | obstacle merge, inflation, A* one popped node per step | extends `Geometry` |
| `Navigate` | legs from the route, the transit phase, compass cache | extends `Planner` |
| `Navigate_proofs` | theorems about planner and transit | `Navigate`, TLAPS |
| `MC…` | instances for TLC | |

**Granularity.** Asyncio switches tasks only at an `await`.  An action is the code
between two awaits, with every call in it.  Hence one beat of the supervision
loop is one action, one `TrackConvoy.step()` is one action with all its
registry calls, and a slot's release is in the same action as whatever leaves it.

**`SafetyController`.** `launch`/`landing` say where a drone's call is;
`launchPermits`/`landPermits` are the semaphore values, kept separately because
their agreement with the callers is what can go wrong.
`attempts` and `elapsed` are locals of `_land_with_retries`; one attempt takes
0…`Outer` seconds, a pause takes `Period`.  `tripTask` are the drones whose
descent runs in a shielded task of its own.  asyncio serves waiters in FIFO order; the
model lets any waiter have a free permit, which allows more behaviours than
the library.

**`DroneAgent`.** `pc` names the await at which the agent's task is; `state` is
`AgentState` without READY, which is left before the next await.
`airborne` is the code's `_airborne`; `flying` is the truth, which differs from it between
lift-off and the answer of a takeoff, and after an `emergency_land` whose SDK call
failed silently.  `commanded` is a history: how often `emergency_land` was commanded, counted when the call is made
(a second call while the first is in flight changes nothing else).  Phases are abstracted to "any action, at any
tick".  Lost cancellations (`swallow`) are Python 3.11's `wait_for` returning the
result of a command completed in the same turn.  A late takeoff — one that timed out and lifts off
afterwards — is in `PyhulaxAdapter`, where the worker finishes what its caller gave up.

**`Orchestrator`.** `orch` is the place in `run()` and `_settle_and_shutdown()`;
`todo`/`cur` are the rest of the current loop over the agents and the one
it waits for.  `stopLog` holds the logged attributions of the stop.  A second
Ctrl+C during the shutdown makes `orch` "abandoned".  `LoopCloses` is the
end of `asyncio.run()`, which cancels every remaining task, shielded or not.

**`ConvoyRegistry`, `TrackConvoy`, `ConvoyMission`.** The clock is the age of an
entry's heartbeat.  The exit bearing is
represented by the drone whose sector contains it; `zone` says in whose
sector each convoy really is and changes at will.  The flag may stay as it is in
a tick with no usable bearing.  One fresh sighting per step stands for several.
`ConvoyOwnership` says which convoy is given up or serviced, not by whom: that a late owner does not
release its successor's lock is the registry's own test (`Released`) and no property here.

**`PadValidity`, `LandOnPad`.** A step is one action: what the drone sees, everything it
records and the claim it makes, for `step()` has no await.  Within it `claim()`
cannot be lost (the owner was looked up in the same step); its caller's answer to
a loss is therefore dead code, and not modelled.  The candidates are computed
twice in one step, the second time with the same result.  Which beacons are in view,
which box is the largest, whether the target is in the deadband and what the altitude is are free
in every step.  `cmd` is the command in flight; `deck` is the truth about the drone and what
the poller has read of it: "unseen" is a reading from before the takeoff, which the
agent trusts for two seconds.  `Abandon` forgets the locals of a phase that is never stepped again.
The landing slot and the ladder around `Land` are in `SafetyController` and not repeated.

**`PyhulaxAdapter`.** Two coroutines call at once: the agent, and the safe-down next to it (a trip's
`land()` in its own task, then `emergency_land()`).  `at`/`op` say where each is.  A job is `queue`d,
`running`, or gone; `by` says who still waits for the running one.  A deadline may pass at any time
while a call waits: the queued job is then cancelled, the running one goes on.  The poller reads the
link in one step; a poller that outlived its `join()` belongs to the "old" link and still writes.
Time is counted in ticks since the last snapshot (`age`) and since the link went down (`down`), both
up to `Fresh + 1`.  The worker and the link owe nothing: they may hang for ever.

**`SightingLog`, `SightingBus`, `Perception`.** The file is a header, whole rows, and what is on disk
of the row behind them (nothing, torn, unreadable, or whole though its append failed).  An append
writes, flushes and syncs in separate steps under the lock; a kill may come between any two,
and a next process recovers.  `acked` and `got` are histories: the ids that were returned, and
what readers were given.  The event loop and the detector's worker are two threads that record; one action is one access to what they share.
A callback reads the health flag, then takes the log's lock: `AskHealth` and `Record`.  The join of the pool's
stop may run out while a worker infers, records or syncs (`Hangs`).

**`Preflight`.** `gate` is the gate in progress and `next` the drone its loop is at.  What a gate is
told is chosen freely.  Strict and degraded fleets, `--preflight-only`, the GO, a reader that raises (a closed stdin),
Ctrl+C in a gate or in a teardown, the hand-over to the `Orchestrator` and the end of the mission are actions.
`linked` is the adapter's flag, which `disconnect()` clears before whatever may fail or time out in it, and `streaming`
says that a source was started and not told to stop: a teardown whose SDK does not answer is the same state.

**`Geometry`, `Planner`, `Navigate`.** Points lie on a grid, so that orientations are exact; distances are
rounded up to a tenth of a unit, which keeps the triangle inequality the search relies on.  A* is one popped
node per action with the heap as a set; entries that were overtaken stay in it, as in the code.
`Navigate` freezes the route into legs, bakes in the compass offset, and turns and flies; the poller
refreshes `shown` whenever it likes, `current` remembers whether that was after the last command.
`Only` is the code's list comprehension with a condition.  `RouteLength`, `FollowsGraph` and `ShortestWalks` are the
reference the planner is measured by, `IsBox`, `Threads`, `BoxesOnly` and `CornersThreaded` say under which conditions its
test is exact: they model no code.

**Faults.** The constant `Faults` selects what an instance may suffer: `log` (the
event log cannot be written), `phase` (a phase raises), `hang`
(`emergency_land` never answers), `swallow`, `interrupt` (Ctrl+C), `abortkey`.
Command failures and timeouts, slot timeouts, guard trips and stale telemetry are
always possible.

**Mutants.** Operators marked "Mutant of X" are plausible wrong versions of X: a dropped
guard, a missing release, a swapped test.  No specification uses them.
`PROJECT.json` pairs each checked property with one; putting it in X's place makes
TLC report that property violated.

## Runs

| run | configuration | checks | shows |
|---|---|---|---|
| `safety_controller` | `MCSafetyController.cfg` | `LadderWithinBound`, `EscalationIsFinal`, `PermitsConserved`, `LaunchIsCorridor`, `LandingIsCorridor`, `LandingEnds` | for arbitrary callers, both slots are one-drone corridors, no permit is lost or duplicated, ladders respect `land_bound_s`, escalation is final, every landing call ends |
| `mission_safety` | `MissionSafety.cfg` | `NoDroneForgotten`, `ShutdownLandsNothing`, `EmergencyOnce`, `UsesSafetyController` | with a full disk, hanging safe-downs and lost cancellations: nobody is left in the air without a safe-down, no drone is commanded two (a second is counted even while the first is in flight), `shutdown()` finds nothing to land, and the agents use the controller as its specification expects |
| `mission_interrupt` | `MissionInterrupt.cfg` | `NoDroneForgotten`, `StopAttributed` | the same guarantee with crashes, Ctrl+C and the abort key; the stop is attributed to its cause |
| `mission_liveness` | `MissionLiveness.cfg` | `CleanExitMeansGrounded`, `MissionEnds`, `CrashIsSafed` | `run()` always ends, exit code 0 is honest, a crashed agent's drone is safed |
| `convoy_mission` | `ConvoyMission.cfg` | `FlagsBelongToAClaim`, `OwnerIsTracking`, `FlagAgrees`, `ImplementsOwnership` | locks, lapses and hand-overs implement plain ownership; flags and memory stay consistent |
| `pad_landing` | `PadLanding.cfg` | `OneDronePerPad`, `DescendsOnGreen`, `ImplementsPadClaims` | drones whose lists differ share one map: a pad has one drone, a step down needs a pad that is the drone's own, in view, seen often enough and red to nobody; the map implements plain claims |
| `pad_liveness` | `PadLiveness.cfg` | `PhaseEnds` | the landing phase ends, whatever the camera and the altimeter say |
| `adapter` | `Adapter.cfg` | `ImplementsCommandLine`, `SteersOnLiveLink`, `CallsReturn` | through timeouts, cancellations, reconnects and a link that comes and goes: the aircraft gets one call at a time and nothing that steers while a given-up call may still run, or on an old outage; every call returns though the SDK never answers |
| `sightings` | `Sightings.cfg` | `AckedIdsHold`, `ReadExactlyOnce`, `SeenMeansLogged`, `ClosedBehindCallbacks` | with failing appends, a kill and two recording threads: ids hold, cursors neither lose nor repeat, what is seen is logged, the log is closed behind its writers |
| `transit` | `Transit.cfg` | `TypeOK`, `PlanIsShortest`, `PlanStaysClear`, `RouteFlownInOrder`, `NoseOnLeg`, `TransitEnds` | A* against a shortest-walk reference in two dozen small arenas, then the route flown with a late, creeping or missing compass |
| `corner_threading` | `CornerThreading.cfg` | `PlanStaysClear`, expected to be violated | the planner sends a drone through a crate whose ring it meets in corners only |
| `preflight` | `Preflight.cfg` | `FliesOnlyWhatPassed`, `NothingLeftUp`, `CasualtyStaysDown`, `StartIsDecided` | every start of a fleet of three, strict or degraded |

Type invariants that are proved (see [Proofs](#proofs)) are not repeated in the runs, but for `transit`'s:
it says more than types (which nodes are queued, how often the nose is turned).

`CHECK_DEADLOCK FALSE` appears where the system really stops: `safety_controller` (once `CancelAll` has ended
all calls, an escalated fleet may have nothing left to do), `sightings` (the cameras have
delivered, the log is closed), `transit` and `corner_threading` (the phase is over) and `preflight` (the start is
decided).  The mission's end is an explicit stutter (`Over`), so a deadlock anywhere else would be reported.

## Bounds

* Fleet: three drones where the slots are contended (`safety_controller`): a holder and two
  waiters, so that a release races a second waiter.  Two in the missions: one drone that
  is reconciled while another still runs, holds the slot, trips or crashes is the most these
  properties relate.
* Ladder: `Window = 3, Period = 1, Outer = 2` gives three attempts, so that either limit (attempts,
  wall clock) may be the one that ends it.  The missions use one or two attempts, as the
  number of retries does not matter to them.
* Mission clock: three stages (flying, past the budget, past the hard deadline): the code only
  compares against those two instants.
* Convoys: two convoys, two drones, so that one drone can be offered two convoys, and a lock can lapse and
  be taken over.  `TTL = 2`, `ConfirmHits = 2` (one read is not the last); nothing in the
  entry grows without bound, as the age stops just past the ttl.
* Pads: two drones and two beacons, one valid for both (they contend for it) and one valid for only
  one (the other's verdict has to steer it away).  A window of two frames with two hits, two centred frames
  and one tolerated loss are the smallest values at which each threshold has a value below it.
  The clock knows the two instants the code compares against.
  `PadLiveness.cfg` has one beacon, one drone on the marker and one on the blob, and thresholds of
  one: the phase's loops through its sub-states are all there.
* Adapter: nothing is counted but ticks up to `Fresh + 1 = 2`; any number of reconnects, two callers (the
  agent's command, or the land of a trip task that outlived it, next to the one safe-down), any number of pollers that outlived their join.
* Sightings: two drones with one frame each, a marker and a detection per frame, one of the four
  refused by the codec; a bus of two (it evicts), a pool queue of one (it drops), a health counter that
  latches at the second failure, one kill: each limit is met and overrun.
* Transit: 24 arenas (one crate about the straight line; two, of which one was observed later, under its own
  or the surveyed id; an arch with a gate wide enough, too narrow or undeclared; a boxed-in goal), a compass
  of 16 readings, one command during which the nose creeps.  `GeneralWorlds` leaves out the arenas in which a line
  between two nodes threads corners (`CornersThreaded`): those are `corner_threading`'s subject.  `WorldsAreGeneral` has
  TLC check that the arenas of `transit` meet the hypotheses of `BoxWorldsStayClear`, and that the arena of
  `corner_threading` fails them by its corners alone.
* Preflight: three drones, so that one may be lost and a floor of two hold or fail.
* Symmetry (drones; drones and convoys) is used in safety runs only; the actions treat
  members alike and `Init` is symmetric.

## Fairness

`FairSafetySpec` gives each ladder weak fairness on its own steps: each await in it
(slot acquisition, attempt, sleep) carries a deadline, so one of its outcomes
happens.  `FairSpec` of the mission assumes that time passes (`ClockAdvances`), that the
orchestrator's task runs whenever it can, and that as long as some agent's await can
end, one does.  The last is deliberately weak — fairness for the fleet as a
whole, not per agent — and yet the mission ends, because the supervision loop has
a hard deadline and the shutdown waits for nothing without a bound.  Nothing is
assumed of faults, the operator, or the phases' choices.

`FairSpec` of `LandOnPad` assumes, per drone, that the agent steps its phase (its loop awaits
one command at a time), that a command ends (each has a timeout), that the poller
reads the telemetry and that time passes.  What is seen, whether the drone is centred and how high
it is stay free: they may be such that only the budget ends the phase.

`FairSpec` of `PyhulaxAdapter` assumes of each coroutine that it is resumed when its future is
done, and that its deadline passes (`asyncio.wait_for`).  Nothing is assumed of the worker, the
SDK, the poller or the link.

`FairSpec` of `Preflight` assumes that a gate proceeds: each wait in it carries a timeout, the operator's
deadline included.  No GO and no Ctrl+C is assumed, and nothing of a video source's `start()`: its timeout covers the wait
for the first frame, not the SDK calls before it, which block the event loop.  `StartIsDecided` has that exception.

`FairSpec` of `Navigate` assumes that the search and the phase, which are synchronous code, run, and that a
command ends, well or badly.  The poller and the compass owe nothing.

## Where the code and its comments part

`corner_threading` is checked; the rest was met while modelling, is visible in a few lines, and is
part of the models as the code has it.

**The planner.** `visibility_graph.py:24` has an edge "iff the straight segment … does not ENTER any
inflated polygon's interior".  The test (`polygon_tools.py:280`) looks for proper crossings and at the
segment's midpoint: a segment through two corners of a ring, its midpoint beyond, passes.  A crate at
(2, 2)–(3, 3), on the diagonal from (0, 0) to (10, 10), yields one straight leg through it.  For boxes this is the
only way past the test: `PlanKeepsClear` is the proof.

**Stopping and safing down.**

* `agent.py:669`: cancelling the safe-down "is the one cancellation
  that may not happen".  The shield only covers the agent's cancellation.  After
  Ctrl+C the orchestrator reaps the agent, finds its latch set, does not wait, and
  `asyncio.run()` cancels the shielded command.
* `orchestrator.py:18`: on stop, agents "finish their in-flight
  command, land".  A drone queued in `launch_slot()` (`agent.py:573`) does not look at the stop event
  again and takes off when the slot frees.
* `agent.py:20`: a full-disk `EventLogError` "must not block the
  landing".  `action_failed` is logged (line 624) before the `FlightError` reaches `_fail()`; if that
  write raises, the drone's safe-down is postponed to the end of the mission (where
  `NoDroneForgotten` shows it does come).
* `run()` can return 0 with a drone in the air, once a cancellation was lost.  The agent runs on past
  the reap; the reconciliation sets it FAILED and commands the emergency landing, whose SDK failure the
  adapter swallows; the agent's next tick then winds down, finds `_airborne` false and sets DONE.
  With `"swallow"` in `Faults` TLC finds this as a violation of `CleanExitMeansGrounded`; without,
  the property is proved (`MissionCleanExit`).  `mission_liveness` therefore runs without `"swallow"`.  That
  `MissionEnds` and `CrashIsSafed` hold with it too takes a cfg of their own (523,608 states), too slow to keep among the runs.
* `pyhulax_adapter.py`: `emergency_land()` "NEVER raises" means `except Exception`.  `disconnect()` shuts the pool down
  with `cancel_futures=True` (line 540), which cancels the job of an emergency landing that is still
  queued: its caller gets a `CancelledError`.
* `pyhulax_adapter.py:447`: "a stale dead-flag … must not leak across links".  A poller whose getter
  blocks longer than the 2 s of its join outlives the reset and may set the flag of the new link.

**Convoys and pads.**

* `orchestrator.py:424`: SERVICED means "locked + confirmed + released".
  The investigate budget and the chase cap (`track_convoy.py:667`) release as SERVICED without the confirming
  reads, and such a convoy counts towards the early end.
* `land_on_pad.py:599`: on the deck "the landing is VERIFIED", reported as
  "on a valid pad".  The altitude and `is_flying` are looked at before any sighting: a low
  reading lands the drone wherever it is, a reading from before the takeoff ends the phase in
  the air; both count as verified, with no target locked.
* A drone claims the largest beacon of each frame and releases none,
  where `land_on_pad.py:450` speaks of "the single pad this drone will commit to".
* The verdict a drone broadcasts is membership in its own list (line 468); the shipped lists hold one
  id each, and invalid is final, so a glance at another drone's pad makes it red for all.
* With `servo_on` "pad" no beacon is looked at, where line 146 has the beacon "drive VALIDITY"
  (`landing_real.json` says that the ids are unused).
* The landing slot is taken for the final
  `Land` only, where line 24 and `flight_test_3x_real.json` have it serialize the
  descent: the steps down are plain moves, of any number of drones at once.

**Start and transit.**

* `main.py:686`: a degraded fleet filters "EVERY per-drone list".  `drone_sectors` (line 708) is made of
  `cfg.drones`: the `Orchestrator` refuses the sector of a drone it was not given, after GO and before the `try` that
  would take the fleet down (`HandOver` to "abandoned").
* `discovery.py:208`: the scan's floor counts every aircraft that answered, those nobody asked for included.
  The gates after it test the floor again, so `FliesOnlyWhatPassed` holds.
* A strict start whose video source raised in `start()` leaves that stream switched on, though the fleet is
  reported "video stopped": `NothingLeftUp` allows exactly that stream.
* Ctrl+C during the gates skips the teardown: no `except` clause of a gate takes a `CancelledError`.  So does a reader
  that raises at P10 (an `EOFError` is none of `_GATE_ERRORS`), and Ctrl+C in a teardown leaves the rest of it
  undone.  After P10's timeout the thread that asked still blocks in `input()`.
* `main.py:696`: a degraded fleet is logged after GO and before the `try`; if the disk is full, the start
  ends there with the fleet linked (`HandOver` to "abandoned").
* `navigate.py:19`: a leg "still ends pointing at the true world heading".  The yaw is the cached one: that
  holds for a Move that follows a fresh poll (`NoseOnLeg`), a Move on a reading from before the last Rotate may be off.
* `pyhulax_video.py:280`: a stream in error is restarted from `get_frame()`, on the event loop; each
  `stream.stop()` may block every agent for its 2 s, at most three times until a frame arrives.

## Proofs

TLAPS proves the following for every value of the constants: any fleet, any
timing, any faults, any convoys, any pads, any number of frames and kills, any arena on the grid.  Each argument is the same: a
strengthened invariant that is inductive, one lemma per group of actions, then the
property from it.

**`SafetyController_proofs`** (assumes `TimingAssumption`, what the constructor
enforces).  `PermitsConserved` alone is not inductive: a release adds a permit, and that is
only right if nobody else is inside.  `LaunchSlot` and `LandingSlot` therefore say that
the semaphore is 1 with nobody inside, or 0 with exactly one drone inside.
`LadderWithinBound` needs `LadderPosition`: a pause is only entered below the window and
below the last attempt.  `SafetyInv` conjoins these with the types and
`EscalationIsFinal`.  Actions are grouped by the slot they touch
(`LaunchStep`, `LandingStep`, and `CancelAll` which touches both), so that each slot's
argument frames the other away.  From `SafetyInv` follow `SafetyTypeCorrect`,
`SafetyPermitsConserved`, `SafetyLadderBounded`, `SafetyEscalationFinal`, and the refinements
`LaunchSlotImplementsCorridor` and `LandingSlotImplementsCorridor`: the drone inside, if any, is
unique, so each step enters an empty zone, empties it, or leaves it alone.

**`Orchestrator_proofs`** (assumes `TimingAssumption`; the theorems hold for every
`Faults`, but for the last).  `NoDroneForgotten` speaks of the end, so its strengthening follows each drone
from the start.  `DroneInv(d)` ties the agent's `await` to the slot it may be in,
the latch to `emergency_land`, and says that a drone in the air with a free latch is
believed airborne, is at its takeoff, or has a dead agent.  It needs the
facts that look unrelated: a landed ladder has the drone on the ground, a
DONE agent is not running, a trip is always an agent's last landing.  `ShutdownInv` says what
reconciliation has `Settled`.  Three lemmas (`TickEffect`, `AnswerEffect`, `CancelEffect`) say what
an agent's step does to its own drone, `AgentFrame` that it touches no
other; `DriftPreserves` covers all steps that touch no drone.  Then:

* `MissionTypeCorrect`, `MissionForgetsNoDrone`, `MissionShutdownLandsNothing`;
* `MissionCommandsEmergencyOnce`: `DroneInv` counts the calls, `commanded[d]` is 1 if the latch is
  set and 0 if it is free, and a FAILED drone's latch is set;
* `MissionUsesController`: the mission implements `SafetySpec`, because an agent calls from
  awaits at which `DroneInv` has it outside both slots; hence `MissionKeepsCorridor`, the
  two corridor refinements for the whole program;
* `MissionAttributesStop`, from `AttributionInv`: while the loop supervises, a stop has been
  logged or has a trip or the abort key behind it; afterwards no guard can trip;
* `MissionCleanExit`, under `"swallow" \notin Faults`, from `KeptInv`: a DONE agent's drone is down; past the
  reap no agent is alive, so a latch that the reconciliation set is never an agent's that runs on.

**`ConvoyMission_proofs`** (assumes `RegistryAssumption`, `ConfirmAssumption`,
`ServicedAssumption`).  `ConvoyInv` adds to the three checked invariants the types and that an
active tracker has a target.  The lemmas about one registry entry come first (claim,
renewal, release, expiry, flag, offer), then each step of the phase, seen from
the convoy it works on, with all others framed away.  Theorems: `ConvoyTypeCorrect`,
`ConvoyFlagsDieWithClaim`, `ConvoyOwnerTracks`, `ConvoyFlagsAgree`, and
`ConvoyImplementsOwnership`, where acquiring maps to a take, a hand-over or a service, a late
or early release to a loss, a service or a stutter, the beat to offers, and
the passing of time to the loss of the locks that lapse.

**`LandOnPad_proofs`** (assumes `PadMapAssumption`, and `LandingAssumption`, what the constructor
enforces).  `OneDronePerPad` follows from `TargetOwned`, that a follower's target is a beacon it owns (or, on
the blob, no beacon), which is inductive because an owner is never replaced.  The
bound of `losses` needs `LossesBounded`: only a drone that has given up is past the limit.
`LandingInv` conjoins both with the types.  `PushedWindow` says what the bounded window keeps, `MarkerFrameEffect` and
`SeesEffect` what one frame does to the map: verdicts only turn towards red, and at most one
pad, free and not red, is taken.  `OneDroneMoves` frames the other drones away, and each outcome of
a step has its own lemma.  Theorems: `LandingTypeCorrect`, `LandingOneDronePerPad`,
`LandingDescendsOnGreen` and `LandingImplementsPadClaims`, where a frame maps to a `Look` and
all else to a stutter.

**`PyhulaxAdapter_proofs`** (assumes `FreshAssumption`, `IdleAssumption`).  The refinement needs to know who
may be on the worker: `WorkerInv` says that the queue holds each caller at most once and only
callers that wait, and that `by` names the caller of the running job; `SharingInv` which calls of the two callers can
meet; `TrustInv` that a call that steers was let in by a trusted adapter, and that `connect()` queues behind whatever was given up.  Their
conjunction with the types, `LineInv`, is inductive and gives `AdapterImplementsCommandLine`: starting and
ending a job map to those of the line, giving up to a loss of trust, all else to a stutter.
`StampInv` (a snapshot is not younger than the outage) gives `AdapterSteersOnLiveLink`, and with it
`AdapterReadyMeansHeard`: an adapter that is ready has had telemetry of its link.

**`Preflight_proofs`** (assumes `FleetAssumption`).  `PreflightInv` says, per gate and per index of its loop, what the
drones already passed have shown, that a dropped drone is neither linked, streaming nor flown, and what a start that is over may leave on.  `FleetSize` relates the loop's end to the cardinality of the fleet, by the counting theorems of
the library.  Theorems: `PreflightTypeCorrect`, `PreflightFliesOnlyWhatPassed`,
`PreflightNothingLeftUp`, `PreflightCasualtyStaysDown`.

**`Perception_proofs`** (assumes `PerceptionAssumption`).  `AckedIdsHold` is inductive only with `KnownInv` and `MirrorIsFile` (what the process holds for the file is the file) and
`LockInv` (who writes holds the lock of an open log, and writes what it has sighted).  `FramesInv`, `QuietInv`, `EndInv` and `NotedInv` say what each thread may still do at each
stage of the end of a run, and that a sighting about to be published is a row, or was refused by the codec.  Theorems:
`PerceptionTypeCorrect`, `LogAckedIdsHold`, `LogMirrorIsFile`, `SightingsSeenMeansLogged`,
`LogClosedBehindCallbacks`.

The bus has an invariant of its own, `BusInv` (`BusInvariant`).  `ReadExactlyOnce` speaks of what has been given; what
a drain will give depends on the deque, so `DequeInv` says that the deque holds the last publications with their
numbers, `GivenInv` that a reader was given ascending numbers up to its cursor, and `AccountedInv` that each publication a reader wants was
missed, given, or is in the deque ahead of its cursor.  The selection a drain makes (`News`) is a recursive function over the deque; lemmas say that
it keeps order and picks just the entries past the cursor.  Hence `BusReadExactlyOnce`.

**`Navigate_proofs`** (assumes `PlannerAssumption`, `WorldsAssumption`: worlds are made of points and
`Farthest` bounds the distances between their nodes; and `NavigateAssumption`).

*The planner.*  `PlanIsShortest` speaks of the answer; `SearchInv` says why a search that stops at the first
pop of the goal has it.

* `CostInv`: the start costs nothing, and what is finalised was reached.
* `FrontierInv`: an open node has an entry with just its cost plus the straight line to the goal (`H`), no
  entry promises less than its node costs, and none less than any finalised node did.  The last part is inductive because `H` is consistent,
  the triangle inequality for distances that are rounded up (`Distances`, from `Plane`).
* `ClosedInv`: no segment out of a finalised node is a short cut, so finalised nodes are never improved.
* `CameInv` and `DepthInv`: `came_from` leads over segments of the graph back to the start, in no more steps than nodes are finalised,
  which is what ends `PathTo`.

When the goal is popped, no walk through what is still open can be cheaper (`GoalIsNearest`); when the
heap is empty, what is finalised is all a walk can reach (`GoalIsCutOff`).  The reference is not assumed to be right:
`WalksBounded` shows by the same costs that no walk it finds is shorter, `WalksReach` that it finds one as short as the route, which by
`DepthInv` has no more nodes than the graph.  `PathIsTrail` and `TrailIsRoute` relate
`_reconstruct` to the length.  Theorems: `PlanInvariant`, `PlannerIsShortest`.

*The transit.*  `NavInv` says that each leg lies along a segment of the route and has its heading with the offset
baked in (`LegsInv`), that a current reading is the compass's own (`BodyInv`), where the phase
stands (`PlaceInv`, `CommandInv`), and that the legs flown are those behind it that do not round to nothing (`FlownInv`).  "Behind" depends on whether the Move in flight has
ended and how: that is what makes `RouteFlownInOrder` inductive.  `OffsetCancels` is the arithmetic of
readings modulo the circle.  Theorems: `NavInvariant`, `TransitTypes`, `FlownInOrder`, `NoseIsOnLeg`.

*Clear of the keep-outs.*  `PlanStaysClear` does not hold of every arena: `corner_threading` refutes it.  `PlanKeepsClear` says
that threaded corners are all there is to it: at any time, if the keep-outs are boxes (`BoxesOnly`: a quadrilateral along the
axes, wound either way) and no line between two nodes threads corners (`CornersThreaded`), no leg of the plan passes
through an inflated keep-out, but by a gate that fits.  The code takes any ring of three points
or more for a keep-out; of the others the theorem says nothing.  `BoxWorldsStayClear` is the same for the whole instance.

* *The test.*  Take a segment through the inside of a box, with both ends outside.  If it properly crosses no side, then it touches the boundary
  where it comes in and where it goes out, and each contact is a corner or one of its ends (`Rising`;
  `FallingThreads` mirrors it).  The two contacts lie on no common side, so either the midpoint is
  inside, which the test sees, or the segment threads corners (`SlipThreads`, `ClearOrThreads`).
* *Inside.*  The ray cast is exact for boxes: an odd number of crossings, off the boundary, is the same as lying strictly between the
  lower and the upper corner (`StrictlyInside`), and doubling a box and a point, as the midpoint test does, changes nothing (`Doubled`).
* *Inflation.*  The winding of a box follows from its area (`FourArea`, `BoxWinding`), so its normals point outwards and the mitred
  offset of a box is a box (`InflatedBox`).
* *The nodes.*  A segment ends in nodes, and no node lies inside a ring (`NodesOutside`): corners that do were
  left out of the graph, and a search only begins from a start and to a goal that are not trapped (`SearchesUntrapped`).

*Recursion.*  The library's induction theorems cannot be used here (they take an operator).  Instead, `Least` gives the
least number of a set from well-foundedness, `CountingUp` is induction over a set of numbers, and `Recursion`
shows that a base value and a step make a function; what `Only`, `FlattenSeq`, `PathTo`,
`RouteLength` and `ShortestWalks` compute follows from these three.

## Only model-checked

* Liveness under fairness (`LandingEnds`, `MissionEnds`, `CrashIsSafed`, `PhaseEnds`, `CallsReturn`, `TransitEnds`,
  `StartIsDecided`): out of the prover's reach.
* `PlanStaysClear` where an inflated keep-out is no box or corners are threaded.  Of those arenas it is proved only that each leg is a
  segment of the visibility graph (`PlannerIsShortest`); with threaded corners it is false (`corner_threading`).  Every other
  safety property the runs check is a theorem without such conditions.

## Not modelled

* `SitlAdapter`, `MockAdapter`: stand-ins in rehearsal and tests, with the contract of the adapter.
* Guard thresholds: the model lets a guard trip at any tick with any verdict, which is
  more than the guards do.  Their edge latches decide how often an advisory is repeated, not what flies.
  Of the swarm guards only a land-grade verdict is modelled (a stop).
* Of the pads: the phase without a shared map, the provenance fields and the snapshot for the
  heartbeat, an `is_flying` the SDK never reports.
* Of perception: what is seen in a picture, the degraded rate, health logging, the restart ladder of the live stream.
  A picture is taken to come with its number, where `PyhulaxVideoSource` reads the
  number after the picture.  `main` makes a new directory per run, so that reopening an existing
  `sightings.csv` is the class's contract (its demo does it) and no path of a mission.  What a detector publishes after
  the orchestrator's last drain stays out of `mission.jsonl`, and a keep-out that is added to the obstacle
  map after the routes were planned is never looked at; neither is a property of these modules.
* Of preflight: packet parsing, the warning gate P7, reporting.
* Geometry over floats: `frame.py`, `partition.py`, `map_sensing.py`, dead reckoning, the mitre of corners
  that are not right angles.  There is nothing discrete in them to check exhaustively.
* Quantities that only a clock on the wall decides: the settle grace against three ladders in a row.
* Search, takeoff and demo phases: three fixed lists of actions; `DroneAgent` allows every sequence of actions.
* Configuration parsing (the relations that matter are the ASSUMEs), the command line and the builders of `main.py`, the
  tools, `sim/`, `precomp/`, models, notebooks: not part of a mission's coordination.  They are most of the
  repository's lines.

## Plan

The modules above stand in this order of importance: controller and mission, convoys, pads,
adapter, preflight, sightings, transit.  What would come next:

1. The video feed: the restart ladder of `PyhulaxVideoSource`, the frame key across a restart, `VideoWatchdog` and
   the shed latch, composed with `Perception`.
2. The latches and streaks of the guards, `LoopOverrunGuard` against an event loop that a restart blocks.
3. One mission per phase: `Navigate` and `LandOnPad` in place of the free choice of actions in
   `DroneAgent`, and `PyhulaxAdapter` in place of its free answers, by the refinement `CommandLine` offers.
