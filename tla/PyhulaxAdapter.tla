--------------------------- MODULE PyhulaxAdapter ---------------------------
(***************************************************************************)
(* finals.flight.pyhulax_adapter.PyhulaxAdapter: one real drone behind a   *)
(* blocking SDK.  Every SDK call is a job of a pool with one worker thread *)
(* (the choke point), awaited with a deadline: a job that is still queued  *)
(* when its caller goes never runs, one that runs goes on without it.  A   *)
(* poller thread reads the telemetry; commands that steer are refused when *)
(* it is stale, when the poller found the link dead, and while degraded.   *)
(*                                                                         *)
(* Two coroutines call: the agent (connect, commands, disconnect) and the  *)
(* safe-down next to it (the land() of a trip task, emergency_land()).     *)
(* One action is the code of a coroutine between two awaits, or one step   *)
(* of a thread.  A deadline may pass at any moment.                        *)
(***************************************************************************)
EXTENDS Integers, Sequences

CONSTANTS
  Fresh,      \* fresh_s, in ticks of the clock
  Stuck,      \* whether a getter may block longer than the 2 s of join()
  NoJob       \* the worker is idle

ASSUME FreshAssumption == Fresh \in Nat /\ Stuck \in BOOLEAN

Callers == {"agent", "safe"}
Steering == {"takeoff", "fly", "led"}  \* gated on degraded; fly: move, rotate, hover
Landings == {"land", "emergency"}
Dialing == {"dial", "redial", "failsafe"}
Answers == {"ok", "lost", "timeout", "error"}
Ops == Steering \union Landings \union Dialing \union {"unlink"}

ASSUME IdleAssumption == NoJob \notin Ops

VARIABLES
  at,         \* at[c]: where the coroutine is
  op,         \* op[c]: the SDK call it is in
  answer,     \* answer[c]: what its future holds, at "answered"
  pool,       \* _pool: not yet made, up, or shut down
  queue,      \* the callers whose jobs wait for the worker
  running,    \* the SDK call the worker is in
  by,         \* who awaits that call: a caller, or how the caller went
  connected,  \* _connected
  degraded,   \* degraded
  airborne,   \* _airborne, the adapter's belief
  pollers,    \* the poller threads alive: of this link, of an "old" one
  seen, age,  \* _state.ts is set; its age in ticks, Fresh + 1 at most
  dead,       \* _state.dead: by which poller it was set
  up, down    \* the link is up; if not, the ticks it has been down

coroutines == <<at, op, answer>>
worker     == <<pool, queue, running, by>>
flags      == <<connected, degraded, airborne>>
telemetry  == <<pollers, seen, age, dead, up, down>>
vars == <<coroutines, worker, flags, telemetry>>

TypeOK ==
  /\ at \in [Callers -> {"idle", "waiting", "answered", "first"}]
  /\ op \in [Callers -> Ops \union {NoJob}]
  /\ answer \in [Callers -> Answers]
  /\ pool \in {"none", "up", "closed"}
  /\ queue \in Seq(Callers)
  /\ \A i \in DOMAIN queue : at[queue[i]] = "waiting"
  /\ running \in Ops \union {NoJob}
  /\ by \in Callers \union {"nobody", "timedOut", "cancelled"}
  /\ connected \in BOOLEAN /\ degraded \in BOOLEAN /\ airborne \in BOOLEAN
  /\ pollers \subseteq {"this", "old"} /\ dead \in {"no", "this", "old"}
  /\ seen \in BOOLEAN /\ age \in 0..(Fresh + 1)
  /\ up \in BOOLEAN /\ down \in 0..(Fresh + 1)

Init ==
  /\ at = [c \in Callers |-> "idle"] /\ op = [c \in Callers |-> NoJob]
  /\ answer = [c \in Callers |-> "ok"]
  /\ pool = "none" /\ queue = <<>> /\ running = NoJob /\ by = "nobody"
  /\ connected = FALSE /\ degraded = FALSE /\ airborne = FALSE
  /\ pollers = {} /\ seen = FALSE /\ age = 0 /\ dead = "no"
  /\ up = TRUE /\ down = 0

(***************************************************************************)
(* The choke point: _run_blocking() and the single worker.                 *)
(***************************************************************************)
\* run_in_executor(): the job goes to the end of the pool's queue.
Submit(c, o) ==
  /\ at' = [at EXCEPT ![c] = "waiting"]
  /\ op' = [op EXCEPT ![c] = o]
  /\ queue' = Append(queue, c)
  /\ answer' = [answer EXCEPT ![c] = "ok"]
  /\ UNCHANGED <<running, by>>

\* The coroutine of the adapter ends, with a result or an exception.
Return(c) ==
  /\ at' = [at EXCEPT ![c] = "idle"]
  /\ op' = [op EXCEPT ![c] = NoJob]
  /\ answer' = [answer EXCEPT ![c] = "ok"]

StartJob ==
  /\ running = NoJob /\ queue # <<>>
  /\ by' = Head(queue) /\ running' = op[Head(queue)]
  /\ queue' = Tail(queue)
  /\ UNCHANGED <<coroutines, pool, flags, telemetry>>

\* The SDK call returns or raises; its future answers whoever still waits.
\* "lost" is a DroneConnectionError (or a False of robust_connect).
FinishJob ==
  /\ running # NoJob
  /\ IF by \in Callers
     THEN /\ at' = [at EXCEPT ![by] = "answered"]
          /\ answer' \in {[answer EXCEPT ![by] = a] : a \in Answers}
     ELSE UNCHANGED <<at, answer>>
  /\ running' = NoJob /\ by' = "nobody"
  /\ UNCHANGED <<op, pool, queue, flags, telemetry>>

Range(s) == {s[i] : i \in DOMAIN s}

\* wait_for() cancels the future of a caller that goes: a queued job never
\* runs, a running one goes on.
Withdraw(c, how) ==
  /\ IF c \in Range(queue)
     THEN \E k \in DOMAIN queue :
            /\ queue[k] = c
            /\ queue' = SubSeq(queue, 1, k - 1) \o SubSeq(queue, k + 1, Len(queue))
     ELSE UNCHANGED queue
  /\ by' = IF by = c THEN how ELSE by
  /\ UNCHANGED running

(***************************************************************************)
(* connect(): dial, at most one redial, the battery failsafe, the first    *)
(* reading.                                                                *)
(***************************************************************************)
\* While a trip task lands the drone its agent only waits for it.
TripLands == at["safe"] # "idle" /\ op["safe"] = "land"
AgentFree == at["agent"] = "idle" /\ ~TripLands

\* Stopping the poller waits 2 s for it, which a blocked getter outlasts: the
\* thread then goes on under the Event and the state of the next link.
StopPoller ==
  pollers' \in {pollers \ {"this"}} \union
               (IF Stuck /\ "this" \in pollers THEN {{"old"}} ELSE {})

Connect ==
  /\ AgentFree /\ pool # "closed" /\ ~(connected /\ ~degraded)
  /\ Submit("agent", "dial")
  /\ pool' = "up"
  /\ StopPoller
  /\ seen' = FALSE /\ age' = 0 /\ dead' = "no" /\ airborne' = FALSE
  /\ UNCHANGED <<connected, degraded, up, down>>

\* _map_sdk_error(): a timeout of the SDK's own degrades like a deadline.
Degrading(c) == answer[c] = "timeout"

Failed(c) ==
  /\ Return(c)
  /\ degraded' = (degraded \/ Degrading(c))
  /\ UNCHANGED <<worker, connected, airborne, telemetry>>

Dialed ==
  /\ at["agent"] = "answered" /\ op["agent"] \in {"dial", "redial"}
  /\ CASE answer["agent"] = "ok" ->
            Submit("agent", "failsafe") /\ UNCHANGED <<pool, flags, telemetry>>
       [] answer["agent"] = "lost" /\ op["agent"] = "dial" ->
            \/ Submit("agent", "redial") /\ UNCHANGED <<pool, flags, telemetry>>
            \/ Failed("agent")                    \* no time is left
       [] OTHER -> Failed("agent")

FailsafeSet ==
  /\ at["agent"] = "answered" /\ op["agent"] = "failsafe"
  /\ IF answer["agent"] = "ok"
     THEN /\ at' = [at EXCEPT !["agent"] = "first"]
          /\ pollers' = pollers \union {"this"}
          /\ UNCHANGED <<op, answer, worker, flags, seen, age, dead, up, down>>
     ELSE Failed("agent")

FirstReading ==
  /\ at["agent"] = "first"
  /\ seen \/ dead # "no"
  /\ Return("agent")
  /\ IF seen THEN connected' = TRUE /\ degraded' = FALSE
     ELSE UNCHANGED <<connected, degraded>>
  /\ UNCHANGED <<worker, airborne, telemetry>>

(***************************************************************************)
(* The commands.                                                           *)
(***************************************************************************)
\* Mutant of Trusted: a timeout is no reason to refuse.
DegradedIgnored == connected

\* _check_alive_fresh()
AliveFresh == dead = "no" /\ seen /\ age <= Fresh

\* _gate_connected() and _gate_not_degraded()
Trusted == connected /\ ~degraded

Steer(o) ==
  /\ AgentFree /\ Trusted
  /\ \/ o = "takeoff" /\ ~airborne /\ AliveFresh
     \/ o = "fly" /\ airborne /\ AliveFresh
     \/ o = "led"
  /\ Submit("agent", o)
  /\ UNCHANGED <<pool, flags, telemetry>>

\* land() of the agent, or of a trip task while the agent is not in a command.
Land(c) ==
  /\ AgentFree /\ at[c] = "idle" /\ connected
  /\ Submit(c, "land")
  /\ UNCHANGED <<pool, flags, telemetry>>

\* Ungated, and wherever the agent is; without a pool it commands nothing.
EmergencyLand ==
  /\ at["safe"] = "idle" /\ pool = "up"
  /\ Submit("safe", "emergency")
  /\ airborne' = FALSE
  /\ UNCHANGED <<pool, connected, degraded, telemetry>>

\* _call() ends; emergency_land() swallows whatever came.
Commanded(c) ==
  /\ at[c] = "answered" /\ op[c] \in Steering \union Landings
  /\ Return(c)
  /\ degraded' = (degraded \/ (Degrading(c) /\ op[c] # "emergency"))
  /\ airborne' = CASE answer[c] = "ok" /\ op[c] = "takeoff" -> TRUE
                   [] answer[c] = "ok" /\ op[c] = "land" -> FALSE
                   [] OTHER -> airborne
  /\ UNCHANGED <<worker, connected, telemetry>>

(***************************************************************************)
(* disconnect(): unlink on the worker, then the pool is shut down, which   *)
(* cancels the future of a safe-down still queued.                         *)
(***************************************************************************)
\* Nobody connects again afterwards, so what the stopped poller still does is
\* left out.
Disconnect ==
  /\ at["agent"] = "idle" /\ pool = "up"
  /\ Submit("agent", "unlink")
  /\ pollers' = {} /\ connected' = FALSE
  /\ UNCHANGED <<pool, degraded, airborne, seen, age, dead, up, down>>

ShutDown(rest) ==
  /\ pool' = "closed" /\ queue' = <<>>
  /\ LET gone == {"agent"} \union Range(rest) IN
       /\ at' = [c \in Callers |-> IF c \in gone THEN "idle" ELSE at[c]]
       /\ op' = [c \in Callers |-> IF c \in gone THEN NoJob ELSE op[c]]
       /\ answer' = [c \in Callers |-> IF c \in gone THEN "ok" ELSE answer[c]]

Unlinked ==
  /\ at["agent"] = "answered" /\ op["agent"] = "unlink"
  /\ ShutDown(queue)
  /\ UNCHANGED <<running, by, flags, telemetry>>

(***************************************************************************)
(* Deadlines and cancellation.                                             *)
(***************************************************************************)
\* The caller goes without an answer; disconnect() shuts the pool down
\* however it ends (its finally).
Leave(c, how) ==
  IF op[c] = "unlink"
  THEN /\ ShutDown(queue)
       /\ by' = IF by = c THEN how ELSE by
       /\ UNCHANGED running
  ELSE Return(c) /\ Withdraw(c, how) /\ UNCHANGED pool

\* _timeout() degrades; the bounds of emergency_land() and of disconnect()
\* only give up.
Expire(c) ==
  /\ IF op[c] \in {"emergency", "unlink"}
     THEN Leave(c, "cancelled") /\ UNCHANGED degraded
     ELSE Leave(c, "timedOut") /\ degraded' = TRUE
  /\ UNCHANGED <<connected, airborne, telemetry>>

\* Mutant of Deadline: connect() waits for the first reading without a bound.
DeadlineOfJobs(c) == at[c] = "waiting" /\ Expire(c)

Deadline(c) == at[c] \in {"waiting", "first"} /\ Expire(c)

\* The coroutine is cancelled (the agent's outer deadline, Ctrl+C): nothing
\* is recorded.
Cancel(c) ==
  /\ at[c] # "idle"
  /\ Leave(c, "cancelled")
  /\ UNCHANGED <<flags, telemetry>>

(***************************************************************************)
(* The telemetry poller (2 Hz), the link and the clock.  A getter answers  *)
(* only while the link is up; else it raises, is unavailable, or blocks.   *)
(***************************************************************************)
\* Mutant of PollReads: TelemetryUnavailable refreshes the time stamp too.
PollStampsGaps(p) ==
  /\ p \in pollers
  /\ seen' = TRUE /\ age' = 0
  /\ UNCHANGED <<coroutines, worker, flags, pollers, dead, up, down>>

PollReads(p) ==
  /\ p \in pollers /\ up
  /\ seen' = TRUE /\ age' = 0
  /\ UNCHANGED <<coroutines, worker, flags, pollers, dead, up, down>>

\* A link error, or an unexpected one: flag it and stop polling.  The first
\* flag stays.
PollDies(p) ==
  /\ p \in pollers
  /\ pollers' = pollers \ {p}
  /\ dead' = IF dead = "no" THEN p ELSE dead
  /\ UNCHANGED <<coroutines, worker, flags, seen, age, up, down>>

LinkChanges ==
  /\ up' = ~up /\ down' = 0
  /\ UNCHANGED <<coroutines, worker, flags, pollers, seen, age, dead>>

Older(n) == IF n > Fresh THEN n ELSE n + 1

Tick ==
  /\ age' = Older(age)
  /\ down' = IF up THEN 0 ELSE Older(down)
  /\ UNCHANGED <<coroutines, worker, flags, pollers, seen, dead, up>>

Resume(c) ==
  \/ Commanded(c)
  \/ c = "agent" /\ (Dialed \/ FailsafeSet \/ FirstReading \/ Unlinked)

Call ==
  \/ Connect \/ EmergencyLand \/ Disconnect
  \/ \E o \in Steering : Steer(o)
  \/ \E c \in Callers : Land(c)

Thread ==
  \/ StartJob \/ FinishJob
  \/ \E p \in {"this", "old"} : PollReads(p) \/ PollDies(p)

Next ==
  \/ Call \/ Thread \/ LinkChanges \/ Tick
  \/ \E c \in Callers : Resume(c) \/ Deadline(c) \/ Cancel(c)

Spec == Init /\ [][Next]_vars

\* The event loop runs what can run, and wait_for() raises when its time is
\* up.  Nothing is assumed of the SDK: a call may never return.
FairSpec ==
  /\ Spec
  /\ \A c \in Callers : WF_vars(Resume(c)) /\ WF_vars(Deadline(c))

-----------------------------------------------------------------------------
(***************************************************************************)
(* Properties.                                                             *)
(***************************************************************************)
\* The choke point and its caveat: the drone has one SDK call at a time, no
\* command that steers starts on it between a FlightTimeout and a successful
\* connect(), and connect() succeeds only when the call that was given up is
\* over, because its own calls queue behind it.
Line == INSTANCE CommandLine
          WITH Commands <- Ops, Idle <- NoJob,
               busy <- running, givenUp <- (by = "timedOut"),
               trusted <- ~degraded
ImplementsCommandLine == Line!Spec

\* An adapter that accepts commands has telemetry of the link it commands
\* over: no way through a failed, timed-out or cancelled connect() (which may
\* leave _connected set from before) gives a usable adapter without it.
ReadyMeansHeard == Trusted => seen

\* A takeoff or a move is only ever sent when the link was up within the last
\* fresh_s: the poller's time stamp is never younger than the outage.
SteersOnLiveLink ==
  [][\A o \in {"takeoff", "fly"} :
       at["agent"] = "idle" /\ at'["agent"] = "waiting" /\ op'["agent"] = o
         => down <= Fresh]_vars

\* A hung drone cannot stall its callers: every call of the adapter returns,
\* though the SDK may never answer again.
CallsReturn == \A c \in Callers : (at[c] # "idle") ~> (at[c] = "idle")
==============================================================================
