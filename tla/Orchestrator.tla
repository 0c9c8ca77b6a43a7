---------------------------- MODULE Orchestrator ----------------------------
(***************************************************************************)
(* finals.mission.orchestrator.Orchestrator.run() supervising the agents,  *)
(* with the operator's abort key (a thread), Ctrl+C, and asyncio.run()     *)
(* around it all, which ends every task that is left when main returns.    *)
(*                                                                         *)
(* The whole mission is this module: it extends DroneAgent, and so the     *)
(* SafetyController.  One beat of the supervision loop is one action: it   *)
(* has no await but the sleep at its end.                                  *)
(***************************************************************************)
EXTENDS DroneAgent

VARIABLES
  orch,      \* where the orchestrator's task is
  todo,      \* agents the current loop of _settle_and_shutdown has left
  cur,       \* the agents whose emergency_land it awaits: at most one
  abortKey,  \* "idle", "set" (abort_event), "woken" (stop.set scheduled too)
  stopLog,   \* the stop attributions logged; non-empty iff _stop_seen
  exitCode   \* what run() returned: 0, 1, or 2 while it has not

vars == <<agentVars, orch, todo, cur, abortKey, stopLog, exitCode>>

mission == <<orch, todo, cur, stopLog, exitCode>>

TypeOK ==
  /\ AgentTypeOK
  /\ orch \in {"supervise", "reap", "reconcile", "shutdown", "returned",
               "raised", "abandoned", "closed"}
  /\ todo \subseteq Drones /\ cur \subseteq Drones
  /\ abortKey \in {"idle", "set", "woken"}
  /\ stopLog \subseteq {"abort_key", "agent", "mission", "interrupt"}
  /\ exitCode \in {0, 1, 2}

Init ==
  /\ AgentInit
  /\ orch = "supervise" /\ todo = {} /\ cur = {}
  /\ abortKey = "idle" /\ stopLog = {} /\ exitCode = 2

Pending == {d \in Drones : Alive(d)}

(***************************************************************************)
(* The supervision loop: one beat.  Each cause looks at the stop event as  *)
(* the causes before it left it.                                           *)
(***************************************************************************)
AbortSeen == abortKey # "idle" /\ "abort_key" \notin stopLog

\* ownCause: a land-grade swarm guard, or every convoy is serviced; like the
\* budget they only count, and are only logged, if nothing stopped us before.
Beat(ownCause) ==
  LET aborted == AbortSeen
      agent   == stop /\ stopLog = {} /\ ~aborted
      own     == (ownCause \/ clock # "flying") /\ ~stop /\ ~aborted
  IN /\ orch = "supervise" /\ Pending # {} /\ clock # "over"
     /\ stop' = (stop \/ aborted \/ own)
     /\ stopLog' = stopLog \union (IF aborted THEN {"abort_key"} ELSE {})
                           \union (IF agent THEN {"agent"} ELSE {})
                           \union (IF own THEN {"mission"} ELSE {})
     /\ UNCHANGED <<controller, agentLocal, clock, orch, todo, cur, abortKey,
                    exitCode>>

\* Mutant of Settle: no last look at the abort event, so that a key pressed
\* after the last beat is taken for an agent's stop.
SettleWithoutPoll(logged) ==
  /\ stopLog' = IF stop /\ logged = {} THEN {"agent"} ELSE logged
  /\ stop' = TRUE
  /\ cancelReq' = Pending
  /\ orch' = "reap"
  /\ UNCHANGED <<controller, pc, safeVars, airborne, flying, pendingTrip,
                 clock, todo, cur, abortKey, exitCode>>

\* The head of _settle_and_shutdown, up to its first await: late attribution
\* of a stop no beat saw, then cancel whatever is left.
Settle(logged) ==
  LET aborted == abortKey # "idle" /\ "abort_key" \notin logged
      log     == IF aborted THEN logged \union {"abort_key"} ELSE logged
  IN /\ stopLog' = IF stop /\ log = {} THEN {"agent"} ELSE log
     /\ stop' = TRUE
     /\ cancelReq' = Pending
     /\ orch' = "reap"
     /\ UNCHANGED <<controller, pc, safeVars, airborne, flying, pendingTrip,
                    clock, todo, cur, abortKey, exitCode>>

\* The loop ends: every task is done, or the hard deadline is past.
SupervisionEnds ==
  /\ orch = "supervise" /\ (Pending = {} \/ clock = "over")
  /\ Settle(stopLog)

\* Ctrl+C cancels the main task.  In the loop it is handled; inside
\* _settle_and_shutdown nothing catches it and the rest is not run.
Interrupt ==
  /\ "interrupt" \in Faults
  /\ \/ orch = "supervise" /\ Settle(stopLog \union {"interrupt"})
     \/ /\ orch \in {"reap", "reconcile", "shutdown"}
        /\ orch' = "abandoned"
        /\ UNCHANGED <<agentVars, todo, cur, abortKey, stopLog, exitCode>>

(***************************************************************************)
(* _settle_and_shutdown: reap, reconcile every agent, shut every agent     *)
(* down.                                                                   *)
(***************************************************************************)
\* Mutants of SafeDown: the latch is only set once emergency_land has answered,
\* so that one still in flight is not seen; an agent whose task raised is
\* skipped as already dealt with.
SafeDownLateLatch(d, needed) ==
  /\ todo' = todo \ {d}
  /\ IF needed /\ emergency[d] \notin {"returned", "hung"}
     THEN CommandEmergency(d) /\ cur' = {d}
     ELSE UNCHANGED <<latchVars, cur>>

SafeDownLiving(d, needed) ==
  /\ todo' = todo \ {d}
  /\ IF needed /\ d \notin latched /\ pc[d] # "crashed"
     THEN CommandEmergency(d) /\ cur' = {d}
     ELSE UNCHANGED <<latchVars, cur>>

\* One agent is dealt with.  If it must be safed and its latch is free, the
\* loop stops at its emergency_land.
SafeDown(d, needed) ==
  /\ todo' = todo \ {d}
  /\ IF needed /\ d \notin latched
     THEN CommandEmergency(d) /\ cur' = {d}
     ELSE UNCHANGED <<latchVars, cur>>

\* A cancellation is delivered within a turn of the loop, so the 30 s of
\* _REAP_TIMEOUT_S only pass when one was swallowed.
Reap ==
  /\ orch = "reap" /\ (Pending = {} \/ cancelReq = {})
  /\ orch' = "reconcile" /\ todo' = Drones
  /\ UNCHANGED <<agentVars, cur, abortKey, stopLog, exitCode>>

\* Mutants of Reconcile: it fails only the tasks whose exception is no
\* cancellation, only the cancelled ones, or only those that have ended.
ReconcileIf(d, forced) ==
  /\ orch = "reconcile" /\ cur = {} /\ d \in todo
  /\ state' = [state EXCEPT ![d] = IF forced THEN "FAILED" ELSE @]
  /\ SafeDown(d, forced)
  /\ UNCHANGED <<controller, pc, outside, orch, abortKey, stopLog, exitCode>>
ReconcileCrashed(d)   == ReconcileIf(d, pc[d] = "crashed" /\ state[d] # "DONE")
ReconcileCancelled(d) == ReconcileIf(d, pc[d] = "cancelled" /\ state[d] # "DONE")
ReconcileEnded(d) ==
  ReconcileIf(d, pc[d] \in {"crashed", "cancelled"} /\ state[d] # "DONE")

\* fail_safe(): a no-op for a DONE agent, else _fail() behind the latch.
Reconcile(d) ==
  /\ orch = "reconcile" /\ cur = {} /\ d \in todo
  /\ LET forced == pc[d] # "returned" /\ state[d] # "DONE" IN
       /\ state' = [state EXCEPT ![d] = IF forced THEN "FAILED" ELSE @]
       /\ SafeDown(d, forced)
  /\ UNCHANGED <<controller, pc, outside, orch, abortKey, stopLog, exitCode>>

ReconcileEnds ==
  /\ orch = "reconcile" /\ cur = {} /\ todo = {}
  /\ orch' = "shutdown" /\ todo' = Drones
  /\ UNCHANGED <<agentVars, cur, abortKey, stopLog, exitCode>>

\* shutdown(): land what is still airborne, then disconnect.
Shutdown(d) ==
  /\ orch = "shutdown" /\ cur = {} /\ d \in todo
  /\ SafeDown(d, d \in airborne)
  /\ UNCHANGED <<controller, pc, state, outside, orch, abortKey, stopLog,
                 exitCode>>

\* Mutant of SafeDownAnswered: their wait has no outer deadline.
SafeDownReturned(d) ==
  /\ orch \in {"reconcile", "shutdown"} /\ cur = {d}
  /\ emergency[d] = "returned"
  /\ Believe(d)
  /\ cur' = {}
  /\ UNCHANGED <<controller, pc, safeVars, flying, pendingTrip, cancelReq, stop,
                 clock, orch, todo, abortKey, stopLog, exitCode>>

\* fail_safe() and shutdown() resume when their emergency_land answers.
SafeDownAnswered(d) ==
  /\ orch \in {"reconcile", "shutdown"} /\ cur = {d}
  /\ emergency[d] \in {"returned", "hung"}
  /\ Believe(d)
  /\ cur' = {}
  /\ UNCHANGED <<controller, pc, safeVars, flying, pendingTrip, cancelReq, stop,
                 clock, orch, todo, abortKey, stopLog, exitCode>>

\* Mutant of Return: the exit code only asks how the tasks ended.
ReturnByTask ==
  /\ orch = "shutdown" /\ cur = {} /\ todo = {}
  /\ orch' = "returned"
  /\ exitCode' = IF \A d \in Drones : pc[d] = "returned" THEN 0 ELSE 1
  /\ UNCHANGED <<agentVars, todo, cur, abortKey, stopLog>>

\* run() returns its exit code, or re-raises what interrupted it.
Return ==
  /\ orch = "shutdown" /\ cur = {} /\ todo = {}
  /\ IF "interrupt" \in stopLog
     THEN orch' = "raised" /\ UNCHANGED exitCode
     ELSE /\ orch' = "returned"
          /\ exitCode' = IF \A d \in Drones : state[d] = "DONE" THEN 0 ELSE 1
  /\ UNCHANGED <<agentVars, todo, cur, abortKey, stopLog>>

(***************************************************************************)
(* Around the orchestrator: time, the abort thread, asyncio.run().         *)
(***************************************************************************)
ClockAdvances ==
  /\ clock # "over"
  /\ clock' = IF clock = "flying" THEN "grace" ELSE "over"
  /\ UNCHANGED <<controller, agentLocal, stop, mission, abortKey>>

\* AbortListener: abort_event first, then request_stop_threadsafe().
AbortKey ==
  /\ "abortkey" \in Faults
  /\ abortKey = "idle" /\ orch # "closed"
  /\ abortKey' = "set"
  /\ UNCHANGED <<agentVars, mission>>

AbortWakeup ==
  /\ abortKey = "set" /\ orch # "closed"
  /\ abortKey' = "woken" /\ stop' = TRUE
  /\ UNCHANGED <<controller, agentLocal, clock, mission>>

\* main returns and asyncio.run() cancels every task that still runs, the
\* shielded ones included.
LoopCloses ==
  /\ orch \in {"returned", "raised", "abandoned"}
  /\ orch' = "closed"
  /\ CancelAll
  /\ pc' = [d \in Drones |-> IF Alive(d) THEN "cancelled" ELSE pc[d]]
  /\ emergency' = [d \in Drones |-> IF emergency[d] = "running" THEN "killed"
                                    ELSE emergency[d]]
  /\ cancelReq' = {}
  /\ UNCHANGED <<state, airborne, flying, latched, commanded, pendingTrip,
                 stop, clock, todo, cur, abortKey, stopLog, exitCode>>

AgentRuns(d) ==
  /\ orch # "closed"
  /\ AgentStep(d)
  /\ UNCHANGED <<mission, abortKey>>

OrchStep ==
  \/ \E ownCause \in BOOLEAN : Beat(ownCause)
  \/ SupervisionEnds \/ Reap
  \/ \E d \in Drones : Reconcile(d) \/ Shutdown(d) \/ SafeDownAnswered(d)
  \/ ReconcileEnds \/ Return \/ LoopCloses

\* asyncio.run() is over: nothing happens any more.
Over == orch = "closed" /\ UNCHANGED vars

Next ==
  \/ \E d \in Drones : AgentRuns(d)
  \/ OrchStep \/ Interrupt \/ ClockAdvances \/ AbortKey \/ AbortWakeup
  \/ Over

Spec == Init /\ [][Next]_vars

\* Time passes, and every await of an agent, of a ladder, of emergency_land
\* and of the orchestrator carries a deadline, so as long as something is
\* awaited something happens.  The faults and the operator are owed nothing.
FairSpec ==
  /\ Spec
  /\ WF_vars(ClockAdvances) /\ WF_vars(OrchStep)
  /\ WF_vars(\E d \in Drones : AgentRuns(d))

-----------------------------------------------------------------------------
(***************************************************************************)
(* Properties.                                                             *)
(***************************************************************************)
\* "emergency_land EXACTLY ONCE": whoever commands it (the agent's own
\* failure path, the reconciliation of a dead task, shutdown), no drone is
\* commanded twice, even while the first command is still in flight behind
\* the shield of a cancelled agent; and it is commanded once for every drone
\* that is latched or was given up as FAILED.
EmergencyOnce ==
  \A d \in Drones :
    /\ commanded[d] <= 1
    /\ d \in latched \/ state[d] = "FAILED" => commanded[d] = 1

\* Clean shutdown: when run() is over, by return or by re-raise, a drone
\* that is still in the air is one whose emergency_land was commanded,
\* however its agent ended: crashed, cancelled, deaf to cancellation.
NoDroneForgotten ==
  orch \in {"returned", "raised"} => flying \subseteq latched

\* Reconciliation leaves shutdown() nothing to land ("abnormal path"): an
\* agent that believes it flies has had its emergency_land by then.
ShutdownLandsNothing == orch = "shutdown" => airborne \subseteq latched

\* The forensic record blames an agent for the stop only if a per-drone
\* guard did trip LAND_ALL: a stop set by the abort thread between two
\* beats, or at the edge of the budget, is not mistaken for one; and no
\* tripped LAND_ALL goes unattributed.
StopAttributed ==
  LET tripped == \E d \in Drones : pendingTrip[d] = "all" IN
  /\ "agent" \in stopLog => tripped
  /\ tripped /\ orch \notin {"supervise", "abandoned", "closed"} => stopLog # {}

\* The agents together use the SafetyController as it expects to be used:
\* one call at a time per drone, and slots that are always given back.
UsesSafetyController == SafetySpec

\* Exit code 0 is only reported with every drone on the ground.
CleanExitMeansGrounded == exitCode = 0 => flying = {}

\* The mission ends: no crash, hang or slow landing keeps run() going.
MissionEnds == <>(orch = "closed")

\* "drone is being safed down": a drone whose agent died in the air gets
\* its emergency_land, whatever the other agents do meanwhile.
CrashIsSafed ==
  \A d \in Drones :
    (pc[d] = "crashed" /\ d \in flying) ~> (d \in latched \/ d \notin flying)
=============================================================================
