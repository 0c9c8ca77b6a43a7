------------------------------ MODULE Navigate ------------------------------
(***************************************************************************)
(* The transit phase (src/finals/mission/phases/navigate.py) flown by the  *)
(* drone's agent over the plan Planner found: from_config turns the        *)
(* polyline into legs and bakes in the compass offset, step() turns the    *)
(* nose onto a leg's heading by bounded Rotates and flies the leg by one   *)
(* Move.  The yaw step() reads is the telemetry cache, refreshed by the    *)
(* adapter's poller and not by the command that turned the drone.          *)
(*                                                                         *)
(* The compass has Circle = 16 readings: the axes, the diagonals and the   *)
(* open sectors between them.                                              *)
(***************************************************************************)
EXTENDS Planner

CONSTANTS Tol,          \* heading_tol_deg, in readings
          MaxStep,      \* max_step_deg, in readings
          Offset,       \* arena.heading_offset_deg, in readings
          Unit,         \* one commanded unit of distance (1 cm), in the resolution of a distance
          Creep,        \* how far the nose may turn by itself in one command, readings
          MaxDrifts,    \* bound on the commands during which it does
          StartYaws,    \* what the compass may read after the takeoff
          NoYaw, NoCommand

Circle == 16

ASSUMPTION NavigateAssumption ==
    /\ Tol \in 0..8 /\ MaxStep \in 1..8 /\ Offset \in 0..15
    /\ Unit \in Nat \ {0} /\ Creep \subseteq -8..8 /\ MaxDrifts \in Nat
    /\ StartYaws \subseteq -7..8
    /\ NoCommand \notin [do : {"rotate", "move"}, by : Int]

VARIABLES legs,         \* the frozen plan: [heading, distance, along]
          flight,       \* "unplanned", "refused", "flying", "done", "aborted"
          leg,          \* _leg_idx, from 1
          substep,
          rots,         \* _rot_count
          command,      \* the action the agent is executing, or NoCommand
          failed,       \* last_action_ok is False
          late,         \* the budget has run out
          yaw,          \* where the compass would point now
          shown,        \* telemetry.yaw_deg, or NoYaw
          current,      \* shown was polled since the last command ended
          drifts,
          flown         \* the legs flown, in order

legVars == <<legs, flight, leg, substep, rots>>
bodyVars == <<yaw, shown, current, drifts>>
navVars == <<legVars, bodyVars, command, failed, late, flown>>

-----------------------------------------------------------------------------
(* wrap180, in (-Circle/2, Circle/2]. *)
Wrap(angle) ==
    LET w == angle % Circle
    IN IF w > Circle \div 2 THEN w - Circle ELSE w

AbsOf(x) == IF x < 0 THEN -x ELSE x
Clamp(x, lo, hi) == IF x < lo THEN lo ELSE IF x > hi THEN hi ELSE x

(* atan2(y, x), counted in compass readings. *)
Reading(x, y) ==
    LET quarter == CASE x > 0 /\ y >= 0 -> 0
                     [] x <= 0 /\ y > 0 -> 1
                     [] x < 0 /\ y <= 0 -> 2
                     [] OTHER -> 3
        turned == <<<<x, y>>, <<y, -x>>, <<-x, -y>>, <<-y, x>>>>[quarter + 1]
        within == CASE turned[2] = 0 -> 0
                    [] turned[2] > 0 /\ turned[2] < turned[1] -> 1
                    [] turned[2] > 0 /\ turned[2] = turned[1] -> 2
                    [] OTHER -> 3
    IN 4 * quarter + within

(* _heading_deg: east is clockwise of north. *)
Heading(a, b) == Reading(b[1] - a[1], -(b[2] - a[2]))

(* _polyline_to_legs: equal parts no longer than LongestLeg; "along" is the  *)
(* segment of the polyline a leg belongs to.                                 *)
Parts(i) ==
    LET total == Dist(route[i], route[i + 1])
        n == (total + LongestLeg - 1) \div LongestLeg
    IN [k \in 1..n |-> [heading |-> Heading(route[i], route[i + 1]),
                        distance |-> total \div n, along |-> i]]

PlannedLegs == FlattenSeq([i \in 1..(Len(route) - 1) |-> Parts(i)])

\* Mutant of Baked: the offset is taken off instead of added.
BakedBackwards(planned) ==
    [i \in DOMAIN planned |-> [planned[i] EXCEPT !.heading = Wrap(@ - Offset)]]

(* from_config's last step: every heading as the compass will read it. *)
Baked(planned) ==
    [i \in DOMAIN planned |-> [planned[i] EXCEPT !.heading = Wrap(@ + Offset)]]

(* int(round(distance_cm)) *)
Commanded(l) == (l.distance + Unit \div 2) \div Unit

RotCap == (Circle + MaxStep - 1) \div MaxStep + 4

NavInit ==
    /\ legs = <<>> /\ flight = "unplanned"
    /\ leg = 1 /\ substep = "rotate" /\ rots = 0
    /\ command = NoCommand /\ failed = FALSE /\ late = FALSE
    /\ yaw \in StartYaws /\ shown = yaw /\ current = TRUE /\ drifts = 0
    /\ flown = <<>>

(* from_config over a plan; the mission then takes off and enters the phase. *)
Enter ==
    /\ flight = "unplanned" /\ PlanReturns
    /\ PlannedLegs # <<>>
    /\ legs' = Baked(PlannedLegs)
    /\ flight' = "flying"
    /\ UNCHANGED <<leg, substep, rots, bodyVars, command, failed, late, flown>>

(* ConfigError: a plan of no legs is a wiring mistake. *)
Refuse ==
    /\ flight = "unplanned" /\ PlanReturns
    /\ PlannedLegs = <<>>
    /\ flight' = "refused"
    /\ UNCHANGED <<legs, leg, substep, rots, bodyVars, command, failed, late, flown>>

-----------------------------------------------------------------------------
Error(i) == Wrap(legs[i].heading - shown)
OffHeading(i) == AbsOf(Error(i)) > Tol

(* The leg the step is about: the one after a Move that has resolved. *)
Resolved == IF substep = "await_move" THEN leg + 1 ELSE leg

(* The loop of step(): a leg that rounds to nothing is passed over once the *)
(* nose is on its heading.                                                  *)
Stop ==
    Min({i \in Resolved..(Len(legs) + 1) :
            i > Len(legs) \/ OffHeading(i) \/ Commanded(legs[i]) > 0})

\* Mutant of RotsAt: the count starts again with every Rotate.
RotsForgotten(i) == 0

RotsAt(i) == IF i = Resolved THEN rots ELSE 0

Between == flight = "flying" /\ command = NoCommand

GiveUp ==
    /\ flight' = "aborted"
    /\ UNCHANGED <<planVars, legs, bodyVars, command, failed, late, flown>>

(* A failed action or a spent budget: step() has touched nothing yet. *)
AbortFailed ==
    Between /\ failed /\ GiveUp /\ UNCHANGED <<leg, substep, rots>>
AbortLate ==
    Between /\ ~failed /\ late /\ GiveUp /\ UNCHANGED <<leg, substep, rots>>

(* No yaw: a Move that resolved has been counted off by then. *)
AbortBlind ==
    /\ Between /\ ~failed /\ ~late /\ shown = NoYaw /\ GiveUp
    /\ leg' = Resolved /\ substep' = "rotate" /\ UNCHANGED rots

\* Mutant of Ready: a failed action is not looked at.
ReadyAnyway == Between /\ ~late /\ shown # NoYaw

Ready == Between /\ ~failed /\ ~late /\ shown # NoYaw

(* A nose that will not settle: the Rotate that would be one too many. *)
AbortSpinning ==
    /\ Ready /\ Stop <= Len(legs) /\ OffHeading(Stop) /\ RotsAt(Stop) = RotCap
    /\ GiveUp
    /\ leg' = Stop /\ substep' = "rotate" /\ rots' = RotCap + 1

Turn ==
    /\ Ready /\ Stop <= Len(legs) /\ OffHeading(Stop) /\ RotsAt(Stop) < RotCap
    /\ leg' = Stop /\ substep' = "rotate" /\ rots' = RotsAt(Stop) + 1
    /\ command' = [do |-> "rotate", by |-> Clamp(Error(Stop), -MaxStep, MaxStep)]
    /\ UNCHANGED <<planVars, legs, flight, bodyVars, failed, late, flown>>

Fly ==
    /\ Ready /\ Stop <= Len(legs) /\ ~OffHeading(Stop)
    /\ leg' = Stop /\ substep' = "await_move" /\ rots' = 0
    /\ command' = [do |-> "move", by |-> Commanded(legs[Stop])]
    /\ UNCHANGED <<planVars, legs, flight, bodyVars, failed, late, flown>>

Finish ==
    /\ Ready /\ Stop > Len(legs)
    /\ flight' = "done" /\ leg' = Stop /\ substep' = "rotate" /\ rots' = 0
    /\ UNCHANGED <<planVars, legs, bodyVars, command, failed, late, flown>>

StepNav == AbortFailed \/ AbortLate \/ AbortBlind \/ AbortSpinning \/ Turn \/ Fly \/ Finish

-----------------------------------------------------------------------------
(* The adapter: the command ends, well or badly, and the nose may have crept. *)
Execute ==
    /\ command # NoCommand
    /\ command' = NoCommand
    /\ current' = FALSE
    /\ \E creep \in Creep \cup {0} :
          /\ creep # 0 => drifts < MaxDrifts
          /\ drifts' = IF creep # 0 THEN drifts + 1 ELSE drifts
          /\ yaw' = Wrap(yaw + creep + IF command.do = "rotate" THEN command.by ELSE 0)
    /\ flown' = IF command.do = "move" THEN Append(flown, leg) ELSE flown
    /\ UNCHANGED <<planVars, legVars, shown, failed, late>>

ExecuteBadly ==
    /\ command # NoCommand
    /\ command' = NoCommand /\ failed' = TRUE
    /\ UNCHANGED <<planVars, legVars, bodyVars, late, flown>>

(* The poller refreshes the cache, or the drone's state carries no yaw.  What *)
(* it reads while a command runs is out of date when the command ends.        *)
Poll ==
    /\ flight = "flying"
    /\ shown' \in {yaw, NoYaw}
    /\ current' = (command = NoCommand)
    /\ UNCHANGED <<planVars, legVars, yaw, drifts, command, failed, late, flown>>

RunLate ==
    /\ flight = "flying" /\ ~late
    /\ late' = TRUE
    /\ UNCHANGED <<planVars, legVars, bodyVars, command, failed, flown>>

NavNext == StepNav \/ Execute \/ ExecuteBadly \/ Poll \/ RunLate

-----------------------------------------------------------------------------
vars == <<planVars, navVars>>

Init == PlanInit /\ NavInit

Search == \/ PopGoal /\ UNCHANGED navVars
          \/ PopStale /\ UNCHANGED navVars
          \/ PopNode /\ UNCHANGED navVars
          \/ Walled /\ UNCHANGED navVars

Next == Search \/ Enter \/ Refuse \/ NavNext

(* The search is one synchronous call; the agent's loop steps the phase      *)
(* whenever no command is in flight, and a command is bounded by its timeout. *)
Spec == Init /\ [][Next]_vars
FairSpec ==
    /\ Spec
    /\ WF_vars(Search)
    /\ WF_vars(Enter \/ Refuse)
    /\ WF_vars(StepNav)
    /\ WF_vars(Execute \/ ExecuteBadly)

-----------------------------------------------------------------------------
TypeOK ==
    /\ PlanTypeOK
    /\ flight \in {"unplanned", "refused", "flying", "done", "aborted"}
    /\ leg \in 1..(Len(legs) + 1) /\ substep \in {"rotate", "await_move"}
    /\ rots \in 0..(RotCap + 1) /\ (rots > RotCap => flight = "aborted")
    /\ command # NoCommand => (command.do = "move") = (substep = "await_move")
    /\ yaw \in -7..8 /\ failed \in BOOLEAN /\ late \in BOOLEAN

(* A Move is commanded only with the nose on the leg's heading in the arena, *)
(* if the compass has been read since the last command: "a leg starting from *)
(* a drifted yaw still ends pointing at the true world heading".             *)
NoseOnLeg ==
    [][ (command = NoCommand /\ command' # NoCommand /\ substep' = "await_move" /\ current) =>
            LET i == legs[leg'].along
            IN AbsOf(Wrap(Heading(route[i], route[i + 1]) - (yaw - Offset))) <= Tol ]_vars

(* The legs flown follow the polyline: none twice, none skipped but those    *)
(* that round to nothing, none on account of a Move that failed; a transit   *)
(* that reports Done has flown them all.                                     *)
RouteFlownInOrder ==
    LET Flyable(n) == {i \in 1..n : Commanded(legs[i]) > 0}
        Flown == {flown[k] : k \in DOMAIN flown}
    IN /\ \A j, k \in DOMAIN flown : j < k => flown[j] < flown[k]
       /\ \E n \in 0..Len(legs) : Flown = Flyable(n)
       /\ flight = "done" => Flown = Flyable(Len(legs))

(* The transit ends: the planner answers, and a compass that never settles   *)
(* is given up on.                                                           *)
TransitEnds ==
    <>(outcome \in {"trapped", "walled"} \/ flight \in {"refused", "done", "aborted"})
=============================================================================
