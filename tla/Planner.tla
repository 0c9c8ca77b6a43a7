------------------------------ MODULE Planner -------------------------------
(***************************************************************************)
(* The transit planner: the shared obstacle map merged into the surveyed   *)
(* arena (src/finals/mission/obstacle_map.py), the keep-outs inflated, and *)
(* A* over the visibility graph                                            *)
(* (src/finals/mission/planning/visibility_graph.py), one popped node per  *)
(* step.  A world is what one call of plan() is given:                     *)
(*   surveyed   the arena's keep-outs, a sequence of [id, ring]            *)
(*   observed   the keep-outs in the obstacle map, sorted by id            *)
(*   gates      the declared gates, a set of [span, clearance]             *)
(*   start, goal                                                           *)
(* Distances are counted in 1/Fine of a grid unit and rounded up, which    *)
(* keeps the triangle inequality the search relies on.                     *)
(***************************************************************************)
EXTENDS Geometry, SequencesExt

CONSTANTS Worlds,       \* the calls of plan() considered
          Inflation,    \* the safety margin, grid units
          Fine,         \* resolution of a distance
          Farthest,     \* bound on the squared distance of two nodes, grid units
          LongestLeg,   \* max_leg_cm, in the resolution of a distance
          NoWorld

ASSUMPTION PlannerAssumption ==
    /\ Inflation \in Nat /\ Fine \in Nat \ {0}
    /\ Farthest \in Nat /\ LongestLeg \in Nat \ {0}

VARIABLES world,
          outcome,      \* "planning", or how plan() ended: "planned", "trapped", "walled";
                        \* "returned" when its caller has the route
          cost,         \* g: the cheapest cost known of each node reached
          came,         \* came_from
          frontier,     \* open_heap, a set of <<f, tie, node>>
          pushes,       \* counter
          closed,
          route         \* the polyline found

searchVars == <<cost, came, frontier, pushes, closed>>
planVars == <<world, outcome, route, searchVars>>

(* The smallest r with r*r >= n, for the scaled squared distances. *)
RootUp == [n \in 0..Farthest |->
              CHOOSE r \in 0..(Fine * n) :
                  r * r >= Fine * Fine * n /\ (r = 0 \/ (r - 1) * (r - 1) < Fine * Fine * n)]

Squared(a, b) == (a[1] - b[1]) * (a[1] - b[1]) + (a[2] - b[2]) * (a[2] - b[2])

Dist(a, b) == RootUp[Squared(a, b)]

-----------------------------------------------------------------------------
(* The elements of s that have their places in kept, in their order. *)
Only(s, kept) ==
    LET first[k \in 0..Len(s)] ==
            IF k = 0 THEN <<>>
            ELSE IF k \in kept THEN Append(first[k - 1], s[k])
            ELSE first[k - 1]
    IN first[Len(s)]

(* ObstacleMap.merge: the surveyed keep-outs are authoritative; an observed *)
(* one is added only under an id the survey does not have.                  *)
Merge(surveyed, observed) ==
    surveyed \o Only(observed, {k \in DOMAIN observed :
                                  \A i \in DOMAIN surveyed : surveyed[i].id # observed[k].id})

KeepOuts(w) == Merge(w.surveyed, w.observed)

InflatedIn(w) == [i \in DOMAIN KeepOuts(w) |-> Inflate(KeepOuts(w)[i].ring, Inflation)]
Inflated == [w \in Worlds |-> InflatedIn(w)]

(* The gates the inflated drone fits through, with the posts they touch. *)
FittingGates ==
    [w \in Worlds |->
        {[span |-> gate.span,
          posts |-> {i \in DOMAIN Inflated[w] :
                        SegmentIntersects(gate.span[1], gate.span[2], Inflated[w][i])}] :
            gate \in {h \in w.gates : h.clearance > 0 /\ h.clearance >= 2 * Inflation}}]

(* The corners of each ring that no other ring buries. *)
Bare(rings) ==
    [i \in DOMAIN rings |->
        Only(rings[i], {k \in DOMAIN rings[i] :
                          \A j \in DOMAIN rings : j # i => ~Inside(rings[i][k], rings[j])})]

(* start, goal, and the bare corners of the inflated keep-outs. *)
NodesIn(w) == <<w.start, w.goal>> \o FlattenSeq(Bare(InflatedIn(w)))
Nodes == [w \in Worlds |-> NodesIn(w)]

(* A fitting gate the segment passes through lets it enter that gate's posts. *)
Excused(w, a, b, post) ==
    \E gate \in FittingGates[w] :
        post \in gate.posts /\ ProperlyCross(a, b, gate.span[1], gate.span[2])

Visible(w, a, b) ==
    \A i \in DOMAIN Inflated[w] :
        SegmentEnters(a, b, Inflated[w][i]) => Excused(w, a, b, i)

(* The edges of each world's visibility graph. *)
Seen(w, nodes) ==
    {e \in (DOMAIN nodes) \X (DOMAIN nodes) :
        e[1] # e[2] /\ Visible(w, nodes[e[1]], nodes[e[2]])}
Sees == [w \in Worlds |-> Seen(w, Nodes[w])]

(* Farthest is what it is called, and worlds are made of points. *)
Points == Int \X Int
KeepOut == [id : STRING, ring : Seq(Points)]

ASSUMPTION WorldsAssumption ==
    \A w \in Worlds :
        /\ w.surveyed \in Seq(KeepOut) /\ w.observed \in Seq(KeepOut)
        /\ w.start \in Points /\ w.goal \in Points
        /\ \A a, b \in {Nodes[w][i] : i \in DOMAIN Nodes[w]} : Squared(a, b) <= Farthest

Trapped(w) ==
    \E i \in DOMAIN Inflated[w] :
        Inside(w.start, Inflated[w][i]) \/ Inside(w.goal, Inflated[w][i])

-----------------------------------------------------------------------------
NoSearch ==
    cost = <<>> /\ came = <<>> /\ frontier = {} /\ pushes = 0 /\ closed = {}

(* plan() up to the loop of _astar: node 1 is the start, node 2 the goal. *)
PlanInit ==
    /\ world \in Worlds
    /\ route = <<>>
    /\ IF Trapped(world)
       THEN outcome = "trapped" /\ NoSearch
       ELSE /\ outcome = "planning"
            /\ cost = [n \in {1} |-> 0] /\ came = <<>> /\ closed = {}
            /\ frontier = {<<Dist(world.start, world.goal), 0, 1>>} /\ pushes = 0

Precedes(x, y) == x[1] < y[1] \/ (x[1] = y[1] /\ x[2] <= y[2])
Cheapest == CHOOSE x \in frontier : \A y \in frontier : Precedes(x, y)

\* Mutant of Improves: a node already reached is never improved.
ImprovesNewOnly(current, nodes) ==
    {n \in (DOMAIN nodes) \ (closed \cup DOMAIN cost) : <<current, n>> \in Sees[world]}

(* The neighbours a node improves, in the order of the loop over range(n). *)
Improves(current, nodes) ==
    {n \in (DOMAIN nodes) \ closed :
        /\ <<current, n>> \in Sees[world]
        /\ n \notin DOMAIN cost \/ cost[current] + Dist(nodes[current], nodes[n]) < cost[n]}

(* _reconstruct: back from the goal along came_from. *)
PathTo(node, nodes) ==
    LET back[k \in 0..Len(nodes)] ==
            IF k = 0 THEN node
            ELSE IF back[k - 1] \in DOMAIN came THEN came[back[k - 1]] ELSE 0
        last == CHOOSE k \in 0..Len(nodes) : back[k] = 1
    IN [k \in 1..(last + 1) |-> nodes[back[last + 1 - k]]]

Forget == cost' = <<>> /\ came' = <<>> /\ frontier' = {} /\ pushes' = 0 /\ closed' = {}

(* The goal is popped: the search returns, whatever is still queued. *)
PopGoal ==
    /\ outcome = "planning" /\ frontier # {} /\ Cheapest[3] = 2
    /\ outcome' = "planned"
    /\ route' = PathTo(2, Nodes[world])
    /\ Forget
    /\ UNCHANGED world

(* An entry a cheaper one has overtaken is dropped. *)
PopStale ==
    /\ outcome = "planning" /\ frontier # {} /\ Cheapest[3] # 2
    /\ Cheapest[3] \in closed
    /\ frontier' = frontier \ {Cheapest}
    /\ UNCHANGED <<world, outcome, route, cost, came, pushes, closed>>

\* Mutant of PopNode: a popped node is dropped, neither expanded nor finalised.
PopNodeOpen ==
    /\ outcome = "planning" /\ frontier # {} /\ Cheapest[3] # 2
    /\ Cheapest[3] \notin closed
    /\ frontier' = frontier \ {Cheapest}
    /\ UNCHANGED <<world, outcome, route, cost, came, pushes, closed>>

(* The relaxation of one node's neighbours; the tie-break counts the pushes. *)
Expand(current, nodes, better) ==
    LET Reach(n) == cost[current] + Dist(nodes[current], nodes[n])
        Rank(n) == pushes + Cardinality({m \in better : m <= n})
    IN /\ closed' = closed \cup {current}
       /\ cost' = [n \in (DOMAIN cost) \cup better |->
                      IF n \in better THEN Reach(n) ELSE cost[n]]
       /\ came' = [n \in (DOMAIN came) \cup better |->
                      IF n \in better THEN current ELSE came[n]]
       /\ pushes' = pushes + Cardinality(better)
       /\ frontier' = (frontier \ {Cheapest})
                          \cup {<<Reach(n) + Dist(nodes[n], nodes[2]), Rank(n), n>> : n \in better}

PopNode ==
    /\ outcome = "planning" /\ frontier # {} /\ Cheapest[3] # 2
    /\ Cheapest[3] \notin closed
    /\ \E current \in {Cheapest[3]}, nodes \in {Nodes[world]} :
          \E better \in {Improves(current, nodes)} : Expand(current, nodes, better)
    /\ UNCHANGED <<world, outcome, route>>

(* PlanningError: every route is blocked. *)
Walled ==
    /\ outcome = "planning" /\ frontier = {}
    /\ outcome' = "walled"
    /\ Forget
    /\ UNCHANGED <<world, route>>

(* plan() returns: what it searched is gone, the route is its caller's. *)
PlanReturns ==
    /\ outcome = "planned"
    /\ outcome' = "returned" /\ world' = NoWorld
    /\ UNCHANGED <<route, searchVars>>

-----------------------------------------------------------------------------
RouteLength ==
    LET upto[i \in 1..Len(route)] ==
            IF i = 1 THEN 0 ELSE upto[i - 1] + Dist(route[i - 1], route[i])
    IN upto[Len(route)]

(* Reference: the lengths of the shortest walks of at most k nodes from the *)
(* start, as pairs <<node, length>>, by relaxing every segment again.       *)
Shortest(walks) == {q \in walks : \A r \in walks : r[1] = q[1] => q[2] <= r[2]}

OneLonger(walks, nodes, sees) ==
    UNION {{<<n, q[2] + Dist(nodes[q[1]], nodes[n])>> :
               n \in {m \in DOMAIN nodes : <<q[1], m>> \in sees}} : q \in walks}

Relaxed(walks, nodes, sees) == Shortest(walks \cup OneLonger(walks, nodes, sees))

ShortestWalks ==
    [w \in Worlds |->
        LET atMost[k \in 1..Len(Nodes[w])] ==
                IF k = 1 THEN {<<1, 0>>} ELSE Relaxed(atMost[k - 1], Nodes[w], Sees[w])
        IN atMost[Len(Nodes[w])]]

(* Each leg of the route is a segment of the visibility graph. *)
FollowsGraph ==
    \A i \in 1..(Len(route) - 1) :
        \E e \in Sees[world] : route[i] = Nodes[world][e[1]] /\ route[i + 1] = Nodes[world][e[2]]

PlanTypeOK ==
    /\ outcome \in {"planning", "planned", "trapped", "walled", "returned"}
    /\ outcome \in {"planned", "returned"} <=> route # <<>>
    /\ closed \subseteq DOMAIN cost /\ DOMAIN came \subseteq DOMAIN cost
    /\ outcome = "planning" => {x[3] : x \in frontier} \cup closed = DOMAIN cost

(* "Euclidean cost + euclidean heuristic => the polyline is shortest": the   *)
(* search may stop at the first pop of the goal although cheaper-looking     *)
(* entries were overtaken, and a goal it calls unreachable is unreachable.   *)
PlanIsShortest ==
    /\ outcome = "planned" => /\ FollowsGraph /\ route[1] = world.start
                              /\ route[Len(route)] = world.goal
                              /\ <<2, RouteLength>> \in ShortestWalks[world]
    /\ outcome = "walled" => \A walk \in ShortestWalks[world] : walk[1] # 2

(* No leg of the plan passes through the inside of an inflated keep-out,     *)
(* except through a gate that fits: "an edge exists between two nodes iff    *)
(* the straight segment between them does not ENTER any inflated polygon's   *)
(* interior".                                                                *)
PlanStaysClear ==
    outcome = "planned" =>
        \A i \in 1..(Len(route) - 1), k \in DOMAIN Inflated[world] :
            \/ Clear(route[i], route[i + 1], Inflated[world][k])
            \/ \E gate \in world.gates :
                  /\ gate.clearance >= 2 * Inflation
                  /\ SegmentIntersects(gate.span[1], gate.span[2], Inflated[world][k])
                  /\ ProperlyCross(route[i], route[i + 1], gate.span[1], gate.span[2])

(* What a world must be for PlanStaysClear to hold of it: its keep-outs are  *)
(* boxes, and no line between two of its nodes threads one by its corners.   *)
BoxesOnly(w) == \A k \in DOMAIN KeepOuts(w) : IsBox(KeepOuts(w)[k].ring)

CornersThreaded(w) ==
    LET rings == InflatedIn(w)
        nodes == NodesIn(w)
    IN \E k \in DOMAIN rings, a, b \in {nodes[i] : i \in DOMAIN nodes} :
          Threads(a, b, rings[k])
=============================================================================
