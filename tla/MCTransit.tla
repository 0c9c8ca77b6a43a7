----------------------------- MODULE MCTransit ------------------------------
(***************************************************************************)
(* Model-checking instances of Navigate: arenas on a grid of metres, with  *)
(* every crate of one unit inflated to three.                              *)
(***************************************************************************)
EXTENDS Navigate

Box(n0, e0, n1, e1) == <<<<n0, e0>>, <<n1, e0>>, <<n1, e1>>, <<n0, e1>>>>
Clockwise(ring) == [i \in DOMAIN ring |-> ring[Len(ring) + 1 - i]]
Ko(id, ring) == [id |-> id, ring |-> ring]
World(surveyed, observed, gates, goal) ==
    [surveyed |-> surveyed, observed |-> observed, gates |-> gates,
     start |-> <<0, 0>>, goal |-> goal]

(* One crate anywhere about the straight line, the goal beside it or inside. *)
OneCrate ==
    {World(<<Ko("a", Box(n, e, n + 1, e + 1))>>, <<>>, {}, <<6, 4>>) : n \in 3..5, e \in 0..3}

(* A surveyed crate and an observed one further on, under its own id or under *)
(* the surveyed one's.                                                        *)
Observed ==
    {World(<<Ko("a", Box(3, e, 4, e + 3))>>, <<Ko(id, Clockwise(Box(6, f, 7, f + 3)))>>,
           {}, <<9, 3>>) : e \in {-3, -1}, f \in {-1, 2}, id \in {"a", "b"}}

(* An arch: two posts across the way, closed in by their margins, its gate   *)
(* wide enough, too narrow, or not declared.                                 *)
Arch ==
    {World(<<Ko("w", Box(4, -4, 5, 0)), Ko("e", Box(4, 2, 5, 6))>>, <<>>, gates, <<8, 1>>) :
        gates \in {{}} \cup {{[span |-> <<<<4, 0>>, <<4, 3>>>>, clearance |-> c]} : c \in 0..2}}

(* The goal boxed in, and no distance to fly. *)
BoxedIn ==
    {World(<<Ko("n", Box(7, -2, 8, 6)), Ko("s", Box(2, -2, 3, 6)),
             Ko("w", Box(2, -2, 8, -1)), Ko("e", Box(2, 5, 8, 6))>>, <<>>, {}, <<5, 2>>),
     World(<<Ko("a", Box(3, 3, 4, 4))>>, <<>>, {}, <<0, 0>>)}

MCWorlds == OneCrate \cup Observed \cup Arch \cup BoxedIn
GeneralWorlds == {w \in MCWorlds : ~CornersThreaded(w)}
MCCreep == {-1, 1}
MCStartYaws == {7}

(* A crate squarely on the diagonal from the start to the goal. *)
CornerWorlds == {World(<<Ko("a", Box(2, 2, 3, 3))>>, <<>>, {}, <<10, 10>>)}

(* The worlds are of the kind the theorem on PlanStaysClear is about, and the *)
(* one above is not, for its corners alone.                                   *)
ASSUMPTION WorldsAreGeneral ==
    /\ GeneralWorlds # {} /\ \A w \in GeneralWorlds \cup CornerWorlds : BoxesOnly(w)
    /\ \A w \in CornerWorlds : CornersThreaded(w)
=============================================================================
