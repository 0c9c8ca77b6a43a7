------------------------------ MODULE Geometry ------------------------------
(***************************************************************************)
(* The polygon geometry under the planner                                  *)
(* (src/finals/mission/planning/polygon_tools.py), on an integer grid,     *)
(* where every orientation is exact.  A point is <<north, east>>, a ring   *)
(* the sequence of a polygon's vertices.                                   *)
(***************************************************************************)
EXTENDS Integers, Sequences, FiniteSets

(* Twice the signed area of a, b, c: its sign is the side of ab that c is on. *)
Orient(a, b, c) ==
    (b[1] - a[1]) * (c[2] - a[2]) - (b[2] - a[2]) * (c[1] - a[1])

(* p lies in the bounding box of a and b. *)
OnSegment(a, b, p) ==
    \A k \in {1, 2} : \/ a[k] <= p[k] /\ p[k] <= b[k]
                      \/ b[k] <= p[k] /\ p[k] <= a[k]

Touches(a, b, p) == Orient(a, b, p) = 0 /\ OnSegment(a, b, p)

OppositeSides(x, y) == x # 0 /\ y # 0 /\ (x > 0) # (y > 0)

(* Each segment strictly separates the other's end points. *)
ProperlyCross(a, b, c, d) ==
    /\ OppositeSides(Orient(a, b, c), Orient(a, b, d))
    /\ OppositeSides(Orient(c, d, a), Orient(c, d, b))

SegmentsIntersect(a, b, c, d) ==
    \/ ProperlyCross(a, b, c, d)
    \/ Touches(a, b, c) \/ Touches(a, b, d)
    \/ Touches(c, d, a) \/ Touches(c, d, b)

After(ring, i) == (i % Len(ring)) + 1
Before(ring, i) == IF i = 1 THEN Len(ring) ELSE i - 1
Edges(ring) == {<<ring[i], ring[After(ring, i)]>> : i \in DOMAIN ring}

(* The half-open test of the ray cast from p along the first axis. *)
RayCrosses(p, s, t) ==
    /\ (s[2] > p[2]) # (t[2] > p[2])
    /\ LET rise == t[2] - s[2]
           left == (p[1] - s[1]) * rise
           right == (p[2] - s[2]) * (t[1] - s[1])
       IN IF rise > 0 THEN left < right ELSE left > right

(* Even-odd rule; the boundary is outside. *)
Inside(p, ring) ==
    /\ Len(ring) >= 3
    /\ \A e \in Edges(ring) : ~Touches(e[1], e[2], p)
    /\ Cardinality({e \in Edges(ring) : RayCrosses(p, e[1], e[2])}) % 2 = 1

(* The midpoint of a segment against a ring, both doubled to stay on the grid. *)
MidInside(a, b, ring) ==
    Inside(<<a[1] + b[1], a[2] + b[2]>>,
           [i \in DOMAIN ring |-> <<2 * ring[i][1], 2 * ring[i][2]>>])

(* The conservative test: touching the boundary is a hit. *)
SegmentIntersects(a, b, ring) ==
    /\ Len(ring) >= 3
    /\ \/ \E e \in Edges(ring) : SegmentsIntersect(a, b, e[1], e[2])
       \/ MidInside(a, b, ring)

\* Mutant of SegmentEnters: only proper crossings block.
EntersByCrossing(a, b, ring) ==
    Len(ring) >= 3 /\ \E e \in Edges(ring) : ProperlyCross(a, b, e[1], e[2])

(* The test of the visibility graph: a proper crossing of an edge, or the *)
(* midpoint strictly inside.                                              *)
SegmentEnters(a, b, ring) ==
    /\ Len(ring) >= 3
    /\ \/ \E e \in Edges(ring) : ProperlyCross(a, b, e[1], e[2])
       \/ MidInside(a, b, ring)

Sign(x) == IF x > 0 THEN 1 ELSE IF x < 0 THEN -1 ELSE 0

(* Twice the area a ring winds around, by the shoelace formula. *)
SignedArea(ring) ==
    LET upto[i \in 0..Len(ring)] ==
            IF i = 0 THEN 0
            ELSE upto[i - 1] + ring[i][1] * ring[After(ring, i)][2]
                             - ring[After(ring, i)][1] * ring[i][2]
    IN upto[Len(ring)]

(* Which way the ring winds. *)
Winding(ring) == Sign(SignedArea(ring))

(* The outward unit normal of edge i of a ring whose edges follow the axes. *)
Normal(ring, i) ==
    LET s == ring[i]
        t == ring[After(ring, i)]
    IN <<Winding(ring) * Sign(t[2] - s[2]), -(Winding(ring) * Sign(t[1] - s[1]))>>

(* The mitred offset.  At a right-angled corner the mitre is the sum of the *)
(* two normals, so each corner moves out by the margin along both axes.     *)
Inflate(ring, margin) ==
    [i \in DOMAIN ring |->
        LET p == Normal(ring, Before(ring, i))
            c == Normal(ring, i)
        IN <<ring[i][1] + margin * (p[1] + c[1]), ring[i][2] + margin * (p[2] + c[2])>>]

(* Reference for the properties: the segment ab and the open convex polygon *)
(* are disjoint exactly when a line along an axis or along ab has them on   *)
(* its two sides.                                                           *)
Clear(a, b, ring) ==
    LET R == {ring[i] : i \in DOMAIN ring}
    IN \/ \E k \in {1, 2} : \/ \A p \in R : a[k] <= p[k] /\ b[k] <= p[k]
                            \/ \A p \in R : a[k] >= p[k] /\ b[k] >= p[k]
       \/ \A p \in R : Orient(a, b, p) >= 0
       \/ \A p \in R : Orient(a, b, p) <= 0

(* A box with its sides along the axes, walked either way from any corner. *)
IsBox(ring) ==
    /\ Len(ring) = 4 /\ \A k \in {1, 2} : ring[1][k] # ring[3][k]
    /\ \/ ring[2] = <<ring[3][1], ring[1][2]>> /\ ring[4] = <<ring[1][1], ring[3][2]>>
       \/ ring[2] = <<ring[1][1], ring[3][2]>> /\ ring[4] = <<ring[3][1], ring[1][2]>>

(* The segment meets the ring in corners of the ring or in its own ends, two *)
(* of them on no common side, and its midpoint is not inside.                *)
Threads(a, b, ring) ==
    LET On(p, e) == Touches(e[1], e[2], p)
        contacts == {x \in {ring[c] : c \in DOMAIN ring} : Touches(a, b, x)}
                        \cup {x \in {a, b} : \E e \in Edges(ring) : On(x, e)}
    IN /\ ~MidInside(a, b, ring)
       /\ \E p, q \in contacts : ~\E e \in Edges(ring) : On(p, e) /\ On(q, e)
=============================================================================
