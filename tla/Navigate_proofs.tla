--------------------------- MODULE Navigate_proofs ---------------------------
(***************************************************************************)
(* Theorems about the transit: the planner's search and the phase that     *)
(* flies what it found, for any worlds, any margin and any resolution.     *)
(***************************************************************************)
EXTENDS Navigate, FiniteSetTheorems, SequenceTheorems, WellFoundedInduction, TLAPS

-----------------------------------------------------------------------------
(***************************************************************************)
(* Numbers and recursive functions.                                        *)
(***************************************************************************)
\* Numbers have a least one.
LEMMA Least ==
  ASSUME NEW S, S \subseteq Nat, S # {}
  PROVE  \E m \in S : \A k \in S : m <= k
<1> DEFINE R == OpToRel(<, Nat)
<1>1. IsWellFoundedOn(R, Nat)
  BY NatLessThanWellFounded
<1>2. \A x, y \in Nat : <<y, x>> \in R <=> y < x
  BY DEF OpToRel
<1> HIDE DEF R
<1>3. \E x \in S : \A y \in S : ~(<<y, x>> \in R)
  BY <1>1, WFMin
<1>4. PICK x \in S : \A y \in S : ~(<<y, x>> \in R)
  BY <1>3
<1>5. \A y \in S : ~(y < x)
  BY <1>2, <1>4
<1>6. \A y \in S : x \in Nat /\ y \in Nat
  BY <1>4
<1>7. \A y \in S : x <= y
  BY <1>5, <1>6
<1> QED
  BY <1>4, <1>7

\* Induction from one number up to another, over a set.
LEMMA CountingUp ==
  ASSUME NEW b \in Nat, NEW n \in Nat, NEW S, b \in S,
         \A k \in b..n : k < n /\ k \in S => k + 1 \in S
  PROVE  \A k \in b..n : k \in S
<1> DEFINE B == {k \in b..n : k \notin S}
<1> SUFFICES ASSUME B # {} PROVE FALSE
  OBVIOUS
<1>1. B \subseteq Nat
  OBVIOUS
<1>2. PICK m \in B : \A k \in B : m <= k
  BY <1>1, Least
<1>3. m # b /\ m - 1 \in b..n /\ m - 1 \in S
  BY <1>2
<1> QED
  BY <1>2, <1>3

\* f starts with a at b and goes on up to n by the steps in G.
Goes(f, b, n, V, a, G) ==
  /\ f \in [b..n -> V]
  /\ f[b] = a /\ \A k \in (b + 1)..n : f[k] = G[<<k, f[k - 1]>>]

\* A value for the first number and a step from one to the next make a
\* function on the numbers.
LEMMA Recursion ==
  ASSUME NEW b \in Nat, NEW n \in Nat, b <= n,
         NEW V, NEW a \in V, NEW G \in [Nat \X V -> V]
  PROVE  \E f : Goes(f, b, n, V, a, G)
<1> DEFINE Is(f, m) == Goes(f, b, m, V, a, G)
           S == {m \in b..n : \E f : Is(f, m)}
<1>1. b \in S
  <2>1. Is([k \in b..b |-> a], b)
    BY DEF Goes
  <2> QED
    BY <2>1
<1>2. ASSUME NEW m \in b..n, m < n, m \in S PROVE m + 1 \in S
  <2>1. PICK f : Is(f, m)
    BY <1>2
  <2> DEFINE v == G[<<m + 1, f[m]>>]
             g == [k \in b..(m + 1) |-> IF k = m + 1 THEN v ELSE f[k]]
  <2>2. v \in V
    BY <1>2, <2>1 DEF Goes
  <2> HIDE DEF v
  <2>3. g \in [b..(m + 1) -> V] /\ g[b] = a
    BY <2>1, <2>2 DEF Goes
  <2>4. g[m + 1] = G[<<m + 1, g[m]>>]
    <3>1. g[m] = f[m] /\ g[m + 1] = v
      BY <1>2
    <3> QED
      BY <3>1 DEF v
  <2>5. ASSUME NEW k \in (b + 1)..(m + 1) PROVE g[k] = G[<<k, g[k - 1]>>]
    <3>1. CASE k = m + 1
      BY <2>4, <3>1
    <3>2. CASE k # m + 1
      <4>1. k \in (b + 1)..m /\ k - 1 \in b..m
        BY <3>2
      <4>2. g[k] = f[k] /\ g[k - 1] = f[k - 1]
        BY <4>1
      <4> QED
        BY <2>1, <4>1, <4>2 DEF Goes
    <3> QED
      BY <3>1, <3>2
  <2>6. Is(g, m + 1)
    BY <2>3, <2>5 DEF Goes
  <2> HIDE DEF g, Is
  <2> QED
    BY <1>2, <2>6
<1> HIDE DEF S
<1>3. \A m \in b..n : m \in S
  BY <1>1, <1>2, CountingUp
<1>4. n \in S
  BY <1>3
<1> QED
  BY <1>4 DEF S

-----------------------------------------------------------------------------
(***************************************************************************)
(* Sequences.                                                              *)
(***************************************************************************)
\* What is left of a sequence is a sequence of what may be left of it.
LEMMA OnlyKept ==
  ASSUME NEW S, NEW E, NEW s \in Seq(S), NEW kept, \A k \in DOMAIN s : k \in kept => s[k] \in E
  PROVE  Only(s, kept) \in Seq(E)
<1> DEFINE L == Len(s)
           Def(f, k) == IF k = 0 THEN <<>>
                        ELSE IF k \in kept THEN Append(f[k - 1], s[k])
                        ELSE f[k - 1]
           G == [p \in Nat \X Seq(E) |-> IF p[1] \in kept /\ p[1] \in 1..L
                                         THEN Append(p[2], s[p[1]]) ELSE p[2]]
<1>0. L \in Nat /\ \A k \in 1..L : k \in kept => s[k] \in E
  OBVIOUS
<1>1. G \in [Nat \X Seq(E) -> Seq(E)] /\ <<>> \in Seq(E)
  BY <1>0
<1>2. PICK f : Goes(f, 0, L, Seq(E), <<>>, G)
  <2> HIDE DEF G, L
  <2>1. 0 \in Nat /\ 0 <= L
    BY <1>0
  <2> QED
    BY <1>0, <1>1, <2>1, Recursion, Zenon
<1>3. \A k \in 0..L : f[k] = Def(f, k)
  <2> HIDE DEF L
  <2>1. f[0] = Def(f, 0)
    BY <1>2 DEF Goes
  <2>2. ASSUME NEW k \in 1..L PROVE f[k] = Def(f, k)
    <3>1. f[k - 1] \in Seq(E) /\ k \in Nat /\ k # 0
      BY <1>0, <1>2 DEF Goes
    <3>2. f[k] = G[<<k, f[k - 1]>>]
      <4> HIDE DEF G
      <4> QED
        BY <1>2 DEF Goes
    <3>3. <<k, f[k - 1]>> \in Nat \X Seq(E)
      BY <3>1
    <3> QED
      BY <3>1, <3>2, <3>3
  <2> HIDE DEF Def
  <2>3. \A k \in 0..L : k = 0 \/ k \in 1..L
    BY <1>0
  <2> QED
    BY <2>1, <2>2, <2>3
<1>4. f = [k \in 0..L |-> Def(f, k)]
  BY <1>2, <1>3 DEF Goes
<1> HIDE DEF Def, L
<1> DEFINE first == CHOOSE g : g = [k \in 0..L |-> Def(g, k)]
<1>5. first = [k \in 0..L |-> Def(first, k)]
  BY <1>4
<1>6. Only(s, kept) = first[L]
  BY DEF Only, Def, L
<1> HIDE DEF first
<1> DEFINE T == {k \in 0..L : first[k] \in Seq(E)}
<1>7. 0 \in T
  BY <1>0, <1>5 DEF Def
<1> HIDE DEF T
<1>8. ASSUME NEW k \in 0..L, k < L, k \in T PROVE k + 1 \in T
  <2>1. k + 1 \in 1..L /\ (k + 1) - 1 = k
    BY <1>0, <1>8
  <2>2. k + 1 \in 0..L /\ k + 1 # 0 /\ (k + 1 \in kept => s[k + 1] \in E) /\ first[k] \in Seq(E)
    BY <1>0, <1>8, <2>1 DEF T
  <2>3. first[k + 1] = Def(first, k + 1)
    BY <1>5, <2>2
  <2>4. \/ k + 1 \in kept /\ Def(first, k + 1) = Append(first[k], s[k + 1])
        \/ Def(first, k + 1) = first[k]
    BY <2>1, <2>2 DEF Def
  <2>5. k + 1 \in kept => Append(first[k], s[k + 1]) \in Seq(E)
    BY <2>2
  <2>6. first[k + 1] \in Seq(E)
    BY <2>2, <2>3, <2>4, <2>5
  <2> QED
    BY <2>2, <2>6 DEF T
<1>9. \A k \in 0..L : k \in T
  BY <1>0, <1>7, <1>8, CountingUp
<1>10. L \in T
  BY <1>0, <1>9
<1> QED
  BY <1>6, <1>10 DEF T

\* What is kept of a sequence is a sequence over the same set.
LEMMA OnlyIsSeq ==
  ASSUME NEW E, NEW s \in Seq(E), NEW kept
  PROVE  Only(s, kept) \in Seq(E)
<1>1. \A k \in DOMAIN s : s[k] \in E
  BY ElementOfSeq
<1> QED
  BY <1>1, OnlyKept

\* Sequences put one behind the other are a sequence.
LEMMA Flattened ==
  ASSUME NEW E, NEW ss \in Seq(Seq(E))
  PROVE  FlattenSeq(ss) \in Seq(E)
<1> DEFINE L == Len(ss)
           Def(f, k) == IF k = 1 THEN ss[k] ELSE f[k - 1] \o ss[k]
           G == [p \in Nat \X Seq(E) |-> IF p[1] \in 1..L THEN p[2] \o ss[p[1]] ELSE p[2]]
<1>0. L \in Nat /\ \A k \in 1..L : ss[k] \in Seq(E)
  OBVIOUS
<1>1. CASE ss = <<>>
  BY <1>1 DEF FlattenSeq
<1>2. CASE ss # <<>>
  <2>0. L >= 1 /\ 1 \in Nat /\ 1 <= L /\ ss[1] \in Seq(E) /\ L \in 1..L
    BY <1>0, <1>2
  <2>1. G \in [Nat \X Seq(E) -> Seq(E)]
    BY <1>0
  <2>2. PICK f : Goes(f, 1, L, Seq(E), ss[1], G)
    <3> HIDE DEF G, L
    <3> QED
      BY <1>0, <2>0, <2>1, Recursion, Zenon
  <2>3. \A k \in 1..L : f[k] = Def(f, k)
    <3> HIDE DEF L
    <3>1. f[1] = Def(f, 1)
      BY <2>2 DEF Goes
    <3>2. ASSUME NEW k \in 2..L PROVE f[k] = Def(f, k)
      <4>1. f[k - 1] \in Seq(E) /\ k \in Nat /\ k # 1 /\ k \in 1..L
        BY <1>0, <2>2 DEF Goes
      <4>2. f[k] = G[<<k, f[k - 1]>>]
        <5> HIDE DEF G
        <5> QED
          BY <2>2 DEF Goes
      <4>3. <<k, f[k - 1]>> \in Nat \X Seq(E)
        BY <4>1
      <4> QED
        BY <4>1, <4>2, <4>3
    <3> HIDE DEF Def
    <3>3. \A k \in 1..L : k = 1 \/ k \in 2..L
      BY <1>0
    <3> QED
      BY <3>1, <3>2, <3>3
  <2>4. f = [k \in 1..L |-> Def(f, k)]
    <3> HIDE DEF Def, L, G
    <3> QED
      BY <2>2, <2>3 DEF Goes
  <2> HIDE DEF Def, L
  <2> DEFINE flatten == CHOOSE g : g = [k \in 1..L |-> Def(g, k)]
  <2>5. flatten = [k \in 1..L |-> Def(flatten, k)]
    BY <2>4
  <2>6. FlattenSeq(ss) = flatten[L]
    BY <1>2 DEF FlattenSeq, Def, L
  <2> HIDE DEF flatten
  <2> DEFINE T == {k \in 1..L : flatten[k] \in Seq(E)}
  <2>7. 1 \in T
    <3>1. 1 \in 1..L
      BY <2>0
    <3>2. flatten[1] = Def(flatten, 1)
      BY <2>5, <3>1
    <3> QED
      BY <2>0, <3>1, <3>2 DEF Def
  <2> HIDE DEF T
  <2>8. ASSUME NEW k \in 1..L, k < L, k \in T PROVE k + 1 \in T
    <3>1. k + 1 \in 1..L /\ k + 1 # 1 /\ (k + 1) - 1 = k /\ ss[k + 1] \in Seq(E)
      BY <1>0, <2>8
    <3>2. flatten[k] \in Seq(E)
      BY <2>8 DEF T
    <3>3. flatten[k + 1] = Def(flatten, k + 1)
      BY <2>5, <3>1
    <3>4. Def(flatten, k + 1) = flatten[k] \o ss[k + 1]
      BY <3>1 DEF Def
    <3>5. flatten[k] \o ss[k + 1] \in Seq(E)
      BY <3>1, <3>2
    <3> QED
      BY <3>1, <3>3, <3>4, <3>5 DEF T
  <2>9. \A k \in 1..L : k \in T
    BY <1>0, <2>7, <2>8, CountingUp
  <2>10. L \in T
    BY <2>0, <2>9
  <2> QED
    BY <2>6, <2>10 DEF T
<1> QED
  BY <1>1, <1>2

-----------------------------------------------------------------------------
(***************************************************************************)
(* Boxes: what the test of the visibility graph lets by is clear of a box, *)
(* or threads its corners.  A segment rises or falls through the box, the  *)
(* one seen in the mirror of the other; it can pass the near and the far   *)
(* side only where it ends or through a corner.                            *)
(***************************************************************************)
\* The sign of a product.
LEMMA Signs ==
  ASSUME NEW x \in Int, NEW y \in Int
  PROVE  /\ x * y \in Int
         /\ x > 0 /\ y > 0 => x * y > 0
         /\ x > 0 /\ y < 0 => x * y < 0
         /\ x < 0 /\ y > 0 => x * y < 0
         /\ x < 0 /\ y < 0 => x * y > 0
         /\ (x = 0 \/ y = 0) => x * y = 0
         /\ x > 0 /\ y >= 0 => x * y >= 0
         /\ x > 0 /\ y <= 0 => x * y <= 0
OBVIOUS

\* Which side of a rising line a corner is on says where the line's end is
\* that lies on its side of the corner.
LEMMA Beyond ==
  ASSUME NEW dx \in Int, NEW dy \in Int, dx > 0, dy > 0,
         NEW x \in Int, NEW y \in Int
  PROVE  /\ dx * y - dy * x > 0 /\ y <= 0 => x < 0
         /\ dx * y - dy * x < 0 /\ x <= 0 => y < 0
         /\ dx * y - dy * x > 0 /\ x >= 0 => y > 0
         /\ dx * y - dy * x < 0 /\ y >= 0 => x > 0
         /\ dx * y - dy * x = 0 => (x > 0 <=> y > 0) /\ (x < 0 <=> y < 0)
<1>1. /\ dx * y \in Int /\ dy * x \in Int
      /\ (y > 0 => dx * y > 0) /\ (y < 0 => dx * y < 0) /\ (y = 0 => dx * y = 0)
      /\ (x > 0 => dy * x > 0) /\ (x < 0 => dy * x < 0) /\ (x = 0 => dy * x = 0)
  BY Signs
<1> DEFINE p == dx * y
           q == dy * x
<1>2. /\ p \in Int /\ q \in Int
      /\ (y > 0 => p > 0) /\ (y < 0 => p < 0) /\ (y = 0 => p = 0)
      /\ (x > 0 => q > 0) /\ (x < 0 => q < 0) /\ (x = 0 => q = 0)
  BY <1>1
<1> HIDE DEF p, q
<1>3. /\ p - q > 0 /\ y <= 0 => x < 0
      /\ p - q < 0 /\ x <= 0 => y < 0
      /\ p - q > 0 /\ x >= 0 => y > 0
      /\ p - q < 0 /\ y >= 0 => x > 0
      /\ p - q = 0 => (x > 0 <=> y > 0) /\ (x < 0 <=> y < 0)
  BY <1>2
<1> QED
  BY <1>3 DEF p, q

\* A segment rises through the inside of a box, crosses none of its sides
\* properly, and has neither its ends nor its midpoint inside.
RisesThrough(a1, a2, b1, b2, n0, n1, e0, e1) ==
  /\ a1 < b1 /\ a2 < b2 /\ n0 < n1 /\ e0 < e1
  /\ b1 > n0 /\ a1 < n1 /\ b2 > e0 /\ a2 < e1
  /\ ~(n0 < a1 /\ a1 < n1 /\ e0 < a2 /\ a2 < e1)
  /\ ~(n0 < b1 /\ b1 < n1 /\ e0 < b2 /\ b2 < e1)
  /\ ~(/\ 2 * n0 < a1 + b1 /\ a1 + b1 < 2 * n1
       /\ 2 * e0 < a2 + b2 /\ a2 + b2 < 2 * e1)
  /\ LET p == (b1 - a1) * (e0 - a2) - (b2 - a2) * (n0 - a1)
         q == (b1 - a1) * (e1 - a2) - (b2 - a2) * (n1 - a1)
     IN /\ ~(p > 0 /\ a2 < e0) /\ ~(p < 0 /\ a1 < n0)
        /\ ~(q > 0 /\ b1 > n1) /\ ~(q < 0 /\ b2 > e1)

\* It starts on the boundary or enters by a corner, and ends on the boundary
\* or leaves by a corner.
TouchesEnds(a1, a2, b1, b2, n0, n1, e0, e1) ==
  LET p == (b1 - a1) * (e0 - a2) - (b2 - a2) * (n0 - a1)
      q == (b1 - a1) * (e1 - a2) - (b2 - a2) * (n1 - a1)
  IN /\ \/ p = 0 /\ a1 < n0 /\ a2 < e0
        \/ a1 = n0 /\ a2 >= e0
        \/ a2 = e0 /\ a1 >= n0
     /\ \/ q = 0 /\ b1 > n1 /\ b2 > e1
        \/ b1 = n1 /\ b2 <= e1
        \/ b2 = e1 /\ b1 <= n1

\* A segment that rises through a box and properly crosses none of its sides touches the box's
\* boundary where it comes in and where it goes out.
LEMMA Rising ==
  ASSUME NEW a1 \in Int, NEW a2 \in Int, NEW b1 \in Int, NEW b2 \in Int,
         NEW n0 \in Int, NEW n1 \in Int, NEW e0 \in Int, NEW e1 \in Int,
         RisesThrough(a1, a2, b1, b2, n0, n1, e0, e1)
  PROVE  TouchesEnds(a1, a2, b1, b2, n0, n1, e0, e1)
<1> DEFINE p == (b1 - a1) * (e0 - a2) - (b2 - a2) * (n0 - a1)
           q == (b1 - a1) * (e1 - a2) - (b2 - a2) * (n1 - a1)
<1>1. /\ p \in Int /\ p = (b1 - a1) * (e0 - a2) - (b2 - a2) * (n0 - a1)
      /\ q \in Int /\ q = (b1 - a1) * (e1 - a2) - (b2 - a2) * (n1 - a1)
      /\ ~(p > 0 /\ a2 < e0) /\ ~(p < 0 /\ a1 < n0)
      /\ ~(q > 0 /\ b1 > n1) /\ ~(q < 0 /\ b2 > e1)
  BY DEF RisesThrough
<1> HIDE DEF p, q
<1>0. /\ a1 < b1 /\ a2 < b2 /\ n0 < n1 /\ e0 < e1
      /\ b1 > n0 /\ a1 < n1 /\ b2 > e0 /\ a2 < e1
      /\ ~(n0 < a1 /\ a1 < n1 /\ e0 < a2 /\ a2 < e1)
      /\ ~(n0 < b1 /\ b1 < n1 /\ e0 < b2 /\ b2 < e1)
      /\ ~(/\ 2 * n0 < a1 + b1 /\ a1 + b1 < 2 * n1
           /\ 2 * e0 < a2 + b2 /\ a2 + b2 < 2 * e1)
  BY DEF RisesThrough
<1>2. \/ p = 0 /\ a1 < n0 /\ a2 < e0
      \/ a1 >= n0 /\ a2 >= e0
  <2> DEFINE x == n0 - a1
             y == e0 - a2
  <2>1. p = (b1 - a1) * y - (b2 - a2) * x
    BY <1>1
  <2>2. b1 - a1 > 0 /\ b2 - a2 > 0 /\ b1 - a1 \in Int /\ b2 - a2 \in Int /\ x \in Int /\ y \in Int
    BY <1>0
  <2> HIDE DEF x, y
  <2>3. /\ p > 0 /\ y <= 0 => x < 0
        /\ p < 0 /\ x <= 0 => y < 0
        /\ p = 0 => (x > 0 <=> y > 0) /\ (x < 0 <=> y < 0)
    BY <1>1, <1>0, <2>1, <2>2, Beyond
  <2> QED
    BY <1>1, <1>0, <2>3 DEF x, y
<1>3. \/ q = 0 /\ b1 > n1 /\ b2 > e1
      \/ b1 <= n1 /\ b2 <= e1
  <2> DEFINE x == n1 - b1
             y == e1 - b2
  <2>1. q = (b1 - a1) * y - (b2 - a2) * x
    BY <1>1
  <2>2. b1 - a1 > 0 /\ b2 - a2 > 0 /\ b1 - a1 \in Int /\ b2 - a2 \in Int /\ x \in Int /\ y \in Int
    BY <1>0
  <2> HIDE DEF x, y
  <2>3. /\ q < 0 /\ y >= 0 => x > 0
        /\ q > 0 /\ x >= 0 => y > 0
        /\ q = 0 => (x > 0 <=> y > 0) /\ (x < 0 <=> y < 0)
    BY <1>1, <1>0, <2>1, <2>2, Beyond
  <2> QED
    BY <1>1, <1>0, <2>3 DEF x, y
<1>4. /\ \/ p = 0 /\ a1 < n0 /\ a2 < e0
         \/ a1 = n0 /\ a2 >= e0
         \/ a2 = e0 /\ a1 >= n0
      /\ \/ q = 0 /\ b1 > n1 /\ b2 > e1
         \/ b1 = n1 /\ b2 <= e1
         \/ b2 = e1 /\ b1 <= n1
  BY ONLY <1>2, <1>3, <1>0, a1 \in Int, a2 \in Int, b1 \in Int, b2 \in Int,
          n0 \in Int, n1 \in Int, e0 \in Int, e1 \in Int
<1> QED
  BY <1>4 DEF p, q, TouchesEnds

\* The box from corner lo to corner hi, its sides, and what lies in it.
Corners(lo, hi) == {lo, <<hi[1], lo[2]>>, hi, <<lo[1], hi[2]>>}
Sides(lo, hi) == {<<lo, <<hi[1], lo[2]>>>>, <<<<lo[1], hi[2]>>, hi>>,
                  <<lo, <<lo[1], hi[2]>>>>, <<<<hi[1], lo[2]>>, hi>>}
Upright(lo, hi) == lo[1] < hi[1] /\ lo[2] < hi[2]
Strictly(p, lo, hi) == lo[1] < p[1] /\ p[1] < hi[1] /\ lo[2] < p[2] /\ p[2] < hi[2]
Covers(p, lo, hi) == lo[1] <= p[1] /\ p[1] <= hi[1] /\ lo[2] <= p[2] /\ p[2] <= hi[2]

\* The segment passes through the inside of the box, and no test notices.
Slips(a, b, lo, hi) ==
  /\ Upright(lo, hi)
  /\ a[1] > lo[1] \/ b[1] > lo[1]
  /\ a[1] < hi[1] \/ b[1] < hi[1]
  /\ a[2] > lo[2] \/ b[2] > lo[2]
  /\ a[2] < hi[2] \/ b[2] < hi[2]
  /\ \E c \in Corners(lo, hi) : Orient(a, b, c) > 0
  /\ \E c \in Corners(lo, hi) : Orient(a, b, c) < 0
  /\ \A s \in Sides(lo, hi) : ~ProperlyCross(a, b, s[1], s[2])
  /\ ~Strictly(a, lo, hi) /\ ~Strictly(b, lo, hi)
  /\ ~(/\ 2 * lo[1] < a[1] + b[1] /\ a[1] + b[1] < 2 * hi[1]
       /\ 2 * lo[2] < a[2] + b[2] /\ a[2] + b[2] < 2 * hi[2])

\* A corner on the segment, or an end of it on the boundary.
Contact(a, b, lo, hi, p) ==
  \/ p \in Corners(lo, hi) /\ Touches(a, b, p)
  \/ p \in {a, b} /\ Covers(p, lo, hi) /\ ~Strictly(p, lo, hi)

Threaded(a, b, lo, hi) ==
  \E p, q \in Points : /\ Contact(a, b, lo, hi, p) /\ Contact(a, b, lo, hi, q)
                       /\ p[1] # q[1] /\ p[2] # q[2]

\* A side along an axis has a point on its two sides by that one coordinate.
LEMMA AlongNorth ==
  \A x, y, c, u, v \in Int : Orient(<<x, c>>, <<y, c>>, <<u, v>>) = (y - x) * (v - c)
<1> SUFFICES ASSUME NEW x \in Int, NEW y \in Int, NEW c \in Int, NEW u \in Int, NEW v \in Int
             PROVE  Orient(<<x, c>>, <<y, c>>, <<u, v>>) = (y - x) * (v - c)
  OBVIOUS
<1>1. Orient(<<x, c>>, <<y, c>>, <<u, v>>) = (y - x) * (v - c) - (c - c) * (u - x)
  BY DEF Orient
<1>2. (c - c) * (u - x) = 0
  BY c - c = 0
<1>3. (y - x) * (v - c) \in Int
  OBVIOUS
<1> QED
  BY <1>1, <1>2, <1>3

\* On which side of a side that runs east-west a point lies.
LEMMA AlongEast ==
  \A x, y, c, u, v \in Int : Orient(<<c, x>>, <<c, y>>, <<u, v>>) = (x - y) * (u - c)
<1> SUFFICES ASSUME NEW x \in Int, NEW y \in Int, NEW c \in Int, NEW u \in Int, NEW v \in Int
             PROVE  Orient(<<c, x>>, <<c, y>>, <<u, v>>) = (x - y) * (u - c)
  OBVIOUS
<1>1. Orient(<<c, x>>, <<c, y>>, <<u, v>>) = (c - c) * (v - x) - (y - x) * (u - c)
  BY DEF Orient
<1>2. (c - c) * (v - x) = 0
  BY c - c = 0
<1>3. 0 - (y - x) * (u - c) = (x - y) * (u - c)
  OBVIOUS
<1>4. (y - x) * (u - c) \in Int
  OBVIOUS
<1> QED
  BY <1>1, <1>2, <1>3, <1>4

\* Points on the two sides of an axis are on the two sides of any stretch of it.
LEMMA Astride ==
  ASSUME NEW z \in Int, NEW u \in Int, NEW v \in Int, z # 0,
         (u < 0 /\ v > 0) \/ (u > 0 /\ v < 0)
  PROVE  OppositeSides(z * u, z * v)
<1>1. /\ z > 0 /\ u > 0 => z * u > 0
      /\ z > 0 /\ u < 0 => z * u < 0
      /\ z < 0 /\ u > 0 => z * u < 0
      /\ z < 0 /\ u < 0 => z * u > 0
      /\ z * u \in Int
  BY Signs
<1>2. /\ z > 0 /\ v > 0 => z * v > 0
      /\ z > 0 /\ v < 0 => z * v < 0
      /\ z < 0 /\ v > 0 => z * v < 0
      /\ z < 0 /\ v < 0 => z * v > 0
      /\ z * v \in Int
  BY Signs
<1> DEFINE p == z * u
           q == z * v
<1>3. /\ z > 0 /\ u > 0 => p > 0
      /\ z > 0 /\ u < 0 => p < 0
      /\ z < 0 /\ u > 0 => p < 0
      /\ z < 0 /\ u < 0 => p > 0
      /\ z > 0 /\ v > 0 => q > 0
      /\ z > 0 /\ v < 0 => q < 0
      /\ z < 0 /\ v > 0 => q < 0
      /\ z < 0 /\ v < 0 => q > 0
      /\ p \in Int /\ q \in Int
  BY <1>1, <1>2
<1> HIDE DEF p, q
<1>4. OppositeSides(p, q)
  BY <1>3 DEF OppositeSides
<1> QED
  BY <1>4 DEF p, q

\* A line with the ends of an uncrossed side on its two sides has its own
\* ends on one side of that side.
LEMMA UncrossedNorth ==
  ASSUME NEW a1 \in Int, NEW a2 \in Int, NEW b1 \in Int, NEW b2 \in Int,
         NEW x \in Int, NEW y \in Int, NEW c \in Int, x # y,
         ~ProperlyCross(<<a1, a2>>, <<b1, b2>>, <<x, c>>, <<y, c>>)
  PROVE  \/ ~OppositeSides(Orient(<<a1, a2>>, <<b1, b2>>, <<x, c>>),
                           Orient(<<a1, a2>>, <<b1, b2>>, <<y, c>>))
         \/ ~((a2 < c /\ c < b2) \/ (a2 > c /\ c > b2))
<1> SUFFICES ASSUME (a2 < c /\ c < b2) \/ (a2 > c /\ c > b2)
             PROVE  ~OppositeSides(Orient(<<a1, a2>>, <<b1, b2>>, <<x, c>>),
                                   Orient(<<a1, a2>>, <<b1, b2>>, <<y, c>>))
  OBVIOUS
<1>1. OppositeSides(Orient(<<x, c>>, <<y, c>>, <<a1, a2>>), Orient(<<x, c>>, <<y, c>>, <<b1, b2>>))
  <2> DEFINE gap == y - x
             near == a2 - c
             far == b2 - c
  <2>1. /\ gap \in Int /\ near \in Int /\ far \in Int /\ gap # 0
        /\ (near < 0 /\ far > 0) \/ (near > 0 /\ far < 0)
    OBVIOUS
  <2>2. Orient(<<x, c>>, <<y, c>>, <<a1, a2>>) = gap * near
    BY AlongNorth
  <2>3. Orient(<<x, c>>, <<y, c>>, <<b1, b2>>) = gap * far
    BY AlongNorth
  <2> HIDE DEF gap, near, far
  <2>4. OppositeSides(gap * near, gap * far)
    BY <2>1, Astride
  <2> QED
    BY <2>2, <2>3, <2>4
<1> QED
  BY <1>1, Zenon DEF ProperlyCross

\* The ends of such a side, or those of the segment, lie on one side of the other when the two do not
\* properly cross.
LEMMA UncrossedEast ==
  ASSUME NEW a1 \in Int, NEW a2 \in Int, NEW b1 \in Int, NEW b2 \in Int,
         NEW x \in Int, NEW y \in Int, NEW c \in Int, x # y,
         ~ProperlyCross(<<a1, a2>>, <<b1, b2>>, <<c, x>>, <<c, y>>)
  PROVE  \/ ~OppositeSides(Orient(<<a1, a2>>, <<b1, b2>>, <<c, x>>),
                           Orient(<<a1, a2>>, <<b1, b2>>, <<c, y>>))
         \/ ~((a1 < c /\ c < b1) \/ (a1 > c /\ c > b1))
<1> SUFFICES ASSUME (a1 < c /\ c < b1) \/ (a1 > c /\ c > b1)
             PROVE  ~OppositeSides(Orient(<<a1, a2>>, <<b1, b2>>, <<c, x>>),
                                   Orient(<<a1, a2>>, <<b1, b2>>, <<c, y>>))
  OBVIOUS
<1>1. OppositeSides(Orient(<<c, x>>, <<c, y>>, <<a1, a2>>), Orient(<<c, x>>, <<c, y>>, <<b1, b2>>))
  <2> DEFINE gap == x - y
             near == a1 - c
             far == b1 - c
  <2>1. /\ gap \in Int /\ near \in Int /\ far \in Int /\ gap # 0
        /\ (near < 0 /\ far > 0) \/ (near > 0 /\ far < 0)
    OBVIOUS
  <2>2. Orient(<<c, x>>, <<c, y>>, <<a1, a2>>) = gap * near
    BY AlongEast
  <2>3. Orient(<<c, x>>, <<c, y>>, <<b1, b2>>) = gap * far
    BY AlongEast
  <2> HIDE DEF gap, near, far
  <2>4. OppositeSides(gap * near, gap * far)
    BY <2>1, Astride
  <2> QED
    BY <2>2, <2>3, <2>4
<1> QED
  BY <1>1, Zenon DEF ProperlyCross

\* Of a box's corners, the two that a sloping line does not meet at a slant
\* are the ones farthest to its two sides.
LEMMA Extremes ==
  ASSUME NEW a1 \in Int, NEW a2 \in Int, NEW b1 \in Int, NEW b2 \in Int, a1 < b1,
         NEW n0 \in Int, NEW n1 \in Int, NEW e0 \in Int, NEW e1 \in Int, n0 < n1, e0 < e1,
         \E c \in Corners(<<n0, e0>>, <<n1, e1>>) : Orient(<<a1, a2>>, <<b1, b2>>, c) > 0,
         \E c \in Corners(<<n0, e0>>, <<n1, e1>>) : Orient(<<a1, a2>>, <<b1, b2>>, c) < 0
  PROVE  /\ a2 < b2 => /\ Orient(<<a1, a2>>, <<b1, b2>>, <<n1, e0>>) < 0
                       /\ Orient(<<a1, a2>>, <<b1, b2>>, <<n0, e1>>) > 0
         /\ a2 > b2 => /\ Orient(<<a1, a2>>, <<b1, b2>>, <<n0, e0>>) < 0
                       /\ Orient(<<a1, a2>>, <<b1, b2>>, <<n1, e1>>) > 0
<1> DEFINE O(u, v) == Orient(<<a1, a2>>, <<b1, b2>>, <<u, v>>)
           dx == b1 - a1
           dy == b2 - a2
           low == e0 - a2
           high == e1 - a2
           left == n0 - a1
           right == n1 - a1
           xl == dx * low
           xh == dx * high
           yl == dy * left
           yr == dy * right
<1>1. /\ O(n0, e0) = xl - yl /\ O(n1, e0) = xl - yr
      /\ O(n0, e1) = xh - yl /\ O(n1, e1) = xh - yr
  BY DEF Orient
<1>2. xl \in Int /\ xh \in Int /\ yl \in Int /\ yr \in Int
  OBVIOUS
<1>3. xl < xh
  <2>1. dx \in Int /\ low \in Int /\ high \in Int /\ dx > 0 /\ low < high
    OBVIOUS
  <2> HIDE DEF dx, low, high
  <2>2. dx * (high - low) > 0
    BY <2>1, Signs
  <2> QED
    BY <2>1, <2>2
<1>4. (dy > 0 => yl < yr) /\ (dy < 0 => yr < yl)
  <2>1. dy \in Int /\ left \in Int /\ right \in Int /\ left < right
    OBVIOUS
  <2> HIDE DEF dy, left, right
  <2>2. (dy > 0 => dy * (right - left) > 0) /\ (dy < 0 => dy * (right - left) < 0)
    BY <2>1, Signs
  <2> QED
    BY <2>1, <2>2
<1>5. /\ O(n0, e0) > 0 \/ O(n1, e0) > 0 \/ O(n0, e1) > 0 \/ O(n1, e1) > 0
      /\ O(n0, e0) < 0 \/ O(n1, e0) < 0 \/ O(n0, e1) < 0 \/ O(n1, e1) < 0
  BY DEF Corners
<1>6. (a2 < b2 => dy > 0) /\ (a2 > b2 => dy < 0)
  OBVIOUS
<1> HIDE DEF xl, xh, yl, yr, dy, O
<1>7. /\ a2 < b2 => O(n1, e0) < 0 /\ O(n0, e1) > 0
      /\ a2 > b2 => O(n0, e0) < 0 /\ O(n1, e1) > 0
  BY <1>1, <1>2, <1>3, <1>4, <1>5, <1>6
<1> QED
  BY <1>7 DEF O

\* The contacts of a rising segment that slips through a box.
LEMMA RisingThreads ==
  ASSUME NEW a1 \in Int, NEW a2 \in Int, NEW b1 \in Int, NEW b2 \in Int, a1 < b1, a2 < b2,
         NEW n0 \in Int, NEW n1 \in Int, NEW e0 \in Int, NEW e1 \in Int,
         Slips(<<a1, a2>>, <<b1, b2>>, <<n0, e0>>, <<n1, e1>>)
  PROVE  Threaded(<<a1, a2>>, <<b1, b2>>, <<n0, e0>>, <<n1, e1>>)
<1> DEFINE a == <<a1, a2>>
           b == <<b1, b2>>
           O(u, v) == Orient(<<a1, a2>>, <<b1, b2>>, <<u, v>>)
<1>1. n0 < n1 /\ e0 < e1 /\ b1 > n0 /\ a1 < n1 /\ b2 > e0 /\ a2 < e1
  BY DEF Slips, Upright
<1>2. O(n1, e0) < 0 /\ O(n0, e1) > 0
  BY <1>1, Extremes DEF Slips
<1>3. /\ ~ProperlyCross(<<a1, a2>>, <<b1, b2>>, <<n0, e0>>, <<n1, e0>>)
      /\ ~ProperlyCross(<<a1, a2>>, <<b1, b2>>, <<n0, e1>>, <<n1, e1>>)
      /\ ~ProperlyCross(<<a1, a2>>, <<b1, b2>>, <<n0, e0>>, <<n0, e1>>)
      /\ ~ProperlyCross(<<a1, a2>>, <<b1, b2>>, <<n1, e0>>, <<n1, e1>>)
  BY DEF Slips, Sides
<1>4. n0 # n1 /\ e0 # e1
  BY <1>1
<1>5. /\ ~OppositeSides(O(n0, e0), O(n1, e0)) \/ ~(a2 < e0 /\ e0 < b2)
      /\ ~OppositeSides(O(n0, e1), O(n1, e1)) \/ ~(a2 < e1 /\ e1 < b2)
      /\ ~OppositeSides(O(n0, e0), O(n0, e1)) \/ ~(a1 < n0 /\ n0 < b1)
      /\ ~OppositeSides(O(n1, e0), O(n1, e1)) \/ ~(a1 < n1 /\ n1 < b1)
  <2>1. ~OppositeSides(O(n0, e0), O(n1, e0)) \/ ~(a2 < e0 /\ e0 < b2)
    BY <1>3, <1>4, UncrossedNorth
  <2>2. ~OppositeSides(O(n0, e1), O(n1, e1)) \/ ~(a2 < e1 /\ e1 < b2)
    BY <1>3, <1>4, UncrossedNorth
  <2>3. ~OppositeSides(O(n0, e0), O(n0, e1)) \/ ~(a1 < n0 /\ n0 < b1)
    BY <1>3, <1>4, UncrossedEast
  <2>4. ~OppositeSides(O(n1, e0), O(n1, e1)) \/ ~(a1 < n1 /\ n1 < b1)
    BY <1>3, <1>4, UncrossedEast
  <2> QED
    BY <2>1, <2>2, <2>3, <2>4
<1>6. /\ O(n0, e0) = (b1 - a1) * (e0 - a2) - (b2 - a2) * (n0 - a1)
      /\ O(n1, e1) = (b1 - a1) * (e1 - a2) - (b2 - a2) * (n1 - a1)
      /\ O(n0, e0) \in Int /\ O(n1, e1) \in Int /\ O(n1, e0) \in Int /\ O(n0, e1) \in Int
  BY DEF Orient
<1>7. /\ ~(n0 < a1 /\ a1 < n1 /\ e0 < a2 /\ a2 < e1)
      /\ ~(n0 < b1 /\ b1 < n1 /\ e0 < b2 /\ b2 < e1)
      /\ ~(/\ 2 * n0 < a1 + b1 /\ a1 + b1 < 2 * n1
           /\ 2 * e0 < a2 + b2 /\ a2 + b2 < 2 * e1)
  BY DEF Slips, Strictly
<1> HIDE DEF O
<1>8. /\ ~(O(n0, e0) > 0 /\ a2 < e0) /\ ~(O(n0, e0) < 0 /\ a1 < n0)
      /\ ~(O(n1, e1) > 0 /\ b1 > n1) /\ ~(O(n1, e1) < 0 /\ b2 > e1)
  BY <1>1, <1>2, <1>5, <1>6 DEF OppositeSides
<1>9. /\ \/ O(n0, e0) = 0 /\ a1 < n0 /\ a2 < e0
         \/ a1 = n0 /\ a2 >= e0
         \/ a2 = e0 /\ a1 >= n0
      /\ \/ O(n1, e1) = 0 /\ b1 > n1 /\ b2 > e1
         \/ b1 = n1 /\ b2 <= e1
         \/ b2 = e1 /\ b1 <= n1
  <2>1. RisesThrough(a1, a2, b1, b2, n0, n1, e0, e1)
    BY <1>1, <1>6, <1>7, <1>8 DEF RisesThrough
  <2>2. TouchesEnds(a1, a2, b1, b2, n0, n1, e0, e1)
    BY <2>1, Rising
  <2> QED
    BY <2>2, <1>6 DEF TouchesEnds
<1>10. PICK p \in {<<n0, e0>>, a} : /\ Contact(a, b, <<n0, e0>>, <<n1, e1>>, p)
                                    /\ n0 <= p[1] /\ e0 <= p[2] /\ p[1] < n1 /\ p[2] < e1
                                    /\ (p = a \/ p = <<n0, e0>>)
  <2>1. CASE O(n0, e0) = 0 /\ a1 < n0 /\ a2 < e0
    BY <2>1, <1>1 DEF Contact, Corners, Touches, OnSegment, O
  <2>2. CASE (a1 = n0 /\ a2 >= e0) \/ (a2 = e0 /\ a1 >= n0)
    BY <2>2, <1>1 DEF Contact, Covers, Strictly
  <2> QED
    BY <2>1, <2>2, <1>9
<1>11. PICK q \in {<<n1, e1>>, b} : /\ Contact(a, b, <<n0, e0>>, <<n1, e1>>, q)
                                    /\ n0 < q[1] /\ e0 < q[2] /\ q[1] <= n1 /\ q[2] <= e1
                                    /\ (q = b \/ q = <<n1, e1>>)
  <2>1. CASE O(n1, e1) = 0 /\ b1 > n1 /\ b2 > e1
    BY <2>1, <1>1 DEF Contact, Corners, Touches, OnSegment, O
  <2>2. CASE (b1 = n1 /\ b2 <= e1) \/ (b2 = e1 /\ b1 <= n1)
    BY <2>2, <1>1 DEF Contact, Covers, Strictly
  <2> QED
    BY <2>1, <2>2, <1>9
<1>12. p \in Points /\ q \in Points /\ p[1] # q[1] /\ p[2] # q[2]
  BY <1>1, <1>10, <1>11 DEF Points
<1> QED
  BY <1>10, <1>11, <1>12 DEF Threaded

\* The contacts of a falling segment: the rising one, in a mirror.
LEMMA FallingThreads ==
  ASSUME NEW a1 \in Int, NEW a2 \in Int, NEW b1 \in Int, NEW b2 \in Int, a1 < b1, a2 > b2,
         NEW n0 \in Int, NEW n1 \in Int, NEW e0 \in Int, NEW e1 \in Int,
         Slips(<<a1, a2>>, <<b1, b2>>, <<n0, e0>>, <<n1, e1>>)
  PROVE  Threaded(<<a1, a2>>, <<b1, b2>>, <<n0, e0>>, <<n1, e1>>)
<1> DEFINE a == <<a1, a2>>
           b == <<b1, b2>>
           O(u, v) == Orient(<<a1, a2>>, <<b1, b2>>, <<u, v>>)
<1>1. n0 < n1 /\ e0 < e1 /\ b1 > n0 /\ a1 < n1 /\ a2 > e0 /\ b2 < e1
  BY DEF Slips, Upright
<1>2. O(n0, e0) < 0 /\ O(n1, e1) > 0
  BY <1>1, Extremes DEF Slips
<1>3. /\ ~ProperlyCross(<<a1, a2>>, <<b1, b2>>, <<n0, e0>>, <<n1, e0>>)
      /\ ~ProperlyCross(<<a1, a2>>, <<b1, b2>>, <<n0, e1>>, <<n1, e1>>)
      /\ ~ProperlyCross(<<a1, a2>>, <<b1, b2>>, <<n0, e0>>, <<n0, e1>>)
      /\ ~ProperlyCross(<<a1, a2>>, <<b1, b2>>, <<n1, e0>>, <<n1, e1>>)
  BY DEF Slips, Sides
<1>4. n0 # n1 /\ e0 # e1
  BY <1>1
<1>5. /\ ~OppositeSides(O(n0, e0), O(n1, e0)) \/ ~(a2 > e0 /\ e0 > b2)
      /\ ~OppositeSides(O(n0, e1), O(n1, e1)) \/ ~(a2 > e1 /\ e1 > b2)
      /\ ~OppositeSides(O(n0, e0), O(n0, e1)) \/ ~(a1 < n0 /\ n0 < b1)
      /\ ~OppositeSides(O(n1, e0), O(n1, e1)) \/ ~(a1 < n1 /\ n1 < b1)
  <2>1. ~OppositeSides(O(n0, e0), O(n1, e0)) \/ ~(a2 > e0 /\ e0 > b2)
    BY <1>3, <1>4, UncrossedNorth
  <2>2. ~OppositeSides(O(n0, e1), O(n1, e1)) \/ ~(a2 > e1 /\ e1 > b2)
    BY <1>3, <1>4, UncrossedNorth
  <2>3. ~OppositeSides(O(n0, e0), O(n0, e1)) \/ ~(a1 < n0 /\ n0 < b1)
    BY <1>3, <1>4, UncrossedEast
  <2>4. ~OppositeSides(O(n1, e0), O(n1, e1)) \/ ~(a1 < n1 /\ n1 < b1)
    BY <1>3, <1>4, UncrossedEast
  <2> QED
    BY <2>1, <2>2, <2>3, <2>4
<1>6. /\ O(n0, e1) = -((b1 - a1) * ((-e1) - (-a2)) - ((-b2) - (-a2)) * (n0 - a1))
      /\ O(n1, e0) = -((b1 - a1) * ((-e0) - (-a2)) - ((-b2) - (-a2)) * (n1 - a1))
      /\ O(n0, e0) \in Int /\ O(n1, e1) \in Int /\ O(n1, e0) \in Int /\ O(n0, e1) \in Int
      /\ (b1 - a1) * ((-e1) - (-a2)) - ((-b2) - (-a2)) * (n0 - a1) \in Int
      /\ (b1 - a1) * ((-e0) - (-a2)) - ((-b2) - (-a2)) * (n1 - a1) \in Int
  BY DEF Orient
<1>7. /\ ~(n0 < a1 /\ a1 < n1 /\ e0 < a2 /\ a2 < e1)
      /\ ~(n0 < b1 /\ b1 < n1 /\ e0 < b2 /\ b2 < e1)
      /\ ~(/\ 2 * n0 < a1 + b1 /\ a1 + b1 < 2 * n1
           /\ 2 * e0 < a2 + b2 /\ a2 + b2 < 2 * e1)
  BY DEF Slips, Strictly
<1> HIDE DEF O
<1>8. /\ ~(O(n0, e1) < 0 /\ a2 > e1) /\ ~(O(n0, e1) > 0 /\ a1 < n0)
      /\ ~(O(n1, e0) < 0 /\ b1 > n1) /\ ~(O(n1, e0) > 0 /\ b2 < e0)
  BY <1>1, <1>2, <1>5, <1>6 DEF OppositeSides
<1>9. /\ \/ O(n0, e1) = 0 /\ a1 < n0 /\ a2 > e1
         \/ a1 = n0 /\ a2 <= e1
         \/ a2 = e1 /\ a1 >= n0
      /\ \/ O(n1, e0) = 0 /\ b1 > n1 /\ b2 < e0
         \/ b1 = n1 /\ b2 >= e0
         \/ b2 = e0 /\ b1 <= n1
  <2> DEFINE p == (b1 - a1) * ((-e1) - (-a2)) - ((-b2) - (-a2)) * (n0 - a1)
             q == (b1 - a1) * ((-e0) - (-a2)) - ((-b2) - (-a2)) * (n1 - a1)
  <2>1. p \in Int /\ q \in Int /\ O(n0, e1) = -p /\ O(n1, e0) = -q
    BY <1>6
  <2> HIDE DEF p, q
  <2>2. /\ ~(p > 0 /\ (-a2) < (-e1)) /\ ~(p < 0 /\ a1 < n0)
        /\ ~(q > 0 /\ b1 > n1) /\ ~(q < 0 /\ (-b2) > (-e0))
    BY <2>1, <1>8
  <2>3. /\ a1 < b1 /\ (-a2) < (-b2) /\ n0 < n1 /\ (-e1) < (-e0)
        /\ b1 > n0 /\ a1 < n1 /\ (-b2) > (-e1) /\ (-a2) < (-e0)
        /\ ~(n0 < a1 /\ a1 < n1 /\ (-e1) < (-a2) /\ (-a2) < (-e0))
        /\ ~(n0 < b1 /\ b1 < n1 /\ (-e1) < (-b2) /\ (-b2) < (-e0))
        /\ ~(/\ 2 * n0 < a1 + b1 /\ a1 + b1 < 2 * n1
             /\ 2 * (-e1) < (-a2) + (-b2) /\ (-a2) + (-b2) < 2 * (-e0))
    BY <1>1, <1>7
  <2>4. RisesThrough(a1, -a2, b1, -b2, n0, n1, -e1, -e0)
    BY <2>2, <2>3 DEF RisesThrough, p, q
  <2>5. TouchesEnds(a1, -a2, b1, -b2, n0, n1, -e1, -e0)
    <3> DEFINE a3 == -a2
               b3 == -b2
               e2 == -e1
               e3 == -e0
    <3>1. a3 \in Int /\ b3 \in Int /\ e2 \in Int /\ e3 \in Int
      OBVIOUS
    <3>2. RisesThrough(a1, a3, b1, b3, n0, n1, e2, e3)
      BY <2>4
    <3> HIDE DEF a3, b3, e2, e3
    <3>3. TouchesEnds(a1, a3, b1, b3, n0, n1, e2, e3)
      BY <3>1, <3>2, Rising
    <3> QED
      BY <3>3 DEF a3, b3, e2, e3
  <2>6. /\ \/ p = 0 /\ a1 < n0 /\ (-a2) < (-e1)
           \/ a1 = n0 /\ (-a2) >= (-e1)
           \/ (-a2) = (-e1) /\ a1 >= n0
        /\ \/ q = 0 /\ b1 > n1 /\ (-b2) > (-e0)
           \/ b1 = n1 /\ (-b2) <= (-e0)
           \/ (-b2) = (-e0) /\ b1 <= n1
    BY <2>5 DEF TouchesEnds, p, q
  <2> QED
    BY <2>1, <2>6
<1>10. PICK p \in {<<n0, e1>>, a} : /\ Contact(a, b, <<n0, e0>>, <<n1, e1>>, p)
                                    /\ n0 <= p[1] /\ p[2] <= e1 /\ p[1] < n1 /\ e0 < p[2]
                                    /\ (p = a \/ p = <<n0, e1>>)
  <2>1. CASE O(n0, e1) = 0 /\ a1 < n0 /\ a2 > e1
    BY <2>1, <1>1 DEF Contact, Corners, Touches, OnSegment, O
  <2>2. CASE (a1 = n0 /\ a2 <= e1) \/ (a2 = e1 /\ a1 >= n0)
    BY <2>2, <1>1 DEF Contact, Covers, Strictly
  <2> QED
    BY <2>1, <2>2, <1>9
<1>11. PICK q \in {<<n1, e0>>, b} : /\ Contact(a, b, <<n0, e0>>, <<n1, e1>>, q)
                                    /\ n0 < q[1] /\ e0 <= q[2] /\ q[1] <= n1 /\ q[2] < e1
                                    /\ (q = b \/ q = <<n1, e0>>)
  <2>1. CASE O(n1, e0) = 0 /\ b1 > n1 /\ b2 < e0
    BY <2>1, <1>1 DEF Contact, Corners, Touches, OnSegment, O
  <2>2. CASE (b1 = n1 /\ b2 >= e0) \/ (b2 = e0 /\ b1 <= n1)
    BY <2>2, <1>1 DEF Contact, Covers, Strictly
  <2> QED
    BY <2>1, <2>2, <1>9
<1>12. p \in Points /\ q \in Points
  BY <1>10, <1>11 DEF Points
<1>13. p[1] # q[1] /\ p[2] # q[2]
  BY <1>1, <1>10, <1>11
<1> QED
  BY <1>10, <1>11, <1>12, <1>13 DEF Threaded

\* The side of a segment flown the other way, and of a side walked the other way.
LEMMA Reversed ==
  ASSUME NEW a \in Points, NEW b \in Points, NEW c \in Points
  PROVE  Orient(a, b, c) \in Int /\ Orient(b, a, c) = -Orient(a, b, c)
<1>1. a[1] \in Int /\ a[2] \in Int /\ b[1] \in Int /\ b[2] \in Int /\ c[1] \in Int /\ c[2] \in Int
  BY DEF Points
<1>2. \A a1, a2, b1, b2, c1, c2 \in Int :
         (a1 - b1) * (c2 - b2) - (a2 - b2) * (c1 - b1)
            = -((b1 - a1) * (c2 - a2) - (b2 - a2) * (c1 - a1))
  OBVIOUS
<1> QED
  BY <1>1, <1>2 DEF Orient

\* A proper crossing does not depend on the direction of either segment.
LEMMA CrossReversed ==
  ASSUME NEW a \in Points, NEW b \in Points, NEW c \in Points, NEW d \in Points
  PROVE  /\ ProperlyCross(b, a, c, d) <=> ProperlyCross(a, b, c, d)
         /\ ProperlyCross(a, b, d, c) <=> ProperlyCross(a, b, c, d)
<1>1. \A x, y \in Int : /\ OppositeSides(-x, -y) <=> OppositeSides(x, y)
                        /\ OppositeSides(y, x) <=> OppositeSides(x, y)
  BY DEF OppositeSides
<1>2. /\ Orient(b, a, c) = -Orient(a, b, c) /\ Orient(b, a, d) = -Orient(a, b, d)
      /\ Orient(d, c, a) = -Orient(c, d, a) /\ Orient(d, c, b) = -Orient(c, d, b)
      /\ Orient(a, b, c) \in Int /\ Orient(a, b, d) \in Int
      /\ Orient(c, d, a) \in Int /\ Orient(c, d, b) \in Int
  BY Reversed
<1>3. /\ OppositeSides(Orient(b, a, c), Orient(b, a, d))
            <=> OppositeSides(Orient(a, b, c), Orient(a, b, d))
      /\ OppositeSides(Orient(d, c, a), Orient(d, c, b))
            <=> OppositeSides(Orient(c, d, a), Orient(c, d, b))
      /\ OppositeSides(Orient(c, d, b), Orient(c, d, a))
            <=> OppositeSides(Orient(c, d, a), Orient(c, d, b))
      /\ OppositeSides(Orient(a, b, d), Orient(a, b, c))
            <=> OppositeSides(Orient(a, b, c), Orient(a, b, d))
  BY <1>1, <1>2
<1> QED
  BY <1>3 DEF ProperlyCross

\* Slipping through, and threading, do not depend on the way the segment is flown.
LEMMA SlipReversed ==
  ASSUME NEW a \in Points, NEW b \in Points, NEW lo \in Points, NEW hi \in Points
  PROVE  /\ Slips(a, b, lo, hi) => Slips(b, a, lo, hi)
         /\ Threaded(b, a, lo, hi) => Threaded(a, b, lo, hi)
<1>1. a[1] \in Int /\ a[2] \in Int /\ b[1] \in Int /\ b[2] \in Int
  BY DEF Points
<1>2. /\ Corners(lo, hi) \subseteq Points
      /\ \A s \in Sides(lo, hi) : s[1] \in Points /\ s[2] \in Points
  BY DEF Corners, Sides, Points
<1>3. \A c \in Corners(lo, hi) : Orient(a, b, c) \in Int /\ Orient(b, a, c) = -Orient(a, b, c)
  BY <1>2, Reversed
<1>4. ASSUME Slips(a, b, lo, hi)
      PROVE  Slips(b, a, lo, hi)
  <2>1. /\ \E c \in Corners(lo, hi) : Orient(b, a, c) > 0
        /\ \E c \in Corners(lo, hi) : Orient(b, a, c) < 0
    BY <1>3, <1>4 DEF Slips
  <2>2. \A s \in Sides(lo, hi) : ~ProperlyCross(b, a, s[1], s[2])
    BY <1>2, <1>4, CrossReversed DEF Slips
  <2>3. b[1] + a[1] = a[1] + b[1] /\ b[2] + a[2] = a[2] + b[2]
    BY <1>1
  <2> QED
    BY <1>4, <2>1, <2>2, <2>3 DEF Slips
<1>5. \A c \in Corners(lo, hi) : Touches(b, a, c) => Touches(a, b, c)
  BY <1>3 DEF Touches, OnSegment
<1>6. \A p : Contact(b, a, lo, hi, p) => Contact(a, b, lo, hi, p)
  BY <1>5 DEF Contact
<1>7. Threaded(b, a, lo, hi) => Threaded(a, b, lo, hi)
  BY <1>6 DEF Threaded
<1> QED
  BY <1>4, <1>7

\* A segment along an axis does not slip through.
LEMMA NoneLevel ==
  ASSUME NEW a1 \in Int, NEW a2 \in Int, NEW b1 \in Int, NEW b2 \in Int, a1 = b1 \/ a2 = b2,
         NEW n0 \in Int, NEW n1 \in Int, NEW e0 \in Int, NEW e1 \in Int
  PROVE  ~Slips(<<a1, a2>>, <<b1, b2>>, <<n0, e0>>, <<n1, e1>>)
<1> SUFFICES ASSUME Slips(<<a1, a2>>, <<b1, b2>>, <<n0, e0>>, <<n1, e1>>)
             PROVE  FALSE
  OBVIOUS
<1>1. /\ n0 < n1 /\ e0 < e1
      /\ (a1 > n0 \/ b1 > n0) /\ (a1 < n1 \/ b1 < n1)
      /\ (a2 > e0 \/ b2 > e0) /\ (a2 < e1 \/ b2 < e1)
      /\ ~(n0 < a1 /\ a1 < n1 /\ e0 < a2 /\ a2 < e1)
      /\ ~(n0 < b1 /\ b1 < n1 /\ e0 < b2 /\ b2 < e1)
      /\ ~(/\ 2 * n0 < a1 + b1 /\ a1 + b1 < 2 * n1
           /\ 2 * e0 < a2 + b2 /\ a2 + b2 < 2 * e1)
  BY DEF Slips, Strictly, Upright
<1>2. /\ ~ProperlyCross(<<a1, a2>>, <<b1, b2>>, <<n0, e0>>, <<n1, e0>>)
      /\ ~ProperlyCross(<<a1, a2>>, <<b1, b2>>, <<n0, e1>>, <<n1, e1>>)
      /\ ~ProperlyCross(<<a1, a2>>, <<b1, b2>>, <<n0, e0>>, <<n0, e1>>)
      /\ ~ProperlyCross(<<a1, a2>>, <<b1, b2>>, <<n1, e0>>, <<n1, e1>>)
  BY DEF Slips, Sides
<1>3. n0 # n1 /\ e0 # e1
  BY <1>1
<1>4. CASE a1 = b1
  <2>1. a2 # b2 /\ n0 < a1 /\ a1 < n1
    BY <1>1, <1>4
  <2>2. ASSUME NEW c \in Int
        PROVE  OppositeSides(Orient(<<a1, a2>>, <<b1, b2>>, <<n0, c>>),
                             Orient(<<a1, a2>>, <<b1, b2>>, <<n1, c>>))
    <3> DEFINE z == b2 - a2
               u == a1 - n0
               v == a1 - n1
    <3>1. /\ Orient(<<a1, a2>>, <<b1, b2>>, <<n0, c>>) = (b1 - a1) * (c - a2) + z * u
          /\ Orient(<<a1, a2>>, <<b1, b2>>, <<n1, c>>) = (b1 - a1) * (c - a2) + z * v
      BY DEF Orient
    <3>0. b1 - a1 = 0
      BY <1>4
    <3>2. (b1 - a1) * (c - a2) = 0
      BY <3>0
    <3>3. z \in Int /\ u \in Int /\ v \in Int /\ z # 0 /\ (u > 0 /\ v < 0)
      BY <2>1
    <3>4. z * u \in Int /\ z * v \in Int
      OBVIOUS
    <3>5. /\ Orient(<<a1, a2>>, <<b1, b2>>, <<n0, c>>) = z * u
          /\ Orient(<<a1, a2>>, <<b1, b2>>, <<n1, c>>) = z * v
      BY <3>1, <3>2, <3>4
    <3> HIDE DEF z, u, v
    <3>6. OppositeSides(z * u, z * v)
      BY <3>3, Astride
    <3> QED
      BY <3>5, <3>6
  <2>3. /\ ~((a2 < e0 /\ e0 < b2) \/ (a2 > e0 /\ e0 > b2))
        /\ ~((a2 < e1 /\ e1 < b2) \/ (a2 > e1 /\ e1 > b2))
    <3>1. ~((a2 < e0 /\ e0 < b2) \/ (a2 > e0 /\ e0 > b2))
      BY <1>2, <1>3, <2>2, UncrossedNorth
    <3>2. ~((a2 < e1 /\ e1 < b2) \/ (a2 > e1 /\ e1 > b2))
      BY <1>2, <1>3, <2>2, UncrossedNorth
    <3> QED
      BY <3>1, <3>2
  <2> QED
    BY <1>1, <1>4, <2>3
<1>5. CASE a2 = b2
  <2>1. a1 # b1 /\ e0 < a2 /\ a2 < e1
    BY <1>1, <1>5
  <2>2. ASSUME NEW c \in Int
        PROVE  OppositeSides(Orient(<<a1, a2>>, <<b1, b2>>, <<c, e0>>),
                             Orient(<<a1, a2>>, <<b1, b2>>, <<c, e1>>))
    <3> DEFINE z == b1 - a1
               u == e0 - a2
               v == e1 - a2
    <3>1. /\ Orient(<<a1, a2>>, <<b1, b2>>, <<c, e0>>) = z * u - (b2 - a2) * (c - a1)
          /\ Orient(<<a1, a2>>, <<b1, b2>>, <<c, e1>>) = z * v - (b2 - a2) * (c - a1)
      BY DEF Orient
    <3>0. b2 - a2 = 0
      BY <1>5
    <3>2. (b2 - a2) * (c - a1) = 0
      BY <3>0
    <3>3. z \in Int /\ u \in Int /\ v \in Int /\ z # 0 /\ (u < 0 /\ v > 0)
      BY <2>1
    <3>4. z * u \in Int /\ z * v \in Int
      OBVIOUS
    <3>5. /\ Orient(<<a1, a2>>, <<b1, b2>>, <<c, e0>>) = z * u
          /\ Orient(<<a1, a2>>, <<b1, b2>>, <<c, e1>>) = z * v
      BY <3>1, <3>2, <3>4
    <3> HIDE DEF z, u, v
    <3>6. OppositeSides(z * u, z * v)
      BY <3>3, Astride
    <3> QED
      BY <3>5, <3>6
  <2>3. /\ ~((a1 < n0 /\ n0 < b1) \/ (a1 > n0 /\ n0 > b1))
        /\ ~((a1 < n1 /\ n1 < b1) \/ (a1 > n1 /\ n1 > b1))
    <3>1. ~((a1 < n0 /\ n0 < b1) \/ (a1 > n0 /\ n0 > b1))
      BY <1>2, <1>3, <2>2, UncrossedEast
    <3>2. ~((a1 < n1 /\ n1 < b1) \/ (a1 > n1 /\ n1 > b1))
      BY <1>2, <1>3, <2>2, UncrossedEast
    <3> QED
      BY <3>1, <3>2
  <2> QED
    BY <1>1, <1>5, <2>3
<1> QED
  BY <1>4, <1>5

\* The only way past the tests and through the inside is from corner to corner
\* (or from the boundary), between two points on no common side.
LEMMA SlipThreads ==
  ASSUME NEW a \in Points, NEW b \in Points, NEW lo \in Points, NEW hi \in Points,
         Slips(a, b, lo, hi)
  PROVE  Threaded(a, b, lo, hi)
<1>1. PICK a1 \in Int, a2 \in Int : a = <<a1, a2>>
  BY DEF Points
<1>2. PICK b1 \in Int, b2 \in Int : b = <<b1, b2>>
  BY DEF Points
<1>3. PICK n0 \in Int, e0 \in Int : lo = <<n0, e0>>
  BY DEF Points
<1>4. PICK n1 \in Int, e1 \in Int : hi = <<n1, e1>>
  BY DEF Points
<1>5. Slips(b, a, lo, hi)
  BY SlipReversed
<1>6. a1 # b1 /\ a2 # b2
  BY <1>1, <1>2, <1>3, <1>4, NoneLevel
<1>7. CASE a1 < b1 /\ a2 < b2
  BY <1>1, <1>2, <1>3, <1>4, <1>7, RisingThreads
<1>8. CASE a1 < b1 /\ a2 > b2
  BY <1>1, <1>2, <1>3, <1>4, <1>8, FallingThreads
<1>9. CASE b1 < a1 /\ b2 < a2
  <2>1. Threaded(b, a, lo, hi)
    BY <1>1, <1>2, <1>3, <1>4, <1>5, <1>9, RisingThreads
  <2> QED
    BY <2>1, SlipReversed
<1>10. CASE b1 < a1 /\ b2 > a2
  <2>1. Threaded(b, a, lo, hi)
    BY <1>1, <1>2, <1>3, <1>4, <1>5, <1>10, FallingThreads
  <2> QED
    BY <2>1, SlipReversed
<1> QED
  BY <1>6, <1>7, <1>8, <1>9, <1>10

Low(ring) == <<IF ring[1][1] < ring[3][1] THEN ring[1][1] ELSE ring[3][1],
               IF ring[1][2] < ring[3][2] THEN ring[1][2] ELSE ring[3][2]>>
High(ring) == <<IF ring[1][1] < ring[3][1] THEN ring[3][1] ELSE ring[1][1],
                IF ring[1][2] < ring[3][2] THEN ring[3][2] ELSE ring[1][2]>>

\* A ring that walks the sides of the box once, each in one direction.
Walks(ring, lo, hi) ==
  /\ Len(ring) = 4 /\ Upright(lo, hi)
  /\ {ring[i] : i \in DOMAIN ring} = Corners(lo, hi)
  /\ \A e \in Edges(ring) : e \in Sides(lo, hi) \/ <<e[2], e[1]>> \in Sides(lo, hi)
  /\ \A s \in Sides(lo, hi) : \/ s \in Edges(ring) /\ <<s[2], s[1]>> \notin Edges(ring)
                              \/ s \notin Edges(ring) /\ <<s[2], s[1]>> \in Edges(ring)

\* The corners and the edges of a ring of four.
LEMMA FourEdges ==
  ASSUME NEW ring \in Seq(Points), Len(ring) = 4
  PROVE  /\ Edges(ring) = {<<ring[1], ring[2]>>, <<ring[2], ring[3]>>,
                           <<ring[3], ring[4]>>, <<ring[4], ring[1]>>}
         /\ {ring[i] : i \in DOMAIN ring} = {ring[1], ring[2], ring[3], ring[4]}
         /\ \A i \in 1..4 : ring[i] \in Points
         /\ DOMAIN ring = {1, 2, 3, 4}
<1>1. DOMAIN ring = {1, 2, 3, 4}
  OBVIOUS
<1>2. After(ring, 1) = 2 /\ After(ring, 2) = 3 /\ After(ring, 3) = 4 /\ After(ring, 4) = 1
  BY DEF After
<1>3. Edges(ring) = {<<ring[1], ring[2]>>, <<ring[2], ring[3]>>,
                     <<ring[3], ring[4]>>, <<ring[4], ring[1]>>}
  <2>1. Edges(ring) = {<<ring[i], ring[After(ring, i)]>> : i \in {1, 2, 3, 4}}
    BY <1>1 DEF Edges
  <2>2. \A x : x \in {<<ring[i], ring[After(ring, i)]>> : i \in {1, 2, 3, 4}}
               <=> \/ x = <<ring[1], ring[2]>> \/ x = <<ring[2], ring[3]>>
                   \/ x = <<ring[3], ring[4]>> \/ x = <<ring[4], ring[1]>>
    BY <1>2
  <2> QED
    BY <2>1, <2>2
<1>4. {ring[i] : i \in DOMAIN ring} = {ring[1], ring[2], ring[3], ring[4]}
  BY <1>1
<1>5. \A i \in 1..4 : ring[i] \in Points
  BY ElementOfSeq
<1> QED
  BY <1>1, <1>3, <1>4, <1>5

\* A point has two coordinates.
LEMMA APoint == \A p \in Points : \E x, y \in Int : p = <<x, y>>
BY DEF Points

\* Such a box is walked round, whichever corner comes first.
LEMMA Boxed ==
  ASSUME NEW ring \in Seq(Points), IsBox(ring)
  PROVE  /\ Low(ring) \in Points /\ High(ring) \in Points
         /\ Walks(ring, Low(ring), High(ring))
<1>1. Len(ring) = 4
  BY DEF IsBox
<1>2. /\ Edges(ring) = {<<ring[1], ring[2]>>, <<ring[2], ring[3]>>,
                        <<ring[3], ring[4]>>, <<ring[4], ring[1]>>}
      /\ {ring[i] : i \in DOMAIN ring} = {ring[1], ring[2], ring[3], ring[4]}
      /\ ring[1] \in Points /\ ring[3] \in Points
  BY <1>1, FourEdges
<1>3. PICK p1 \in Int, p2 \in Int : ring[1] = <<p1, p2>>
  BY <1>2, APoint
<1>4. PICK q1 \in Int, q2 \in Int : ring[3] = <<q1, q2>>
  BY <1>2, APoint
<1>5. p1 # q1 /\ p2 # q2
  BY <1>3, <1>4 DEF IsBox
<1>6. \/ ring[2] = <<q1, p2>> /\ ring[4] = <<p1, q2>>
      \/ ring[2] = <<p1, q2>> /\ ring[4] = <<q1, p2>>
  BY <1>3, <1>4 DEF IsBox
<1> DEFINE n0 == IF p1 < q1 THEN p1 ELSE q1
           n1 == IF p1 < q1 THEN q1 ELSE p1
           e0 == IF p2 < q2 THEN p2 ELSE q2
           e1 == IF p2 < q2 THEN q2 ELSE p2
<1>7. n0 \in Int /\ n1 \in Int /\ e0 \in Int /\ e1 \in Int /\ n0 < n1 /\ e0 < e1
  BY <1>5
<1>8. /\ (ring[1] = <<n0, e0>> /\ ring[3] = <<n1, e1>>) \/ (ring[1] = <<n1, e1>> /\ ring[3] = <<n0, e0>>)
         \/ (ring[1] = <<n0, e1>> /\ ring[3] = <<n1, e0>>) \/ (ring[1] = <<n1, e0>> /\ ring[3] = <<n0, e1>>)
  BY <1>3, <1>4, <1>5
<1>9. \/ ring[1] = <<n0, e0>> /\ ring[2] = <<n1, e0>> /\ ring[3] = <<n1, e1>> /\ ring[4] = <<n0, e1>>
      \/ ring[1] = <<n1, e0>> /\ ring[2] = <<n1, e1>> /\ ring[3] = <<n0, e1>> /\ ring[4] = <<n0, e0>>
      \/ ring[1] = <<n1, e1>> /\ ring[2] = <<n0, e1>> /\ ring[3] = <<n0, e0>> /\ ring[4] = <<n1, e0>>
      \/ ring[1] = <<n0, e1>> /\ ring[2] = <<n0, e0>> /\ ring[3] = <<n1, e0>> /\ ring[4] = <<n1, e1>>
      \/ ring[1] = <<n0, e0>> /\ ring[2] = <<n0, e1>> /\ ring[3] = <<n1, e1>> /\ ring[4] = <<n1, e0>>
      \/ ring[1] = <<n0, e1>> /\ ring[2] = <<n1, e1>> /\ ring[3] = <<n1, e0>> /\ ring[4] = <<n0, e0>>
      \/ ring[1] = <<n1, e1>> /\ ring[2] = <<n1, e0>> /\ ring[3] = <<n0, e0>> /\ ring[4] = <<n0, e1>>
      \/ ring[1] = <<n1, e0>> /\ ring[2] = <<n0, e0>> /\ ring[3] = <<n0, e1>> /\ ring[4] = <<n1, e1>>
  BY <1>3, <1>4, <1>5, <1>6
<1>17. Low(ring) = <<n0, e0>> /\ High(ring) = <<n1, e1>>
  BY <1>3, <1>4 DEF Low, High
<1> HIDE DEF n0, n1, e0, e1
<1> DEFINE A == <<n0, e0>>
           B == <<n1, e0>>
           C == <<n1, e1>>
           D == <<n0, e1>>
<1>10. A # B /\ A # C /\ A # D /\ B # C /\ B # D /\ C # D
  BY <1>7
<1>11. /\ Corners(A, C) = {A, B, C, D}
       /\ Sides(A, C) = {<<A, B>>, <<D, C>>, <<A, D>>, <<B, C>>}
       /\ Upright(A, C) /\ A \in Points /\ C \in Points
  BY <1>7 DEF Corners, Sides, Upright, Points
<1>12. \/ ring[1] = A /\ ring[2] = B /\ ring[3] = C /\ ring[4] = D
       \/ ring[1] = B /\ ring[2] = C /\ ring[3] = D /\ ring[4] = A
       \/ ring[1] = C /\ ring[2] = D /\ ring[3] = A /\ ring[4] = B
       \/ ring[1] = D /\ ring[2] = A /\ ring[3] = B /\ ring[4] = C
       \/ ring[1] = A /\ ring[2] = D /\ ring[3] = C /\ ring[4] = B
       \/ ring[1] = D /\ ring[2] = C /\ ring[3] = B /\ ring[4] = A
       \/ ring[1] = C /\ ring[2] = B /\ ring[3] = A /\ ring[4] = D
       \/ ring[1] = B /\ ring[2] = A /\ ring[3] = D /\ ring[4] = C
  BY <1>9
<1> HIDE DEF A, B, C, D
<1>13. \/ Edges(ring) = {<<A, B>>, <<B, C>>, <<C, D>>, <<D, A>>}
       \/ Edges(ring) = {<<B, A>>, <<C, B>>, <<D, C>>, <<A, D>>}
  BY <1>2, <1>12
<1>14. {ring[i] : i \in DOMAIN ring} = Corners(A, C)
  BY <1>2, <1>11, <1>12
<1>15. \A e \in Edges(ring) : e \in Sides(A, C) \/ <<e[2], e[1]>> \in Sides(A, C)
  BY <1>11, <1>13
<1>16. \A s \in Sides(A, C) : \/ s \in Edges(ring) /\ <<s[2], s[1]>> \notin Edges(ring)
                              \/ s \notin Edges(ring) /\ <<s[2], s[1]>> \in Edges(ring)
  BY <1>10, <1>11, <1>13
<1>18. Low(ring) = A /\ High(ring) = C
  BY <1>17 DEF A, C
<1> QED
  BY <1>1, <1>11, <1>14, <1>15, <1>16, <1>18 DEF Walks

\* The sides of a box as seen from strictly inside it.
LEMMA Sided ==
  ASSUME NEW lo \in Points, NEW hi \in Points, NEW p \in Points, Upright(lo, hi),
         Strictly(p, lo, hi), NEW s \in Sides(lo, hi)
  PROVE  /\ ~OnSegment(s[1], s[2], p) /\ ~OnSegment(s[2], s[1], p)
         /\ RayCrosses(p, s[1], s[2]) <=> s = <<<<hi[1], lo[2]>>, hi>>
         /\ RayCrosses(p, s[2], s[1]) <=> s = <<<<hi[1], lo[2]>>, hi>>
<1>1. PICK n0 \in Int, e0 \in Int : lo = <<n0, e0>>
  BY DEF Points
<1>2. PICK n1 \in Int, e1 \in Int : hi = <<n1, e1>>
  BY DEF Points
<1>3. PICK u \in Int, v \in Int : p = <<u, v>>
  BY DEF Points
<1>4. n0 < u /\ u < n1 /\ e0 < v /\ v < e1
  BY <1>1, <1>2, <1>3 DEF Strictly
<1>5. ASSUME NEW x \in Int
      PROVE  /\ RayCrosses(<<u, v>>, <<x, e0>>, <<x, e1>>) <=> u < x
             /\ RayCrosses(<<u, v>>, <<x, e1>>, <<x, e0>>) <=> u < x
  <2> DEFINE rise == e1 - e0
             fall == e0 - e1
             left == u - x
  <2>1. rise \in Int /\ rise > 0 /\ fall \in Int /\ fall < 0 /\ left \in Int /\ (left < 0 <=> u < x)
    BY <1>4
  <2>2. /\ RayCrosses(<<u, v>>, <<x, e0>>, <<x, e1>>) <=> left * rise < (v - e0) * (x - x)
        /\ RayCrosses(<<u, v>>, <<x, e1>>, <<x, e0>>) <=> left * fall > (v - e1) * (x - x)
    BY <1>4 DEF RayCrosses
  <2>3. x - x = 0
    OBVIOUS
  <2>4. (v - e0) * (x - x) = 0 /\ (v - e1) * (x - x) = 0
    BY <2>3
  <2> HIDE DEF left, rise, fall
  <2>5. (left * rise < 0 <=> left < 0) /\ (left * fall > 0 <=> left < 0)
    <3>1. \/ left < 0 /\ left * rise < 0 /\ left * fall > 0
          \/ left = 0 /\ left * rise = 0 /\ left * fall = 0
          \/ left > 0 /\ left * rise > 0 /\ left * fall < 0
      BY <2>1, Signs
    <3> QED
      BY <3>1, <2>1
  <2> QED
    BY <2>1, <2>2, <2>4, <2>5
<1>6. ASSUME NEW c \in {e0, e1}, NEW x \in Int, NEW y \in Int
      PROVE  ~RayCrosses(<<u, v>>, <<x, c>>, <<y, c>>)
  BY DEF RayCrosses
<1>7. Sides(lo, hi) = {<<<<n0, e0>>, <<n1, e0>>>>, <<<<n0, e1>>, <<n1, e1>>>>,
                       <<<<n0, e0>>, <<n0, e1>>>>, <<<<n1, e0>>, <<n1, e1>>>>}
  BY <1>1, <1>2 DEF Sides
<1>8. ~OnSegment(s[1], s[2], p) /\ ~OnSegment(s[2], s[1], p)
  BY <1>3, <1>4, <1>7 DEF OnSegment
<1>9. n0 # n1 /\ e0 # e1 /\ u < n1 /\ ~(u < n0)
  BY <1>4
<1>10. /\ RayCrosses(p, s[1], s[2]) <=> s = <<<<n1, e0>>, <<n1, e1>>>>
       /\ RayCrosses(p, s[2], s[1]) <=> s = <<<<n1, e0>>, <<n1, e1>>>>
  <2>1. CASE s = <<<<n0, e0>>, <<n1, e0>>>>
    BY <1>3, <1>6, <1>9, <2>1
  <2>2. CASE s = <<<<n0, e1>>, <<n1, e1>>>>
    BY <1>3, <1>6, <1>9, <2>2
  <2>3. CASE s = <<<<n0, e0>>, <<n0, e1>>>>
    BY <1>3, <1>5, <1>9, <2>3
  <2>4. CASE s = <<<<n1, e0>>, <<n1, e1>>>>
    BY <1>3, <1>5, <1>9, <2>4
  <2> QED
    BY <1>7, <2>1, <2>2, <2>3, <2>4
<1> QED
  BY <1>1, <1>2, <1>8, <1>10

\* What is strictly inside a box is inside the ring that walks it: the ray
\* crosses the far side alone.
LEMMA StrictlyInside ==
  ASSUME NEW ring \in Seq(Points), NEW lo \in Points, NEW hi \in Points, NEW p \in Points,
         Walks(ring, lo, hi), Strictly(p, lo, hi)
  PROVE  Inside(p, ring)
<1> DEFINE far == <<<<hi[1], lo[2]>>, hi>>
           back == <<hi, <<hi[1], lo[2]>>>>
           crossed == {e \in Edges(ring) : RayCrosses(p, e[1], e[2])}
<1>1. \A s \in Sides(lo, hi) : /\ ~OnSegment(s[1], s[2], p) /\ ~OnSegment(s[2], s[1], p)
                               /\ RayCrosses(p, s[1], s[2]) <=> s = far
                               /\ RayCrosses(p, s[2], s[1]) <=> s = far
  BY Sided DEF Walks
<1>2. \A e \in Edges(ring) : e = <<e[1], e[2]>>
  BY DEF Edges
<1>3. \A e \in Edges(ring) : ~Touches(e[1], e[2], p)
  <2> SUFFICES ASSUME NEW e \in Edges(ring)
               PROVE  ~OnSegment(e[1], e[2], p)
    BY DEF Touches
  <2>1. CASE e \in Sides(lo, hi)
    BY <1>1, <2>1
  <2>2. CASE <<e[2], e[1]>> \in Sides(lo, hi)
    BY <1>1, <2>2
  <2> QED
    BY <2>1, <2>2 DEF Walks
<1>4. far \in Sides(lo, hi) /\ far[1] = <<hi[1], lo[2]>> /\ far[2] = hi
  BY DEF Sides
<1>5. \A e \in Edges(ring) : RayCrosses(p, e[1], e[2]) <=> (e = far \/ e = back)
  <2> SUFFICES ASSUME NEW e \in Edges(ring)
               PROVE  RayCrosses(p, e[1], e[2]) <=> (e = far \/ e = back)
    OBVIOUS
  <2>0. e = <<e[1], e[2]>>
    BY <1>2
  <2>1. CASE e \in Sides(lo, hi)
    <3>1. e = back => FALSE
      BY <2>1 DEF Sides, Walks, Upright, Points
    <3> QED
      BY <1>1, <2>1, <3>1
  <2>2. CASE <<e[2], e[1]>> \in Sides(lo, hi)
    <3>1. e = far => FALSE
      BY <2>2 DEF Sides, Walks, Upright, Points
    <3>2. RayCrosses(p, e[1], e[2]) <=> <<e[2], e[1]>> = far
      BY <1>1, <2>2
    <3> QED
      BY <2>0, <3>1, <3>2
  <2> QED
    BY <2>1, <2>2 DEF Walks
<1>6. \/ far \in Edges(ring) /\ back \notin Edges(ring)
      \/ far \notin Edges(ring) /\ back \in Edges(ring)
  BY <1>4 DEF Walks
<1>7. crossed = {far} \/ crossed = {back}
  BY <1>5, <1>6
<1>8. Cardinality(crossed) = 1
  BY <1>7, FS_Singleton
<1> QED
  BY <1>3, <1>8 DEF Inside, Walks

Twice(ring) == [i \in DOMAIN ring |-> <<2 * ring[i][1], 2 * ring[i][2]>>]

\* Doubled, a box is a box of twice the corners.
LEMMA Doubled ==
  ASSUME NEW ring \in Seq(Points), IsBox(ring)
  PROVE  /\ Twice(ring) \in Seq(Points) /\ IsBox(Twice(ring))
         /\ Low(Twice(ring)) = <<2 * Low(ring)[1], 2 * Low(ring)[2]>>
         /\ High(Twice(ring)) = <<2 * High(ring)[1], 2 * High(ring)[2]>>
<1>1. Len(ring) = 4
  BY DEF IsBox
<1>2. /\ DOMAIN ring = {1, 2, 3, 4}
      /\ \A i \in 1..4 : ring[i] \in Points
  BY <1>1, FourEdges
<1>3. Twice(ring) \in Seq(Points) /\ Len(Twice(ring)) = 4
  <2>1. Twice(ring) = [i \in 1..4 |-> <<2 * ring[i][1], 2 * ring[i][2]>>]
    BY <1>1 DEF Twice
  <2>2. \A i \in 1..4 : <<2 * ring[i][1], 2 * ring[i][2]>> \in Points
    BY <1>2 DEF Points
  <2> QED
    BY <2>1, <2>2
<1>4. PICK p1 \in Int, p2 \in Int : ring[1] = <<p1, p2>>
  BY <1>2 DEF Points
<1>5. PICK q1 \in Int, q2 \in Int : ring[3] = <<q1, q2>>
  BY <1>2 DEF Points
<1>6. /\ Twice(ring)[1] = <<2 * p1, 2 * p2>> /\ Twice(ring)[3] = <<2 * q1, 2 * q2>>
      /\ Twice(ring)[2] = <<2 * ring[2][1], 2 * ring[2][2]>>
      /\ Twice(ring)[4] = <<2 * ring[4][1], 2 * ring[4][2]>>
  BY <1>2, <1>4, <1>5 DEF Twice
<1>7. IsBox(Twice(ring))
  BY <1>3, <1>4, <1>5, <1>6 DEF IsBox
<1>8. /\ Low(Twice(ring)) = <<2 * Low(ring)[1], 2 * Low(ring)[2]>>
      /\ High(Twice(ring)) = <<2 * High(ring)[1], 2 * High(ring)[2]>>
  BY <1>4, <1>5, <1>6 DEF Low, High
<1> QED
  BY <1>3, <1>7, <1>8

\* The boundary of a box is its sides, and a point is on no side of another
\* line.
LEMMA OnSides ==
  ASSUME NEW lo \in Points, NEW hi \in Points, Upright(lo, hi)
  PROVE  /\ \A p \in Points : Covers(p, lo, hi) /\ ~Strictly(p, lo, hi)
               => \E s \in Sides(lo, hi) : Touches(s[1], s[2], p) /\ Touches(s[2], s[1], p)
         /\ \A p, q \in Points, s \in Sides(lo, hi) :
               (OnSegment(s[1], s[2], p) \/ OnSegment(s[2], s[1], p))
                  /\ (OnSegment(s[1], s[2], q) \/ OnSegment(s[2], s[1], q))
               => p[1] = q[1] \/ p[2] = q[2]
<1>1. PICK n0 \in Int, e0 \in Int : lo = <<n0, e0>>
  BY DEF Points
<1>2. PICK n1 \in Int, e1 \in Int : hi = <<n1, e1>>
  BY DEF Points
<1>3. n0 < n1 /\ e0 < e1
  BY <1>1, <1>2 DEF Upright
<1>4. Sides(lo, hi) = {<<<<n0, e0>>, <<n1, e0>>>>, <<<<n0, e1>>, <<n1, e1>>>>,
                       <<<<n0, e0>>, <<n0, e1>>>>, <<<<n1, e0>>, <<n1, e1>>>>}
  BY <1>1, <1>2 DEF Sides
<1>5. ASSUME NEW p \in Points, Covers(p, lo, hi), ~Strictly(p, lo, hi)
      PROVE  \E s \in Sides(lo, hi) : Touches(s[1], s[2], p) /\ Touches(s[2], s[1], p)
  <2>1. PICK u \in Int, v \in Int : p = <<u, v>>
    BY DEF Points
  <2>2. n0 <= u /\ u <= n1 /\ e0 <= v /\ v <= e1 /\ (u = n0 \/ u = n1 \/ v = e0 \/ v = e1)
    BY <1>1, <1>2, <1>5, <2>1 DEF Covers, Strictly
  <2>3. ASSUME NEW x \in Int, NEW y \in Int, NEW c \in Int
        PROVE  /\ Orient(<<x, c>>, <<y, c>>, <<u, c>>) = 0
               /\ Orient(<<c, x>>, <<c, y>>, <<c, v>>) = 0
    <3>1. Orient(<<x, c>>, <<y, c>>, <<u, c>>) = (y - x) * (c - c)
      BY AlongNorth
    <3>2. Orient(<<c, x>>, <<c, y>>, <<c, v>>) = (x - y) * (c - c)
      BY AlongEast
    <3>3. c - c = 0 /\ \A z \in Int : z * 0 = 0
      OBVIOUS
    <3> QED
      BY <3>1, <3>2, <3>3
  <2>4. CASE v = e0
    <3>1. Orient(<<n0, e0>>, <<n1, e0>>, <<u, e0>>) = 0 /\ Orient(<<n1, e0>>, <<n0, e0>>, <<u, e0>>) = 0
      BY <2>3
    <3>2. p = <<u, e0>>
      BY <2>1, <2>4
    <3>3. OnSegment(<<n0, e0>>, <<n1, e0>>, <<u, e0>>) /\ OnSegment(<<n1, e0>>, <<n0, e0>>, <<u, e0>>)
      BY <1>3, <2>2 DEF OnSegment
    <3> QED
      BY <3>1, <3>2, <3>3, <1>4 DEF Touches
  <2>5. CASE v = e1
    <3>1. Orient(<<n0, e1>>, <<n1, e1>>, <<u, e1>>) = 0 /\ Orient(<<n1, e1>>, <<n0, e1>>, <<u, e1>>) = 0
      BY <2>3
    <3>2. p = <<u, e1>>
      BY <2>1, <2>5
    <3>3. OnSegment(<<n0, e1>>, <<n1, e1>>, <<u, e1>>) /\ OnSegment(<<n1, e1>>, <<n0, e1>>, <<u, e1>>)
      BY <1>3, <2>2 DEF OnSegment
    <3> QED
      BY <3>1, <3>2, <3>3, <1>4 DEF Touches
  <2>6. CASE u = n0
    <3>1. Orient(<<n0, e0>>, <<n0, e1>>, <<n0, v>>) = 0 /\ Orient(<<n0, e1>>, <<n0, e0>>, <<n0, v>>) = 0
      BY <2>3
    <3>2. p = <<n0, v>>
      BY <2>1, <2>6
    <3>3. OnSegment(<<n0, e0>>, <<n0, e1>>, <<n0, v>>) /\ OnSegment(<<n0, e1>>, <<n0, e0>>, <<n0, v>>)
      BY <1>3, <2>2 DEF OnSegment
    <3> QED
      BY <3>1, <3>2, <3>3, <1>4 DEF Touches
  <2>7. CASE u = n1
    <3>1. Orient(<<n1, e0>>, <<n1, e1>>, <<n1, v>>) = 0 /\ Orient(<<n1, e1>>, <<n1, e0>>, <<n1, v>>) = 0
      BY <2>3
    <3>2. p = <<n1, v>>
      BY <2>1, <2>7
    <3>3. OnSegment(<<n1, e0>>, <<n1, e1>>, <<n1, v>>) /\ OnSegment(<<n1, e1>>, <<n1, e0>>, <<n1, v>>)
      BY <1>3, <2>2 DEF OnSegment
    <3> QED
      BY <3>1, <3>2, <3>3, <1>4 DEF Touches
  <2> QED
    BY <2>2, <2>4, <2>5, <2>6, <2>7
<1>6. ASSUME NEW p \in Points, NEW q \in Points, NEW s \in Sides(lo, hi),
             OnSegment(s[1], s[2], p) \/ OnSegment(s[2], s[1], p),
             OnSegment(s[1], s[2], q) \/ OnSegment(s[2], s[1], q)
      PROVE  p[1] = q[1] \/ p[2] = q[2]
  <2>1. PICK u \in Int, v \in Int : p = <<u, v>>
    BY DEF Points
  <2>2. PICK x \in Int, y \in Int : q = <<x, y>>
    BY DEF Points
  <2> QED
    BY <1>3, <1>4, <1>6, <2>1, <2>2 DEF OnSegment
<1> QED
  BY <1>5, <1>6

\* A segment the planner's test lets by, with neither end inside the box, is
\* clear of it or threads it.
LEMMA ClearOrThreads ==
  ASSUME NEW ring \in Seq(Points), IsBox(ring), NEW a \in Points, NEW b \in Points,
         ~Inside(a, ring), ~Inside(b, ring), ~SegmentEnters(a, b, ring)
  PROVE  Clear(a, b, ring) \/ Threads(a, b, ring)
<1> DEFINE lo == Low(ring)
           hi == High(ring)
<1>1. lo \in Points /\ hi \in Points /\ Walks(ring, lo, hi)
  BY Boxed
<1>2. Upright(lo, hi) /\ Len(ring) = 4 /\ {ring[i] : i \in DOMAIN ring} = Corners(lo, hi)
  BY <1>1 DEF Walks
<1>3. ~Strictly(a, lo, hi) /\ ~Strictly(b, lo, hi)
  BY <1>1, StrictlyInside
<1>4. ~MidInside(a, b, ring) /\ \A e \in Edges(ring) : ~ProperlyCross(a, b, e[1], e[2])
  BY <1>2 DEF SegmentEnters
<1>5. ~(/\ 2 * lo[1] < a[1] + b[1] /\ a[1] + b[1] < 2 * hi[1]
        /\ 2 * lo[2] < a[2] + b[2] /\ a[2] + b[2] < 2 * hi[2])
  <2> DEFINE mid == <<a[1] + b[1], a[2] + b[2]>>
             low == <<2 * lo[1], 2 * lo[2]>>
             high == <<2 * hi[1], 2 * hi[2]>>
  <2>1. /\ Twice(ring) \in Seq(Points) /\ IsBox(Twice(ring))
        /\ Low(Twice(ring)) = low /\ High(Twice(ring)) = high
    BY Doubled
  <2>2. Low(Twice(ring)) \in Points /\ High(Twice(ring)) \in Points
        /\ Walks(Twice(ring), Low(Twice(ring)), High(Twice(ring)))
    BY <2>1, Boxed
  <2>3. mid \in Points
    BY DEF Points
  <2>4. ~Inside(mid, Twice(ring))
    BY <1>4 DEF MidInside, Twice
  <2>5. ~Strictly(mid, low, high)
    BY <2>1, <2>2, <2>3, <2>4, StrictlyInside
  <2> QED
    BY <2>5 DEF Strictly
<1>6. \A s \in Sides(lo, hi) : s[1] \in Points /\ s[2] \in Points /\ s = <<s[1], s[2]>>
  BY <1>1 DEF Sides, Points
<1>7. \A s \in Sides(lo, hi) : ~ProperlyCross(a, b, s[1], s[2])
  <2> SUFFICES ASSUME NEW s \in Sides(lo, hi)
               PROVE  ~ProperlyCross(a, b, s[1], s[2])
    OBVIOUS
  <2>1. s \in Edges(ring) \/ <<s[2], s[1]>> \in Edges(ring)
    BY <1>1 DEF Walks
  <2> QED
    BY <1>4, <1>6, <2>1, CrossReversed
<1> SUFFICES ASSUME ~Clear(a, b, ring)
             PROVE  Threads(a, b, ring)
  OBVIOUS
<1>8. Slips(a, b, lo, hi)
  <2> DEFINE R == {ring[i] : i \in DOMAIN ring}
  <2>1. /\ \E c \in R : ~(Orient(a, b, c) >= 0)
        /\ \E c \in R : ~(Orient(a, b, c) <= 0)
        /\ \A k \in {1, 2} : /\ \E c \in R : ~(a[k] <= c[k] /\ b[k] <= c[k])
                             /\ \E c \in R : ~(a[k] >= c[k] /\ b[k] >= c[k])
    BY DEF Clear
  <2>2. R = Corners(lo, hi)
    BY <1>2
  <2> HIDE DEF R
  <2>3. \A c \in Corners(lo, hi) : /\ c \in Points /\ Orient(a, b, c) \in Int
                                   /\ lo[1] <= c[1] /\ c[1] <= hi[1]
                                   /\ lo[2] <= c[2] /\ c[2] <= hi[2]
    <3>1. \A c \in Corners(lo, hi) : /\ c \in Points
                                     /\ lo[1] <= c[1] /\ c[1] <= hi[1]
                                     /\ lo[2] <= c[2] /\ c[2] <= hi[2]
      BY <1>1, <1>2 DEF Corners, Points, Upright
    <3> QED
      BY <3>1, Reversed
  <2>4. /\ \E c \in Corners(lo, hi) : Orient(a, b, c) > 0
        /\ \E c \in Corners(lo, hi) : Orient(a, b, c) < 0
    BY <2>1, <2>2, <2>3
  <2>5. \A k \in {1, 2} : a[k] \in Int /\ b[k] \in Int /\ lo[k] \in Int /\ hi[k] \in Int
    BY <1>1 DEF Points
  <2>6. /\ a[1] > lo[1] \/ b[1] > lo[1]
        /\ a[1] < hi[1] \/ b[1] < hi[1]
        /\ a[2] > lo[2] \/ b[2] > lo[2]
        /\ a[2] < hi[2] \/ b[2] < hi[2]
    <3>1. \A c \in Corners(lo, hi) : c[1] \in Int /\ c[2] \in Int
      BY <2>3 DEF Points
    <3>2. a[1] > lo[1] \/ b[1] > lo[1]
      <4>1. PICK c \in Corners(lo, hi) : ~(a[1] <= c[1] /\ b[1] <= c[1])
        BY <2>1, <2>2
      <4> QED
        BY <2>3, <2>5, <3>1, <4>1
    <3>3. a[1] < hi[1] \/ b[1] < hi[1]
      <4>1. PICK c \in Corners(lo, hi) : ~(a[1] >= c[1] /\ b[1] >= c[1])
        BY <2>1, <2>2
      <4> QED
        BY <2>3, <2>5, <3>1, <4>1
    <3>4. a[2] > lo[2] \/ b[2] > lo[2]
      <4>1. PICK c \in Corners(lo, hi) : ~(a[2] <= c[2] /\ b[2] <= c[2])
        BY <2>1, <2>2
      <4> QED
        BY <2>3, <2>5, <3>1, <4>1
    <3>5. a[2] < hi[2] \/ b[2] < hi[2]
      <4>1. PICK c \in Corners(lo, hi) : ~(a[2] >= c[2] /\ b[2] >= c[2])
        BY <2>1, <2>2
      <4> QED
        BY <2>3, <2>5, <3>1, <4>1
    <3> QED
      BY <3>2, <3>3, <3>4, <3>5
  <2> QED
    BY <1>2, <1>3, <1>5, <1>7, <2>4, <2>6 DEF Slips
<1>9. PICK p \in Points, q \in Points :
          /\ Contact(a, b, lo, hi, p) /\ Contact(a, b, lo, hi, q)
          /\ p[1] # q[1] /\ p[2] # q[2]
  BY <1>1, <1>8, SlipThreads DEF Threaded
<1> DEFINE On(x, e) == Touches(e[1], e[2], x)
           contacts == {x \in {ring[c] : c \in DOMAIN ring} : Touches(a, b, x)}
                           \cup {x \in {a, b} : \E e \in Edges(ring) : On(x, e)}
<1>10. \A x \in Points : Contact(a, b, lo, hi, x) => x \in contacts
  <2> SUFFICES ASSUME NEW x \in Points, Contact(a, b, lo, hi, x)
               PROVE  x \in contacts
    OBVIOUS
  <2>1. CASE x \in Corners(lo, hi) /\ Touches(a, b, x)
    BY <1>2, <2>1
  <2>2. CASE x \in {a, b} /\ Covers(x, lo, hi) /\ ~Strictly(x, lo, hi)
    <3>1. PICK s \in Sides(lo, hi) : Touches(s[1], s[2], x) /\ Touches(s[2], s[1], x)
      BY <1>1, <1>2, <2>2, OnSides
    <3>2. s \in Edges(ring) \/ <<s[2], s[1]>> \in Edges(ring)
      BY <1>1 DEF Walks
    <3>3. \E e \in Edges(ring) : On(x, e)
      BY <3>1, <3>2
    <3> QED
      BY <2>2, <3>3
  <2> QED
    BY <2>1, <2>2 DEF Contact
<1>11. ~\E e \in Edges(ring) : On(p, e) /\ On(q, e)
  <2> SUFFICES ASSUME NEW e \in Edges(ring), On(p, e), On(q, e)
               PROVE  FALSE
    OBVIOUS
  <2>1. OnSegment(e[1], e[2], p) /\ OnSegment(e[1], e[2], q)
    BY DEF Touches
  <2>2. CASE e \in Sides(lo, hi)
    BY <1>1, <1>2, <1>9, <2>1, <2>2, OnSides
  <2>3. CASE <<e[2], e[1]>> \in Sides(lo, hi)
    <3> DEFINE s == <<e[2], e[1]>>
    <3>1. s \in Sides(lo, hi) /\ s[1] = e[2] /\ s[2] = e[1]
      BY <2>3
    <3> HIDE DEF s
    <3>2. OnSegment(s[2], s[1], p) /\ OnSegment(s[2], s[1], q)
      BY <2>1, <3>1
    <3> QED
      BY <1>1, <1>2, <1>9, <3>1, <3>2, OnSides
  <2> QED
    BY <1>1, <2>2, <2>3 DEF Walks
<1> QED
  BY <1>4, <1>9, <1>10, <1>11 DEF Threads

\* The area a ring of four winds around.
LEMMA FourArea ==
  ASSUME NEW ring \in Seq(Points), Len(ring) = 4
  PROVE  SignedArea(ring)
           = (ring[1][1] * ring[2][2] - ring[2][1] * ring[1][2])
               + (ring[2][1] * ring[3][2] - ring[3][1] * ring[2][2])
               + (ring[3][1] * ring[4][2] - ring[4][1] * ring[3][2])
               + (ring[4][1] * ring[1][2] - ring[1][1] * ring[4][2])
<1> DEFINE x(k) == ring[k][1] * ring[After(ring, k)][2]
           y(k) == ring[After(ring, k)][1] * ring[k][2]
           Def(f, k) == IF k = 0 THEN 0 ELSE f[k - 1] + x(k) - y(k)
           Is(f) == f = [k \in 0..Len(ring) |-> Def(f, k)]
           area == CHOOSE f : Is(f)
<1>1. /\ After(ring, 1) = 2 /\ After(ring, 2) = 3 /\ After(ring, 3) = 4 /\ After(ring, 4) = 1
      /\ 0..Len(ring) = {0, 1, 2, 3, 4}
  BY DEF After
<1>2. \A k \in 1..4 : x(k) \in Int /\ y(k) \in Int
  <2>1. \A k \in 1..4 : After(ring, k) \in 1..4
    BY <1>1
  <2>2. \A k \in 1..4 : ring[k][1] \in Int /\ ring[k][2] \in Int
    BY FourEdges DEF Points
  <2>3. \A u, v \in Int : u * v \in Int
    OBVIOUS
  <2> QED
    BY <2>1, <2>2, <2>3
<1>3. /\ x(1) = ring[1][1] * ring[2][2] /\ y(1) = ring[2][1] * ring[1][2]
      /\ x(2) = ring[2][1] * ring[3][2] /\ y(2) = ring[3][1] * ring[2][2]
      /\ x(3) = ring[3][1] * ring[4][2] /\ y(3) = ring[4][1] * ring[3][2]
      /\ x(4) = ring[4][1] * ring[1][2] /\ y(4) = ring[1][1] * ring[4][2]
  BY <1>1
<1>4. SignedArea(ring) = area[4]
  BY DEF SignedArea
<1> HIDE DEF x, y
<1> DEFINE g == [k \in {0, 1, 2, 3, 4} |->
                   IF k = 0 THEN 0
                   ELSE IF k = 1 THEN 0 + x(1) - y(1)
                   ELSE IF k = 2 THEN 0 + x(1) - y(1) + x(2) - y(2)
                   ELSE IF k = 3 THEN 0 + x(1) - y(1) + x(2) - y(2) + x(3) - y(3)
                   ELSE 0 + x(1) - y(1) + x(2) - y(2) + x(3) - y(3) + x(4) - y(4)]
<1>5. Is(g)
  <2>1. \A k \in {0, 1, 2, 3, 4} : g[k] = Def(g, k)
    <3>1. g[0] = Def(g, 0) /\ g[1] = Def(g, 1) /\ g[2] = Def(g, 2)
          /\ g[3] = Def(g, 3) /\ g[4] = Def(g, 4)
      OBVIOUS
    <3> HIDE DEF g, Def
    <3> QED
      BY <3>1
  <2>2. g = [k \in {0, 1, 2, 3, 4} |-> g[k]]
    OBVIOUS
  <2> HIDE DEF g, Def
  <2> QED
    BY <1>1, <2>1, <2>2
<1> HIDE DEF g
<1>6. Is(area)
  <2> HIDE DEF Is
  <2> QED
    BY <1>5
<1>7. /\ area[0] = 0
      /\ area[1] = area[0] + x(1) - y(1) /\ area[2] = area[1] + x(2) - y(2)
      /\ area[3] = area[2] + x(3) - y(3) /\ area[4] = area[3] + x(4) - y(4)
  <2>1. \A k \in {0, 1, 2, 3, 4} : area[k] = Def(area, k)
    <3> HIDE DEF Def, area
    <3> QED
      BY <1>1, <1>6
  <2> HIDE DEF area
  <2>2. area[0] = Def(area, 0) /\ area[1] = Def(area, 1) /\ area[2] = Def(area, 2)
        /\ area[3] = Def(area, 3) /\ area[4] = Def(area, 4)
    BY <2>1
  <2> QED
    BY <2>2
<1> HIDE DEF area
<1>8. area[4] = (x(1) - y(1)) + (x(2) - y(2)) + (x(3) - y(3)) + (x(4) - y(4))
  <2>1. /\ x(1) \in Int /\ x(2) \in Int /\ x(3) \in Int /\ x(4) \in Int
        /\ y(1) \in Int /\ y(2) \in Int /\ y(3) \in Int /\ y(4) \in Int
    BY <1>2
  <2> QED
    BY <1>7, <2>1
<1> QED
  BY <1>3, <1>4, <1>8

\* Which way a box winds.
LEMMA BoxWinding ==
  ASSUME NEW ring \in Seq(Points), IsBox(ring)
  PROVE  /\ Sign(ring[3][1] - ring[1][1]) \in {-1, 1} /\ Sign(ring[3][2] - ring[1][2]) \in {-1, 1}
         /\ ring[2] = <<ring[3][1], ring[1][2]>>
               => Winding(ring) = Sign(ring[3][1] - ring[1][1]) * Sign(ring[3][2] - ring[1][2])
         /\ ring[2] = <<ring[1][1], ring[3][2]>>
               => Winding(ring) = -(Sign(ring[3][1] - ring[1][1]) * Sign(ring[3][2] - ring[1][2]))
<1>1. Len(ring) = 4
  BY DEF IsBox
<1>2. PICK p1 \in Int, p2 \in Int : ring[1] = <<p1, p2>>
  BY <1>1, FourEdges, APoint
<1>3. PICK q1 \in Int, q2 \in Int : ring[3] = <<q1, q2>>
  BY <1>1, FourEdges, APoint
<1>4. p1 # q1 /\ p2 # q2
  BY <1>2, <1>3 DEF IsBox
<1> DEFINE dx == q1 - p1
           dy == q2 - p2
           sx == Sign(dx)
           sy == Sign(dy)
<1>5. /\ dx \in Int /\ dy \in Int
      /\ (dx > 0 /\ sx = 1) \/ (dx < 0 /\ sx = -1)
      /\ (dy > 0 /\ sy = 1) \/ (dy < 0 /\ sy = -1)
  BY <1>4 DEF Sign
<1>6. ASSUME ring[2] = <<q1, p2>>, ring[4] = <<p1, q2>>
      PROVE  SignedArea(ring) = 2 * (dx * dy)
  <2>1. SignedArea(ring) = (p1 * p2 - q1 * p2) + (q1 * q2 - q1 * p2)
                             + (q1 * q2 - p1 * q2) + (p1 * p2 - p1 * q2)
    BY <1>1, <1>2, <1>3, <1>6, FourArea
  <2> QED
    BY <2>1
<1>7. ASSUME ring[2] = <<p1, q2>>, ring[4] = <<q1, p2>>
      PROVE  SignedArea(ring) = -(2 * (dx * dy))
  <2>1. SignedArea(ring) = (p1 * q2 - p1 * p2) + (p1 * q2 - q1 * q2)
                             + (q1 * p2 - q1 * q2) + (q1 * p2 - p1 * p2)
    BY <1>1, <1>2, <1>3, <1>7, FourArea
  <2> QED
    BY <2>1
<1>8. /\ \/ sx * sy = 1 /\ dx * dy > 0
         \/ sx * sy = -1 /\ dx * dy < 0
      /\ dx * dy \in Int
  <2> HIDE DEF dx, dy, sx, sy
  <2>1. /\ dx * dy \in Int
        /\ dx > 0 /\ dy > 0 => dx * dy > 0
        /\ dx > 0 /\ dy < 0 => dx * dy < 0
        /\ dx < 0 /\ dy > 0 => dx * dy < 0
        /\ dx < 0 /\ dy < 0 => dx * dy > 0
    BY <1>5, Signs
  <2> QED
    BY <1>5, <2>1
<1>9. \/ ring[2] = <<q1, p2>> /\ ring[4] = <<p1, q2>>
      \/ ring[2] = <<p1, q2>> /\ ring[4] = <<q1, p2>>
  BY <1>2, <1>3 DEF IsBox
<1>10. \A z \in Int : /\ z > 0 => Sign(2 * z) = 1 /\ Sign(-(2 * z)) = -1
                      /\ z < 0 => Sign(2 * z) = -1 /\ Sign(-(2 * z)) = 1
  BY DEF Sign
<1>11. ASSUME ring[2] = <<q1, p2>> PROVE Winding(ring) = sx * sy
  <2>1. SignedArea(ring) = 2 * (dx * dy)
    BY <1>4, <1>6, <1>9, <1>11
  <2> HIDE DEF dx, dy, sx, sy
  <2> QED
    BY <1>8, <1>10, <2>1 DEF Winding
<1>12. ASSUME ring[2] = <<p1, q2>> PROVE Winding(ring) = -(sx * sy)
  <2>1. SignedArea(ring) = -(2 * (dx * dy))
    BY <1>4, <1>7, <1>9, <1>12
  <2> HIDE DEF dx, dy, sx, sy
  <2> QED
    BY <1>8, <1>10, <2>1 DEF Winding
<1>13. sx \in {-1, 1} /\ sy \in {-1, 1}
  BY <1>5
<1> HIDE DEF sx, sy
<1> QED
  BY <1>2, <1>3, <1>11, <1>12, <1>13 DEF sx, sy

-----------------------------------------------------------------------------
(***************************************************************************)
(* The nodes of the visibility graph and the distances between them.       *)
(***************************************************************************)
\* A polygon moved out is a polygon.
LEMMA InflatedRing ==
  ASSUME NEW ring \in Seq(Points), NEW margin \in Int
  PROVE  Inflate(ring, margin) \in Seq(Points)
<1>1. \A x : Sign(x) \in Int
  BY DEF Sign
<1>2. ASSUME NEW i PROVE Normal(ring, i)[1] \in Int /\ Normal(ring, i)[2] \in Int
  <2> DEFINE w == Winding(ring)
             a == Sign(ring[After(ring, i)][2] - ring[i][2])
             b == Sign(ring[After(ring, i)][1] - ring[i][1])
  <2>1. w \in Int /\ a \in Int /\ b \in Int
    <3>1. w \in Int
      BY <1>1 DEF Winding
    <3> QED
      BY <1>1, <3>1
  <2>2. Normal(ring, i) = <<w * a, -(w * b)>>
    BY DEF Normal
  <2> HIDE DEF w, a, b
  <2> QED
    BY <2>1, <2>2
<1>3. Len(ring) \in Nat /\ DOMAIN ring = 1..Len(ring)
      /\ \A i \in 1..Len(ring) : ring[i][1] \in Int /\ ring[i][2] \in Int
  BY DEF Points
<1> DEFINE Moved(i) ==
      <<ring[i][1] + margin * (Normal(ring, Before(ring, i))[1] + Normal(ring, i)[1]),
        ring[i][2] + margin * (Normal(ring, Before(ring, i))[2] + Normal(ring, i)[2])>>
<1>4. ASSUME NEW i \in 1..Len(ring) PROVE Moved(i) \in Points
  <2> DEFINE p == Normal(ring, Before(ring, i))
             c == Normal(ring, i)
  <2>1. /\ p[1] \in Int /\ p[2] \in Int /\ c[1] \in Int /\ c[2] \in Int
        /\ ring[i][1] \in Int /\ ring[i][2] \in Int
    BY <1>2, <1>3
  <2> HIDE DEF p, c
  <2>2. /\ ring[i][1] + margin * (p[1] + c[1]) \in Int
        /\ ring[i][2] + margin * (p[2] + c[2]) \in Int
    <3>1. p[1] + c[1] \in Int /\ p[2] + c[2] \in Int
      BY <2>1
    <3>2. \A x, y, z \in Int : x + y * z \in Int
      OBVIOUS
    <3> QED
      BY ONLY <2>1, <3>1, <3>2, margin \in Int
  <2> QED
    BY <2>2 DEF Points, p, c
<1>5. Inflate(ring, margin) = [i \in 1..Len(ring) |-> Moved(i)]
  BY <1>3 DEF Inflate
<1> HIDE DEF Moved
<1> QED
  BY <1>3, <1>4, <1>5

\* A box moved out is a box.
LEMMA InflatedBox ==
  ASSUME NEW ring \in Seq(Points), IsBox(ring), NEW margin \in Nat
  PROVE  IsBox(Inflate(ring, margin))
<1>1. Len(ring) = 4
  BY DEF IsBox
<1>2. PICK p1 \in Int, p2 \in Int : ring[1] = <<p1, p2>>
  BY <1>1, FourEdges, APoint
<1>3. PICK q1 \in Int, q2 \in Int : ring[3] = <<q1, q2>>
  BY <1>1, FourEdges, APoint
<1>4. p1 # q1 /\ p2 # q2
  BY <1>2, <1>3 DEF IsBox
<1> DEFINE sx == Sign(q1 - p1)
           sy == Sign(q2 - p2)
           W == Winding(ring)
           out == Inflate(ring, margin)
<1>5. /\ sx \in {-1, 1} /\ sy \in {-1, 1}
      /\ ring[2] = <<q1, p2>> => W = sx * sy
      /\ ring[2] = <<p1, q2>> => W = -(sx * sy)
  <2>1. ring[1][1] = p1 /\ ring[1][2] = p2 /\ ring[3][1] = q1 /\ ring[3][2] = q2
    BY <1>2, <1>3
  <2> QED
    BY <2>1, BoxWinding
<1>6. /\ Sign(0) = 0 /\ Sign(p1 - p1) = 0 /\ Sign(q1 - q1) = 0 /\ Sign(p2 - p2) = 0 /\ Sign(q2 - q2) = 0
      /\ Sign(p1 - q1) = -sx /\ Sign(p2 - q2) = -sy
      /\ (sx = 1 => p1 < q1) /\ (sx = -1 => p1 > q1)
      /\ (sy = 1 => p2 < q2) /\ (sy = -1 => p2 > q2)
  BY <1>4 DEF Sign
<1>7. /\ After(ring, 1) = 2 /\ After(ring, 2) = 3 /\ After(ring, 3) = 4 /\ After(ring, 4) = 1
      /\ Before(ring, 1) = 4 /\ Before(ring, 2) = 1 /\ Before(ring, 3) = 2 /\ Before(ring, 4) = 3
  BY <1>1 DEF After, Before
<1>8. /\ DOMAIN out = {1, 2, 3, 4} /\ Len(out) = 4
      /\ \A i \in {1, 2, 3, 4} :
            out[i] = <<ring[i][1] + margin * (Normal(ring, Before(ring, i))[1] + Normal(ring, i)[1]),
                       ring[i][2] + margin * (Normal(ring, Before(ring, i))[2] + Normal(ring, i)[2])>>
  <2>1. DOMAIN ring = {1, 2, 3, 4} /\ DOMAIN ring = 1..4
    BY <1>1, FourEdges
  <2>2. \A i \in {1, 2, 3, 4} :
            out[i] = <<ring[i][1] + margin * (Normal(ring, Before(ring, i))[1] + Normal(ring, i)[1]),
                       ring[i][2] + margin * (Normal(ring, Before(ring, i))[2] + Normal(ring, i)[2])>>
    BY <2>1 DEF Inflate
  <2>3. DOMAIN out = {1, 2, 3, 4} /\ Len(out) = 4
    BY <2>1 DEF Inflate
  <2> QED
    BY <2>2, <2>3
<1> HIDE DEF sx, sy, W, out
<1>9. /\ out[1] = <<p1 - margin * sx, p2 - margin * sy>> /\ out[3] = <<q1 + margin * sx, q2 + margin * sy>>
      /\ \/ out[2] = <<q1 + margin * sx, p2 - margin * sy>> /\ out[4] = <<p1 - margin * sx, q2 + margin * sy>>
         \/ out[2] = <<p1 - margin * sx, q2 + margin * sy>> /\ out[4] = <<q1 + margin * sx, p2 - margin * sy>>
  <2>1. \A u \in Int : /\ u + margin * (sx + 0) = u + margin * sx /\ u + margin * (0 + sx) = u + margin * sx
                       /\ u + margin * (sy + 0) = u + margin * sy /\ u + margin * (0 + sy) = u + margin * sy
                       /\ u + margin * (-sx + 0) = u - margin * sx /\ u + margin * (0 + -sx) = u - margin * sx
                       /\ u + margin * (-sy + 0) = u - margin * sy /\ u + margin * (0 + -sy) = u - margin * sy
    BY <1>5
  <2>2. \A x, y \in {-1, 1} :
           /\ (x * y) * 0 = 0 /\ (x * y) * x = y /\ (x * y) * y = x
           /\ (x * y) * (-x) = -y /\ (x * y) * (-y) = -x
           /\ (-(x * y)) * 0 = 0 /\ (-(x * y)) * x = -y /\ (-(x * y)) * y = -x
           /\ (-(x * y)) * (-x) = y /\ (-(x * y)) * (-y) = x
    <3>1. \A x, y : x \in {-1, 1} /\ y \in {-1, 1} =>
             (x = 1 /\ y = 1) \/ (x = 1 /\ y = -1) \/ (x = -1 /\ y = 1) \/ (x = -1 /\ y = -1)
      OBVIOUS
    <3>2. \A z \in Int : z * 1 = z /\ z * (-1) = -z /\ z * 0 = 0 /\ -(-z) = z
      OBVIOUS
    <3>3. 1 \in Int /\ -1 \in Int
      OBVIOUS
    <3> QED
      BY <3>1, <3>2, <3>3
  <2>3. CASE ring[2] = <<q1, p2>> /\ ring[4] = <<p1, q2>>
    <3>1. W = sx * sy
      BY <1>5, <2>3
    <3>2. W * 0 = 0 /\ W * sx = sy /\ W * sy = sx /\ W * (-sx) = -sy /\ W * (-sy) = -sx /\ (\A z \in Int : z = 0 => -z = 0)
      BY <1>5, <2>2, <3>1
    <3>3. Normal(ring, 1) = <<0, -sy>>
      <4>1. Normal(ring, 1) = <<W * Sign(p2 - p2), -(W * Sign(q1 - p1))>>
        BY <1>2, <1>3, <1>7, <2>3 DEF Normal, W
      <4> QED
        BY <1>5, <1>6, <3>2, <4>1 DEF sx, sy
    <3>4. Normal(ring, 2) = <<sx, 0>>
      <4>1. Normal(ring, 2) = <<W * Sign(q2 - p2), -(W * Sign(q1 - q1))>>
        BY <1>2, <1>3, <1>7, <2>3 DEF Normal, W
      <4> QED
        BY <1>5, <1>6, <3>2, <4>1 DEF sx, sy
    <3>5. Normal(ring, 3) = <<0, sy>>
      <4>1. Normal(ring, 3) = <<W * Sign(q2 - q2), -(W * Sign(p1 - q1))>>
        BY <1>2, <1>3, <1>7, <2>3 DEF Normal, W
      <4> QED
        BY <1>5, <1>6, <3>2, <4>1 DEF sx, sy
    <3>6. Normal(ring, 4) = <<-sx, 0>>
      <4>1. Normal(ring, 4) = <<W * Sign(p2 - q2), -(W * Sign(p1 - p1))>>
        BY <1>2, <1>3, <1>7, <2>3 DEF Normal, W
      <4> QED
        BY <1>5, <1>6, <3>2, <4>1 DEF sx, sy
    <3> QED
      BY <1>2, <1>3, <1>7, <1>8, <2>1, <2>3, <3>3, <3>4, <3>5, <3>6
  <2>4. CASE ring[2] = <<p1, q2>> /\ ring[4] = <<q1, p2>>
    <3>1. W = -(sx * sy)
      BY <1>5, <2>4
    <3>2. W * 0 = 0 /\ W * sx = -sy /\ W * sy = -sx /\ W * (-sx) = sy /\ W * (-sy) = sx /\ (\A z \in Int : z = 0 => -z = 0)
      BY <1>5, <2>2, <3>1
    <3>3. Normal(ring, 1) = <<-sx, 0>>
      <4>1. Normal(ring, 1) = <<W * Sign(q2 - p2), -(W * Sign(p1 - p1))>>
        BY <1>2, <1>3, <1>7, <2>4 DEF Normal, W
      <4> QED
        BY <1>5, <1>6, <3>2, <4>1 DEF sx, sy
    <3>4. Normal(ring, 2) = <<0, sy>>
      <4>1. Normal(ring, 2) = <<W * Sign(q2 - q2), -(W * Sign(q1 - p1))>>
        BY <1>2, <1>3, <1>7, <2>4 DEF Normal, W
      <4> QED
        BY <1>5, <1>6, <3>2, <4>1 DEF sx, sy
    <3>5. Normal(ring, 3) = <<sx, 0>>
      <4>1. Normal(ring, 3) = <<W * Sign(p2 - q2), -(W * Sign(q1 - q1))>>
        BY <1>2, <1>3, <1>7, <2>4 DEF Normal, W
      <4> QED
        BY <1>5, <1>6, <3>2, <4>1 DEF sx, sy
    <3>6. Normal(ring, 4) = <<0, -sy>>
      <4>1. Normal(ring, 4) = <<W * Sign(p2 - p2), -(W * Sign(p1 - q1))>>
        BY <1>2, <1>3, <1>7, <2>4 DEF Normal, W
      <4> QED
        BY <1>5, <1>6, <3>2, <4>1 DEF sx, sy
    <3> QED
      BY <1>2, <1>3, <1>7, <1>8, <2>1, <2>4, <3>3, <3>4, <3>5, <3>6
  <2> QED
    BY <1>2, <1>3, <2>3, <2>4 DEF IsBox
<1>10. /\ p1 - margin * sx # q1 + margin * sx
       /\ p2 - margin * sy # q2 + margin * sy
  BY <1>5, <1>6
<1> QED
  BY <1>8, <1>9, <1>10 DEF IsBox, out

\* The keep-outs of a world and their inflated rings.
LEMMA Rings ==
  ASSUME NEW w \in Worlds
  PROVE  /\ InflatedIn(w) \in Seq(Seq(Points)) /\ Len(InflatedIn(w)) = Len(KeepOuts(w))
         /\ \A i \in DOMAIN InflatedIn(w) :
               /\ i \in DOMAIN KeepOuts(w) /\ KeepOuts(w)[i].ring \in Seq(Points)
               /\ InflatedIn(w)[i] = Inflate(KeepOuts(w)[i].ring, Inflation)
<1>1. KeepOuts(w) \in Seq(KeepOut)
  BY WorldsAssumption, OnlyIsSeq DEF KeepOuts, Merge
<1>2. \A i \in 1..Len(KeepOuts(w)) : KeepOuts(w)[i].ring \in Seq(Points)
  <2>1. \A i \in 1..Len(KeepOuts(w)) : KeepOuts(w)[i] \in KeepOut
    BY <1>1
  <2> QED
    BY <2>1 DEF KeepOut
<1>3. \A i \in 1..Len(KeepOuts(w)) : Inflate(KeepOuts(w)[i].ring, Inflation) \in Seq(Points)
  BY <1>2, InflatedRing, PlannerAssumption
<1>4. Len(KeepOuts(w)) \in Nat /\ DOMAIN KeepOuts(w) = 1..Len(KeepOuts(w))
  BY <1>1
<1>5. InflatedIn(w) = [i \in 1..Len(KeepOuts(w)) |-> Inflate(KeepOuts(w)[i].ring, Inflation)]
  BY <1>4 DEF InflatedIn
<1> QED
  BY <1>2, <1>3, <1>4, <1>5

\* Whatever the start, the goal and the bare corners have in common, every
\* node has.
LEMMA NodesShare ==
  ASSUME NEW w \in Worlds, NEW E, w.start \in E, w.goal \in E,
         \A i \in DOMAIN InflatedIn(w) : \A k \in 1..Len(InflatedIn(w)[i]) :
            (\A j \in DOMAIN InflatedIn(w) : j # i => ~Inside(InflatedIn(w)[i][k], InflatedIn(w)[j]))
               => InflatedIn(w)[i][k] \in E
  PROVE  /\ Nodes[w] \in Seq(E) /\ Len(Nodes[w]) >= 2
         /\ Nodes[w][1] = w.start /\ Nodes[w][2] = w.goal
<1> DEFINE rings == InflatedIn(w)
           kept(i) == {k \in DOMAIN rings[i] :
                         \A j \in DOMAIN rings : j # i => ~Inside(rings[i][k], rings[j])}
           bare == [i \in DOMAIN rings |-> Only(rings[i], kept(i))]
<1>2. rings \in Seq(Seq(Points))
  BY Rings
<1>3. bare \in Seq(Seq(E))
  <2>1. Len(rings) \in Nat /\ DOMAIN rings = 1..Len(rings)
        /\ \A i \in 1..Len(rings) : rings[i] \in Seq(Points)
    <3> HIDE DEF rings
    <3> QED
      BY <1>2
  <2>2. \A i \in 1..Len(rings) : \A k \in DOMAIN rings[i] : k \in kept(i) => rings[i][k] \in E
    <3> SUFFICES ASSUME NEW i \in 1..Len(rings), NEW k \in DOMAIN rings[i], k \in kept(i)
                 PROVE  rings[i][k] \in E
      OBVIOUS
    <3>1. k \in 1..Len(rings[i]) /\ i \in DOMAIN rings
      <4> HIDE DEF rings
      <4> QED
        BY <2>1
    <3> QED
      BY <3>1
  <2> HIDE DEF kept, rings
  <2>3. \A i \in 1..Len(rings) : Only(rings[i], kept(i)) \in Seq(E)
    BY <2>1, <2>2, OnlyKept
  <2> QED
    BY <2>1, <2>3
<1> HIDE DEF rings
<1>4. Nodes[w] = <<w.start, w.goal>> \o FlattenSeq(bare)
  BY DEF Nodes, NodesIn, Bare, bare, rings
<1> HIDE DEF bare
<1>5. FlattenSeq(bare) \in Seq(E)
  BY <1>3, Flattened
<1>6. <<w.start, w.goal>> \in Seq(E)
  OBVIOUS
<1> QED
  BY <1>4, <1>5, <1>6

\* A world's nodes are points: the start, the goal, and the corners.
LEMMA NodesArePoints ==
  ASSUME NEW w \in Worlds
  PROVE  /\ Nodes[w] \in Seq(Points) /\ Len(Nodes[w]) >= 2
         /\ Nodes[w][1] = w.start /\ Nodes[w][2] = w.goal
<1>1. \A i \in DOMAIN InflatedIn(w) : \A k \in 1..Len(InflatedIn(w)[i]) : InflatedIn(w)[i][k] \in Points
  <2>1. \A i \in DOMAIN InflatedIn(w) : InflatedIn(w)[i] \in Seq(Points)
    BY Rings
  <2> QED
    BY <2>1, ElementOfSeq
<1>2. w.start \in Points /\ w.goal \in Points
  BY WorldsAssumption
<1> HIDE DEF Points
<1> QED
  BY <1>1, <1>2, NodesShare

\* A ring's own corner is on its boundary, which is outside.
LEMMA OwnCorner ==
  ASSUME NEW ring \in Seq(Points), NEW k \in 1..Len(ring)
  PROVE  ~Inside(ring[k], ring)
<1> DEFINE next == After(ring, k)
           e == <<ring[k], ring[next]>>
<1>1. next \in 1..Len(ring)
  BY DEF After
<1>2. ring[k] \in Points /\ ring[next] \in Points /\ e \in Edges(ring)
  <2>1. e \in Edges(ring)
    BY DEF Edges
  <2> QED
    BY <1>1, <2>1, ElementOfSeq
<1>3. \A a, b \in Points : Touches(a, b, a)
  <2> SUFFICES ASSUME NEW a \in Points, NEW b \in Points
               PROVE  Touches(a, b, a)
    OBVIOUS
  <2>1. a[1] \in Int /\ a[2] \in Int /\ b[1] \in Int /\ b[2] \in Int
    BY DEF Points
  <2>2. a[1] - a[1] = 0 /\ a[2] - a[2] = 0 /\ b[1] - a[1] \in Int /\ b[2] - a[2] \in Int
    BY <2>1
  <2>3. (b[1] - a[1]) * (a[2] - a[2]) - (b[2] - a[2]) * (a[1] - a[1]) = 0
    BY <2>2
  <2> QED
    BY <2>1, <2>3 DEF Touches, OnSegment, Orient
<1>4. Touches(e[1], e[2], ring[k])
  BY <1>2, <1>3
<1> QED
  BY <1>2, <1>4 DEF Inside

\* Where neither the start nor the goal is trapped, no node is inside a ring.
LEMMA NodesOutside ==
  ASSUME NEW w \in Worlds, ~Trapped(w)
  PROVE  \A n \in DOMAIN Nodes[w] :
            /\ Nodes[w][n] \in Points
            /\ \A i \in DOMAIN InflatedIn(w) : ~Inside(Nodes[w][n], InflatedIn(w)[i])
<1> DEFINE rings == InflatedIn(w)
           E == {p \in Points : \A i \in DOMAIN rings : ~Inside(p, rings[i])}
<1>1. Inflated[w] = rings
  BY DEF Inflated
<1>2. w.start \in E /\ w.goal \in E
  BY <1>1, WorldsAssumption DEF Trapped
<1>3. \A i \in DOMAIN rings : rings[i] \in Seq(Points)
  BY Rings
<1>4. ASSUME NEW i \in DOMAIN rings, NEW k \in 1..Len(rings[i]),
             \A j \in DOMAIN rings : j # i => ~Inside(rings[i][k], rings[j])
      PROVE  rings[i][k] \in E
  <2>1. rings[i][k] \in Points
    BY <1>3, ElementOfSeq
  <2>2. ~Inside(rings[i][k], rings[i])
    BY <1>3, OwnCorner
  <2> QED
    BY <1>4, <2>1, <2>2
<1> HIDE DEF E
<1>5. Nodes[w] \in Seq(E)
  BY <1>2, <1>4, NodesShare
<1>6. \A n \in DOMAIN Nodes[w] : Nodes[w][n] \in E
  BY <1>5, ElementOfSeq
<1> QED
  BY <1>6 DEF E

\* The distance of two nodes is the root of their squared distance in the
\* finer resolution, rounded up.
LEMMA Rooted ==
  ASSUME NEW n \in 0..Farthest
  PROVE  /\ RootUp[n] \in Nat
         /\ RootUp[n] * RootUp[n] >= Fine * Fine * n
         /\ \A r \in Nat : r * r >= Fine * Fine * n => RootUp[n] <= r
<1> DEFINE N == Fine * Fine * n
           R == {r \in 0..(Fine * n) : r * r >= N}
           Is(r) == r * r >= N /\ (r = 0 \/ (r - 1) * (r - 1) < N)
<1>0. Fine \in Nat /\ Fine >= 1 /\ n \in Nat
  BY PlannerAssumption
<1>1. N \in Nat /\ Fine * n \in Nat
  BY <1>0
<1>2. (Fine * n) * (Fine * n) >= N
  <2>1. n * n >= n
    BY <1>0
  <2>2. Fine * Fine \in Nat /\ n * n \in Nat
    BY <1>0
  <2>3. (Fine * Fine) * (n * n) >= (Fine * Fine) * n
    BY <1>0, <2>1, <2>2
  <2>4. (Fine * n) * (Fine * n) = (Fine * Fine) * (n * n)
    BY <1>0
  <2> QED
    BY <2>3, <2>4
<1> HIDE DEF N
<1>3. Fine * n \in R
  BY <1>1, <1>2
<1>4. PICK m \in R : \A r \in R : m <= r
  <2>1. R \subseteq Nat
    BY <1>1
  <2> QED
    BY <1>3, <2>1, Least
<1>5. m \in 0..(Fine * n) /\ Is(m)
  <2>1. CASE m = 0
    BY <1>4, <2>1
  <2>2. CASE m # 0
    <3>1. m \in Nat /\ m - 1 \in 0..(Fine * n) /\ m - 1 < m
      BY <1>1, <1>4, <2>2
    <3>2. ~((m - 1) * (m - 1) >= N)
      BY <1>4, <3>1
    <3> QED
      BY <1>1, <1>4, <3>1, <3>2
  <2> QED
    BY <2>1, <2>2
<1>6. RootUp[n] \in 0..(Fine * n) /\ Is(RootUp[n])
  BY <1>5 DEF RootUp, N
<1>7. ASSUME NEW r \in Nat, r * r >= N PROVE RootUp[n] <= r
  <2> DEFINE s == RootUp[n]
  <2>1. s \in Nat /\ Is(s)
    BY <1>1, <1>6
  <2> HIDE DEF s
  <2> SUFFICES ASSUME r < s PROVE FALSE
    BY <2>1 DEF s
  <2>2. s # 0 /\ (s - 1) * (s - 1) < N /\ s - 1 \in Nat /\ r <= s - 1
    BY <2>1
  <2>3. r * r <= (s - 1) * (s - 1)
    BY <2>2
  <2> QED
    BY <1>1, <1>7, <2>2, <2>3
<1> QED
  BY <1>1, <1>6, <1>7 DEF N

\* The triangle inequality of the plane, on squared distances.
LEMMA Plane ==
  ASSUME NEW a \in Int, NEW b \in Int, NEW c \in Int, NEW d \in Int,
         NEW p \in Nat, NEW q \in Nat, NEW F \in Nat,
         p * p >= F * F * (a * a + b * b), q * q >= F * F * (c * c + d * d)
  PROVE  (p + q) * (p + q) >= F * F * ((a + c) * (a + c) + (b + d) * (b + d))
<1> DEFINE s == a * a + b * b
           t == c * c + d * d
           u == a * c + b * d
           K == F * F
<1>0. s \in Nat /\ t \in Nat /\ u \in Int /\ K \in Nat
  <2>1. \A x \in Int : x * x \in Nat
    OBVIOUS
  <2>2. /\ a * a \in Nat /\ b * b \in Nat /\ c * c \in Nat /\ d * d \in Nat
        /\ a * c \in Int /\ b * d \in Int
    BY <2>1
  <2> QED
    BY <2>2
<1>1. (a + c) * (a + c) + (b + d) * (b + d) = s + t + 2 * u
  OBVIOUS
<1>2. u * u <= s * t
  OBVIOUS
<1> HIDE DEF s, t, u, K
<1>3. p * p \in Nat /\ q * q \in Nat /\ p * q \in Nat /\ K * s \in Nat /\ K * t \in Nat
      /\ K * u \in Int
  BY <1>0
<1>4. p * p >= K * s /\ q * q >= K * t
  BY DEF K, s, t
<1>5. K * u <= p * q
  <2>1. CASE K * u <= 0
    BY <1>3, <2>1
  <2>2. CASE K * u > 0
    <3>1. (K * s) * (K * t) <= (p * p) * (q * q)
      BY <1>3, <1>4
    <3>2. (K * u) * (K * u) = (K * K) * (u * u) /\ (K * s) * (K * t) = (K * K) * (s * t)
      BY <1>0
    <3>3. (K * K) * (u * u) <= (K * K) * (s * t)
      <4>1. K * K \in Nat /\ u * u \in Int /\ s * t \in Int
        BY <1>0
      <4> QED
        BY <1>2, <4>1
    <3>4. (p * p) * (q * q) = (p * q) * (p * q)
      OBVIOUS
    <3>5. (K * u) * (K * u) <= (p * q) * (p * q)
      <4>1. /\ (K * u) * (K * u) \in Int /\ (p * q) * (p * q) \in Int
            /\ (K * s) * (K * t) \in Int
        BY <1>3
      <4> QED
        BY <3>1, <3>2, <3>3, <3>4, <4>1
    <3>6. \A x, y \in Nat : x * x <= y * y => x <= y
      OBVIOUS
    <3>7. K * u \in Nat
      BY <1>3, <2>2
    <3> QED
      BY <1>3, <3>5, <3>6, <3>7
  <2> QED
    BY <1>3, <2>1, <2>2
<1>6. (p + q) * (p + q) = p * p + q * q + 2 * (p * q)
  OBVIOUS
<1>7. K * (s + t + 2 * u) = K * s + K * t + 2 * (K * u)
  BY <1>0
<1>8. (p + q) * (p + q) >= K * (s + t + 2 * u)
  BY <1>3, <1>4, <1>5, <1>6, <1>7
<1> QED
  BY <1>1, <1>8 DEF K

\* The distance of two nodes, by their places.
D(w, i, j) == Dist(Nodes[w][i], Nodes[w][j])

\* Distances are numbers, nothing is far from itself, and no way between two
\* nodes is longer than the one by a third.
LEMMA Distances ==
  ASSUME NEW w \in Worlds
  PROVE  /\ \A i, j \in DOMAIN Nodes[w] : D(w, i, j) \in Nat
         /\ \A i \in DOMAIN Nodes[w] : D(w, i, i) = 0
         /\ \A i, j, k \in DOMAIN Nodes[w] : D(w, i, k) <= D(w, i, j) + D(w, j, k)
<1> DEFINE nodes == Nodes[w]
           Sq(i, j) == Squared(nodes[i], nodes[j])
<1>1. \A i \in DOMAIN nodes : nodes[i] \in Points
  BY NodesArePoints
<1>2. \A i, j \in DOMAIN nodes : Sq(i, j) <= Farthest
  BY WorldsAssumption
<1> HIDE DEF nodes
<1>3. \A i, j \in DOMAIN nodes : nodes[i][1] - nodes[j][1] \in Int /\ nodes[i][2] - nodes[j][2] \in Int
  BY <1>1 DEF Points
<1>4. ASSUME NEW i \in DOMAIN nodes, NEW j \in DOMAIN nodes PROVE Sq(i, j) \in 0..Farthest
  <2>1. \A x, y \in Int : x * x + y * y \in Nat
    <3>1. \A x \in Int : x * x \in Nat
      OBVIOUS
    <3> QED
      BY <3>1
  <2>2. Sq(i, j) \in Nat
    BY <1>3, <2>1 DEF Squared
  <2>3. Sq(i, j) <= Farthest
    BY <1>2
  <2> QED
    BY <2>2, <2>3, PlannerAssumption
<1>5. \A i, j \in DOMAIN nodes : D(w, i, j) = RootUp[Sq(i, j)]
  BY DEF D, Dist, nodes
<1>6. \A i, j \in DOMAIN nodes :
         /\ D(w, i, j) \in Nat /\ D(w, i, j) * D(w, i, j) >= Fine * Fine * Sq(i, j)
         /\ \A r \in Nat : r * r >= Fine * Fine * Sq(i, j) => D(w, i, j) <= r
  <2> HIDE DEF Sq
  <2> QED
    BY <1>4, <1>5, Rooted
<1>7. ASSUME NEW i \in DOMAIN nodes PROVE D(w, i, i) = 0
  <2>1. Sq(i, i) = 0
    <3>1. nodes[i][1] - nodes[i][1] = 0 /\ nodes[i][2] - nodes[i][2] = 0
      BY <1>1 DEF Points
    <3> QED
      BY <3>1 DEF Squared
  <2>2. 0 * 0 >= Fine * Fine * Sq(i, i)
    BY <2>1, PlannerAssumption
  <2>3. D(w, i, i) <= 0 /\ D(w, i, i) \in Nat
    BY <1>6, <2>2
  <2> QED
    BY <2>3
<1>8. ASSUME NEW i \in DOMAIN nodes, NEW j \in DOMAIN nodes, NEW k \in DOMAIN nodes
      PROVE  D(w, i, k) <= D(w, i, j) + D(w, j, k)
  <2> DEFINE a == nodes[i][1] - nodes[j][1]
             b == nodes[i][2] - nodes[j][2]
             c == nodes[j][1] - nodes[k][1]
             d == nodes[j][2] - nodes[k][2]
             p == D(w, i, j)
             q == D(w, j, k)
  <2>1. a \in Int /\ b \in Int /\ c \in Int /\ d \in Int
    BY <1>3
  <2>2. Sq(i, j) = a * a + b * b /\ Sq(j, k) = c * c + d * d
    BY DEF Squared
  <2>3. Sq(i, k) = (a + c) * (a + c) + (b + d) * (b + d)
    <3>1. nodes[i][1] - nodes[k][1] = a + c /\ nodes[i][2] - nodes[k][2] = b + d
      BY <1>1 DEF Points
    <3> QED
      BY <3>1 DEF Squared
  <2>4. p \in Nat /\ q \in Nat /\ p + q \in Nat /\ Fine \in Nat
    BY <1>6, PlannerAssumption
  <2>5. /\ p * p >= Fine * Fine * (a * a + b * b)
        /\ q * q >= Fine * Fine * (c * c + d * d)
    <3> HIDE DEF a, b, c, d, Sq
    <3> QED
      BY <1>6, <2>2
  <2> HIDE DEF a, b, c, d, p, q, Sq
  <2>6. (p + q) * (p + q) >= Fine * Fine * Sq(i, k)
    BY <2>1, <2>3, <2>4, <2>5, Plane
  <2>7. D(w, i, k) <= p + q
    BY <1>6, <2>4, <2>6
  <2> QED
    BY <2>7 DEF p, q
<1> QED
  BY <1>6, <1>7, <1>8 DEF nodes

-----------------------------------------------------------------------------
(***************************************************************************)
(* The inductive invariant of the search.                                  *)
(***************************************************************************)
\* The heuristic: the straight line to the goal.
H(n) == D(world, n, 2)

\* The start costs nothing; what is finalised has been reached.
CostInv ==
  /\ world \in Worlds /\ pushes \in Nat
  /\ cost \in [DOMAIN cost -> Nat] /\ DOMAIN cost \subseteq DOMAIN Nodes[world]
  /\ 1 \in DOMAIN cost /\ cost[1] = 0
  /\ closed \subseteq DOMAIN cost /\ 2 \notin closed

\* No entry promises less than its node now costs, a node not finalised has
\* one with exactly that, and none promises less than a finalised node did.
FrontierInv ==
  /\ \A x \in frontier : /\ x \in Nat \X Nat \X DOMAIN cost
                         /\ x[1] >= cost[x[3]] + H(x[3])
  /\ \A n \in DOMAIN cost \ closed :
        \E x \in frontier : x[1] = cost[n] + H(n) /\ x[3] = n
  /\ \A c \in closed : \A x \in frontier : cost[c] + H(c) <= x[1]

\* No segment out of a finalised node is a short cut.
ClosedInv ==
  \A c \in closed : \A m \in DOMAIN Nodes[world] :
     <<c, m>> \in Sees[world] =>
        m \in DOMAIN cost /\ cost[m] <= cost[c] + D(world, c, m)

\* A node was reached by a segment from a finalised one, and costs that much
\* more.
CameInv ==
  /\ DOMAIN came = DOMAIN cost \ {1}
  /\ \A n \in DOMAIN came :
        /\ came[n] \in closed /\ <<came[n], n>> \in Sees[world]
        /\ cost[n] = cost[came[n]] + D(world, came[n], n)

\* came_from leads back to the start, by no more nodes than are finalised.
DepthInv ==
  \E depth \in [DOMAIN cost -> Nat] :
     /\ depth[1] = 0
     /\ \A n \in DOMAIN came : depth[n] = depth[came[n]] + 1
     /\ \A n \in DOMAIN cost : depth[n] <= Cardinality(closed)

SearchInv == CostInv /\ FrontierInv /\ ClosedInv /\ CameInv /\ DepthInv

-----------------------------------------------------------------------------
(***************************************************************************)
(* One pop.                                                                *)
(***************************************************************************)
\* The heap gives the entry that promises least.
LEMMA CheapestFirst ==
  ASSUME FrontierInv, frontier # {}
  PROVE  Cheapest \in frontier /\ \A y \in frontier : Cheapest[1] <= y[1]
<1>1. \A x \in frontier : x[1] \in Nat /\ x[2] \in Nat
  BY DEF FrontierInv
<1>2. PICK x \in frontier : \A y \in frontier : x[1] <= y[1]
  <2> DEFINE F == {x[1] : x \in frontier}
  <2>1. F \subseteq Nat /\ F # {}
    BY <1>1
  <2>2. PICK m \in F : \A k \in F : m <= k
    BY <2>1, Least
  <2> QED
    BY <2>2
<1>3. PICK z \in frontier : /\ z[1] = x[1]
                            /\ \A y \in frontier : y[1] = x[1] => z[2] <= y[2]
  <2> DEFINE B == {y \in frontier : y[1] = x[1]}
             F == {y[2] : y \in B}
  <2>1. F \subseteq Nat /\ F # {}
    BY <1>1
  <2>2. PICK m \in F : \A k \in F : m <= k
    BY <2>1, Least
  <2> QED
    BY <2>2
<1>4. \A y \in frontier : Precedes(z, y)
  BY <1>1, <1>2, <1>3 DEF Precedes
<1>5. Cheapest \in frontier /\ \A y \in frontier : Precedes(Cheapest, y)
  BY <1>4 DEF Cheapest
<1> QED
  BY <1>1, <1>5 DEF Precedes

\* An entry that is not stale promises what its node costs.
LEMMA CheapestFresh ==
  ASSUME CostInv, FrontierInv, frontier # {}, Cheapest[3] \notin closed
  PROVE  /\ Cheapest[3] \in DOMAIN cost
         /\ Cheapest[1] = cost[Cheapest[3]] + H(Cheapest[3])
<1> DEFINE c == Cheapest[3]
<1>1. Cheapest \in frontier /\ \A y \in frontier : Cheapest[1] <= y[1]
  BY CheapestFirst
<1>2. Cheapest[1] \in Nat /\ c \in DOMAIN cost /\ Cheapest[1] >= cost[c] + H(c)
  BY <1>1 DEF FrontierInv
<1>3. PICK x \in frontier : x[1] = cost[c] + H(c)
  BY <1>2 DEF FrontierInv
<1>4. x[1] \in Nat /\ Cheapest[1] <= x[1]
  BY <1>1 DEF FrontierInv
<1> QED
  BY <1>2, <1>3, <1>4

\* What the search knows of distances, in its own terms.
LEMMA Measured ==
  ASSUME CostInv
  PROVE  /\ DOMAIN Nodes[world] = 1..Len(Nodes[world]) /\ Len(Nodes[world]) \in Nat
         /\ 1 \in DOMAIN Nodes[world] /\ 2 \in DOMAIN Nodes[world]
         /\ \A i, j \in DOMAIN Nodes[world] : D(world, i, j) \in Nat
         /\ \A i \in DOMAIN Nodes[world] : H(i) \in Nat
         /\ H(2) = 0
         /\ \A i, j \in DOMAIN Nodes[world] : H(i) <= D(world, i, j) + H(j)
         /\ \A n \in DOMAIN cost : cost[n] \in Nat /\ n \in DOMAIN Nodes[world]
<1>1. world \in Worlds
  BY DEF CostInv
<1>2. Nodes[world] \in Seq(Points) /\ Len(Nodes[world]) >= 2
  BY <1>1, NodesArePoints
<1>3. /\ DOMAIN Nodes[world] = 1..Len(Nodes[world]) /\ Len(Nodes[world]) \in Nat
      /\ 1 \in DOMAIN Nodes[world] /\ 2 \in DOMAIN Nodes[world]
  BY <1>2
<1> QED
  BY <1>1, <1>3, Distances DEF H, CostInv

\* The node popped, what a neighbour would cost by it, and those it improves.
Popped == Cheapest[3]
Reaches(n) == cost[Popped] + D(world, Popped, n)
Better == Improves(Popped, Nodes[world])

\* Which nodes a pop improves, and which it does not.
LEMMA BetterNodes ==
  ASSUME SearchInv, PopNode
  PROVE  /\ Popped \in DOMAIN cost /\ Popped \notin closed /\ Popped # 2
         /\ Popped \in DOMAIN Nodes[world]
         /\ Cheapest \in frontier /\ Cheapest[1] = cost[Popped] + H(Popped)
         /\ \A y \in frontier : Cheapest[1] <= y[1]
         /\ Better \subseteq DOMAIN Nodes[world]
         /\ \A n \in Better : /\ n \notin closed /\ n # Popped /\ n # 1
                              /\ <<Popped, n>> \in Sees[world] /\ Reaches(n) \in Nat
                              /\ n \in DOMAIN cost => Reaches(n) < cost[n]
         /\ \A n \in DOMAIN Nodes[world] \ (Better \cup closed) :
               <<Popped, n>> \in Sees[world] => n \in DOMAIN cost /\ cost[n] <= Reaches(n)
<1> USE DEF Popped
<1>1. CostInv /\ FrontierInv /\ frontier # {} /\ Popped \notin closed /\ Popped # 2
  BY DEF SearchInv, PopNode
<1>2. Popped \in DOMAIN cost /\ Cheapest[1] = cost[Popped] + H(Popped)
  BY <1>1, CheapestFresh
<1>3. Cheapest \in frontier /\ \A y \in frontier : Cheapest[1] <= y[1]
  BY <1>1, CheapestFirst
<1>4. Popped \in DOMAIN Nodes[world] /\ cost[Popped] \in Nat
  BY <1>1, <1>2, Measured
<1>5. \A n \in DOMAIN Nodes[world] : Reaches(n) \in Nat
  <2>1. \A n \in DOMAIN Nodes[world] : D(world, Popped, n) \in Nat
    BY <1>1, <1>4, Measured
  <2> QED
    BY <1>4, <2>1 DEF Reaches
<1>6. Better = {n \in (DOMAIN Nodes[world]) \ closed :
                  /\ <<Popped, n>> \in Sees[world]
                  /\ n \notin DOMAIN cost \/ Reaches(n) < cost[n]}
  BY DEF Better, Improves, Reaches, D
<1>7. \A e \in Sees[world] : e[1] # e[2]
  BY <1>1 DEF Sees, Seen, CostInv
<1>8. ASSUME NEW n \in Better PROVE n # Popped /\ n # 1
  <2>1. n # Popped
    BY <1>6, <1>7
  <2>2. 1 \in DOMAIN cost /\ cost[1] = 0
    BY <1>1 DEF CostInv
  <2>3. n # 1
    BY <1>5, <1>6, <2>2
  <2> QED
    BY <2>1, <2>3
<1>9. ASSUME NEW n \in DOMAIN Nodes[world] \ (Better \cup closed), <<Popped, n>> \in Sees[world]
      PROVE  n \in DOMAIN cost /\ cost[n] <= Reaches(n)
  <2>1. n \in DOMAIN cost /\ ~(Reaches(n) < cost[n])
    BY <1>6, <1>9
  <2>2. cost[n] \in Nat /\ Reaches(n) \in Nat
    BY <1>1, <1>5, <2>1, Measured
  <2> QED
    BY <2>1, <2>2
<1> QED
  BY <1>1, <1>2, <1>3, <1>4, <1>5, <1>6, <1>8, <1>9

\* What a pop changes.
LEMMA PopEffect ==
  ASSUME SearchInv, PopNode
  PROVE  /\ closed' = closed \cup {Popped} /\ world' = world
         /\ outcome' = outcome /\ route' = route
         /\ DOMAIN cost' = DOMAIN cost \cup Better
         /\ \A n \in Better : cost'[n] = Reaches(n)
         /\ \A n \in DOMAIN cost \ Better : cost'[n] = cost[n]
         /\ cost' = [n \in DOMAIN cost' |-> cost'[n]]
         /\ DOMAIN came' = DOMAIN came \cup Better
         /\ \A n \in Better : came'[n] = Popped
         /\ \A n \in DOMAIN came \ Better : came'[n] = came[n]
         /\ pushes' \in Nat
         /\ \A n \in Better : \E t \in Nat : <<Reaches(n) + H(n), t, n>> \in frontier'
         /\ \A x \in frontier \ {Cheapest} : x \in frontier'
         /\ \A x \in frontier' :
               \/ x \in frontier
               \/ \E n \in Better, t \in Nat : x = <<Reaches(n) + H(n), t, n>>
<1> USE DEF Popped
<1>1. /\ Expand(Popped, Nodes[world], Better)
      /\ UNCHANGED <<world, outcome, route>>
  BY DEF PopNode, Better
<1>2. CostInv
  BY DEF SearchInv
<1>3. \A n : /\ cost[Popped] + Dist(Nodes[world][Popped], Nodes[world][n]) = Reaches(n)
             /\ Dist(Nodes[world][n], Nodes[world][2]) = H(n)
  BY DEF Reaches, D, H
<1>4. /\ cost' = [n \in (DOMAIN cost) \cup Better |->
                    IF n \in Better THEN Reaches(n) ELSE cost[n]]
      /\ came' = [n \in (DOMAIN came) \cup Better |->
                    IF n \in Better THEN Popped ELSE came[n]]
      /\ closed' = closed \cup {Popped}
      /\ pushes' = pushes + Cardinality(Better)
  BY <1>1, <1>3 DEF Expand
<1> DEFINE Rank(n) == pushes + Cardinality({m \in Better : m <= n})
<1>5. frontier' = (frontier \ {Cheapest})
                     \cup {<<Reaches(n) + H(n), Rank(n), n>> : n \in Better}
  <2> DEFINE reach(n) == cost[Popped] + Dist(Nodes[world][Popped], Nodes[world][n])
             rest(n) == Dist(Nodes[world][n], Nodes[world][2])
  <2>1. frontier' = (frontier \ {Cheapest})
                       \cup {<<reach(n) + rest(n), Rank(n), n>> : n \in Better}
    BY <1>1 DEF Expand
  <2>2. \A n : reach(n) = Reaches(n) /\ rest(n) = H(n)
    BY <1>3
  <2> HIDE DEF reach, rest, Rank, Popped
  <2>3. {<<reach(n) + rest(n), Rank(n), n>> : n \in Better}
           = {<<Reaches(n) + H(n), Rank(n), n>> : n \in Better}
    BY <2>2
  <2> QED
    BY <2>1, <2>3
<1>6. \A T \in SUBSET Better : Cardinality(T) \in Nat
  <2>1. Better \subseteq DOMAIN Nodes[world]
    BY BetterNodes
  <2>2. IsFiniteSet(DOMAIN Nodes[world])
    BY <1>2, Measured, FS_Interval
  <2> QED
    BY <2>1, <2>2, FS_Subset, FS_CardinalityType
<1>7. pushes' \in Nat /\ \A n \in Better : Rank(n) \in Nat
  BY <1>2, <1>4, <1>6 DEF CostInv
<1> HIDE DEF Rank
<1>8. /\ \A n \in Better : \E t \in Nat : <<Reaches(n) + H(n), t, n>> \in frontier'
      /\ \A x \in frontier \ {Cheapest} : x \in frontier'
      /\ \A x \in frontier' :
               \/ x \in frontier
               \/ \E n \in Better, t \in Nat : x = <<Reaches(n) + H(n), t, n>>
  BY <1>5, <1>7
<1> HIDE DEF Popped
<1> QED
  BY <1>1, <1>4, <1>7, <1>8

\* The parts of the invariant over a pop.
LEMMA PopCost == ASSUME SearchInv, PopNode PROVE CostInv'
<1>1. CostInv
  BY DEF SearchInv
<1>2. \A n \in Better : n \in DOMAIN Nodes[world] /\ Reaches(n) \in Nat /\ n # 1
  BY BetterNodes
<1>3. \A n \in DOMAIN cost' : cost'[n] \in Nat
  BY <1>1, <1>2, PopEffect DEF CostInv
<1>4. cost' \in [DOMAIN cost' -> Nat]
  BY <1>3, PopEffect
<1>5. DOMAIN cost' \subseteq DOMAIN Nodes[world'] /\ world' \in Worlds
  BY <1>1, <1>2, PopEffect DEF CostInv
<1>6. 1 \in DOMAIN cost' /\ cost'[1] = 0
  BY <1>1, <1>2, PopEffect DEF CostInv
<1>7. closed' \subseteq DOMAIN cost' /\ 2 \notin closed'
  BY <1>1, BetterNodes, PopEffect DEF CostInv
<1> QED
  BY <1>4, <1>5, <1>6, <1>7, PopEffect DEF CostInv

\* No node costs more than before, and the finalised ones no less.
LEMMA PopCheaper ==
  ASSUME SearchInv, PopNode
  PROVE  /\ \A n \in DOMAIN cost : n \in DOMAIN cost' /\ cost'[n] <= cost[n]
         /\ \A n \in closed' : n \in DOMAIN cost /\ cost'[n] = cost[n]
         /\ \A n : H(n)' = H(n)
         /\ \A i, j : D(world', i, j) = D(world, i, j)
<1>1. CostInv
  BY DEF SearchInv
<1>2. ASSUME NEW n \in DOMAIN cost PROVE n \in DOMAIN cost' /\ cost'[n] <= cost[n]
  <2>1. cost[n] \in Nat
    BY <1>1 DEF CostInv
  <2>2. CASE n \in Better
    <3>1. cost'[n] = Reaches(n) /\ Reaches(n) < cost[n] /\ Reaches(n) \in Nat
      BY <2>2, BetterNodes, PopEffect
    <3> QED
      BY <2>1, <2>2, <3>1, PopEffect
  <2>3. CASE n \notin Better
    <3>1. cost'[n] = cost[n]
      BY <2>3, PopEffect
    <3> QED
      BY <2>1, <3>1, PopEffect
  <2> QED
    BY <2>2, <2>3
<1>3. ASSUME NEW n \in closed' PROVE n \in DOMAIN cost /\ cost'[n] = cost[n]
  <2>1. n \in closed \/ n = Popped
    BY PopEffect
  <2>2. n \in DOMAIN cost /\ n \notin Better
    BY <1>1, <2>1, BetterNodes DEF CostInv
  <2> QED
    BY <2>2, PopEffect
<1>4. world' = world
  BY PopEffect
<1> QED
  BY <1>2, <1>3, <1>4 DEF H, D

\* Entries stay no cheaper than their nodes, and in order behind what is closed.
LEMMA PopFrontier == ASSUME SearchInv, PopNode PROVE FrontierInv'
<1>1. CostInv /\ FrontierInv /\ CostInv'
  BY PopCost DEF SearchInv
<1>2. /\ \A n \in DOMAIN cost' : cost'[n] \in Nat /\ H(n) \in Nat
      /\ \A n \in DOMAIN cost : cost[n] \in Nat /\ H(n) \in Nat
      /\ \A n \in DOMAIN Nodes[world] : H(n) \in Nat
  <2>1. \A n \in DOMAIN cost' : cost'[n] \in Nat /\ n \in DOMAIN Nodes[world]
    BY <1>1, PopEffect DEF CostInv
  <2> QED
    BY <1>1, <2>1, Measured
<1>3. ASSUME NEW x \in frontier'
      PROVE  /\ x \in Nat \X Nat \X DOMAIN cost'
             /\ x[1] >= cost'[x[3]] + H(x[3])
             /\ x[1] >= cost[Popped] + H(Popped)
  <2>1. CASE x \in frontier
    <3>1. /\ x \in Nat \X Nat \X DOMAIN cost /\ x[1] >= cost[x[3]] + H(x[3])
          /\ Cheapest[1] <= x[1]
      BY <1>1, <2>1, BetterNodes DEF FrontierInv
    <3>2. cost'[x[3]] <= cost[x[3]] /\ x[3] \in DOMAIN cost'
      BY <3>1, PopCheaper
    <3>3. Cheapest[1] = cost[Popped] + H(Popped)
      BY BetterNodes
    <3>4. x[1] >= cost'[x[3]] + H(x[3])
      BY <1>2, <3>1, <3>2
    <3> QED
      BY <3>1, <3>2, <3>3, <3>4
  <2>2. CASE \E n \in Better, t \in Nat : x = <<Reaches(n) + H(n), t, n>>
    <3>1. PICK n \in Better, t \in Nat : x = <<Reaches(n) + H(n), t, n>>
      BY <2>2
    <3>2. n \in DOMAIN cost' /\ cost'[n] = Reaches(n) /\ n \in DOMAIN Nodes[world]
      BY BetterNodes, PopEffect
    <3>3. x[1] = cost'[n] + H(n) /\ x[3] = n /\ cost'[n] \in Nat /\ H(n) \in Nat
      BY <1>2, <3>1, <3>2
    <3>4. H(Popped) <= D(world, Popped, n) + H(n) /\ Popped \in DOMAIN cost
      BY <1>1, <3>2, BetterNodes, Measured
    <3>5. D(world, Popped, n) \in Nat /\ H(Popped) \in Nat /\ cost[Popped] \in Nat
      BY <1>1, <1>2, <3>2, <3>4, BetterNodes, Measured
    <3>6. x[1] >= cost[Popped] + H(Popped)
      BY <3>2, <3>3, <3>4, <3>5 DEF Reaches
    <3>7. x \in Nat \X Nat \X DOMAIN cost'
      BY <3>1, <3>2, <3>3
    <3> QED
      BY <3>3, <3>6, <3>7
  <2> QED
    BY <2>1, <2>2, PopEffect
<1>4. ASSUME NEW n \in DOMAIN cost' \ closed'
      PROVE  \E x \in frontier' : x[1] = cost'[n] + H(n) /\ x[3] = n
  <2>1. CASE n \in Better
    <3>1. cost'[n] = Reaches(n)
      BY <2>1, PopEffect
    <3>2. PICK t \in Nat : <<Reaches(n) + H(n), t, n>> \in frontier'
      BY <2>1, PopEffect
    <3> QED
      BY <3>1, <3>2
  <2>2. CASE n \notin Better
    <3>1. n \in DOMAIN cost /\ n \notin closed /\ n # Popped /\ cost'[n] = cost[n]
      BY <2>2, PopEffect
    <3>2. PICK x \in frontier : x[1] = cost[n] + H(n) /\ x[3] = n
      BY <1>1, <3>1 DEF FrontierInv
    <3>3. x # Cheapest
      BY <3>1, <3>2 DEF Popped
    <3>4. x \in frontier'
      BY <3>3, PopEffect
    <3> QED
      BY <3>1, <3>2, <3>4
  <2> QED
    BY <2>1, <2>2
<1>5. ASSUME NEW c \in closed', NEW x \in frontier'
      PROVE  cost'[c] + H(c) <= x[1]
  <2>1. c \in DOMAIN cost /\ cost'[c] = cost[c]
    BY PopCheaper
  <2>2. CASE c = Popped
    BY <1>3, <2>1, <2>2, <1>2
  <2>3. CASE c # Popped
    <3>1. c \in closed
      BY <2>3, PopEffect
    <3>2. cost[c] + H(c) <= Cheapest[1]
      BY <1>1, <3>1, BetterNodes DEF FrontierInv
    <3>3. Cheapest[1] = cost[Popped] + H(Popped) /\ Popped \in DOMAIN cost
      BY BetterNodes
    <3>4. x[1] >= cost[Popped] + H(Popped) /\ x[1] \in Nat
      BY <1>3
    <3> QED
      BY <1>2, <2>1, <3>2, <3>3, <3>4
  <2> QED
    BY <2>2, <2>3
<1>6. \A n : H(n)' = H(n)
  BY PopCheaper
<1> QED
  BY <1>3, <1>4, <1>5, <1>6 DEF FrontierInv

\* The popped node's neighbours cost no more than through it.
LEMMA PopClosed == ASSUME SearchInv, PopNode PROVE ClosedInv'
<1>1. CostInv /\ FrontierInv /\ ClosedInv /\ world' = world
  BY PopEffect DEF SearchInv
<1>2. ASSUME NEW c \in closed', NEW m \in DOMAIN Nodes[world], <<c, m>> \in Sees[world]
      PROVE  m \in DOMAIN cost' /\ cost'[m] <= cost'[c] + D(world, c, m)
  <2>1. c \in DOMAIN cost /\ cost'[c] = cost[c] /\ cost[c] \in Nat /\ c \in DOMAIN Nodes[world]
    BY <1>1, PopCheaper DEF CostInv
  <2>2. D(world, c, m) \in Nat /\ H(c) \in Nat /\ H(m) \in Nat /\ H(c) <= D(world, c, m) + H(m)
    BY <1>1, <2>1, Measured
  <2>3. CASE c \in closed
    <3>1. m \in DOMAIN cost /\ cost[m] <= cost[c] + D(world, c, m) /\ cost[m] \in Nat
      BY <1>1, <1>2, <2>3 DEF ClosedInv, CostInv
    <3>2. m \in DOMAIN cost' /\ cost'[m] <= cost[m]
      BY <3>1, PopCheaper
    <3>3. cost'[m] \in Nat
      BY <3>2, PopCost DEF CostInv
    <3> QED
      BY <2>1, <2>2, <3>1, <3>2, <3>3
  <2>4. CASE c \notin closed
    <3>1. c = Popped
      BY <2>4, PopEffect
    <3>2. CASE m \in Better
      <4>1. m \in DOMAIN cost' /\ cost'[m] = Reaches(m)
        BY <3>2, PopEffect
      <4>2. Reaches(m) = cost[c] + D(world, c, m)
        BY <3>1 DEF Reaches
      <4> QED
        BY <2>1, <2>2, <4>1, <4>2
    <3>3. CASE m \in closed
      \* Finalised earlier, on an entry that promised no more than this one.
      <4>1. cost[m] + H(m) <= cost[c] + H(c)
        BY <1>1, <3>1, <3>3, BetterNodes DEF FrontierInv
      <4>2. m \in DOMAIN cost /\ cost[m] \in Nat
        BY <1>1, <3>3 DEF CostInv
      <4>3. cost[m] <= cost[c] + D(world, c, m)
        BY <2>1, <2>2, <4>1, <4>2
      <4>4. m \in DOMAIN cost' /\ cost'[m] = cost[m]
        BY <3>3, <4>2, PopCheaper, PopEffect
      <4> QED
        BY <2>1, <4>3, <4>4
    <3>4. CASE m \notin Better \cup closed
      <4>1. m \in DOMAIN cost /\ cost[m] <= Reaches(m)
        BY <1>2, <3>1, <3>4, BetterNodes
      <4>2. m \in DOMAIN cost' /\ cost'[m] = cost[m]
        BY <3>4, <4>1, PopEffect
      <4> QED
        BY <2>1, <3>1, <4>1, <4>2 DEF Reaches
    <3> QED
      BY <3>2, <3>3, <3>4
  <2> QED
    BY <2>3, <2>4
<1> QED
  BY <1>1, <1>2 DEF ClosedInv

\* An improved node comes from the popped one; a finalised one never changes.
LEMMA PopCame == ASSUME SearchInv, PopNode PROVE CameInv'
<1>1. CostInv /\ CameInv /\ world' = world
  BY PopEffect DEF SearchInv
<1>2. DOMAIN came' = DOMAIN cost' \ {1}
  BY <1>1, BetterNodes, PopEffect DEF CameInv
<1>3. ASSUME NEW n \in DOMAIN came'
      PROVE  /\ came'[n] \in closed' /\ <<came'[n], n>> \in Sees[world]
             /\ cost'[n] = cost'[came'[n]] + D(world, came'[n], n)
  <2>1. CASE n \in Better
    <3>1. came'[n] = Popped /\ cost'[n] = Reaches(n) /\ Popped \in closed'
      BY <2>1, PopEffect
    <3>2. cost'[Popped] = cost[Popped]
      BY <3>1, PopCheaper
    <3>3. <<Popped, n>> \in Sees[world]
      BY <2>1, BetterNodes
    <3> QED
      BY <3>1, <3>2, <3>3 DEF Reaches
  <2>2. CASE n \notin Better
    <3>1. n \in DOMAIN came /\ came'[n] = came[n]
      BY <2>2, PopEffect
    <3>2. /\ came[n] \in closed /\ <<came[n], n>> \in Sees[world]
          /\ cost[n] = cost[came[n]] + D(world, came[n], n)
      BY <1>1, <3>1 DEF CameInv
    <3>3. cost'[n] = cost[n]
      <4>1. n \in DOMAIN cost
        BY <1>1, <3>1 DEF CameInv
      <4> QED
        BY <2>2, <4>1, PopEffect
    <3>4. came[n] \in closed'
      BY <3>2, PopEffect
    <3>5. cost'[came[n]] = cost[came[n]]
      BY <3>4, PopCheaper
    <3> QED
      BY <3>1, <3>2, <3>3, <3>4, <3>5
  <2> QED
    BY <2>1, <2>2
<1> QED
  BY <1>1, <1>2, <1>3 DEF CameInv

\* What is finalised can be counted.
LEMMA ClosedCounted ==
  ASSUME CostInv
  PROVE  /\ IsFiniteSet(closed) /\ Cardinality(closed) \in Nat
         /\ Cardinality(closed) < Len(Nodes[world])
<1>1. /\ DOMAIN Nodes[world] = 1..Len(Nodes[world]) /\ Len(Nodes[world]) \in Nat
      /\ 2 \in DOMAIN Nodes[world]
  BY Measured
<1>2. IsFiniteSet(1..Len(Nodes[world])) /\ Cardinality(1..Len(Nodes[world])) = Len(Nodes[world])
  BY <1>1, FS_Interval
<1>3. closed \subseteq (1..Len(Nodes[world])) \ {2}
  BY <1>1 DEF CostInv
<1>4. /\ IsFiniteSet((1..Len(Nodes[world])) \ {2})
      /\ Cardinality((1..Len(Nodes[world])) \ {2}) = Len(Nodes[world]) - 1
  <2> DEFINE S == 1..Len(Nodes[world])
  <2>1. IsFiniteSet(S) /\ Cardinality(S) = Len(Nodes[world]) /\ 2 \in S
    BY <1>1, <1>2
  <2> HIDE DEF S
  <2>2. IsFiniteSet(S \ {2}) /\ Cardinality(S \ {2}) = Cardinality(S) - 1
    BY <2>1, FS_RemoveElement
  <2> QED
    BY <2>1, <2>2 DEF S
<1>5. /\ IsFiniteSet(closed) /\ Cardinality(closed) \in Nat
      /\ Cardinality(closed) <= Len(Nodes[world]) - 1
  BY <1>3, <1>4, FS_Subset, FS_CardinalityType
<1> QED
  BY <1>1, <1>5

\* An improved node is one further back than the popped one.
LEMMA PopDepth == ASSUME SearchInv, PopNode PROVE DepthInv'
<1>1. CostInv /\ CameInv /\ DepthInv
  BY DEF SearchInv
<1>2. PICK depth \in [DOMAIN cost -> Nat] :
         /\ depth[1] = 0
         /\ \A n \in DOMAIN came : depth[n] = depth[came[n]] + 1
         /\ \A n \in DOMAIN cost : depth[n] <= Cardinality(closed)
  BY <1>1 DEF DepthInv
<1> DEFINE deep == [n \in DOMAIN cost' |-> IF n \in Better THEN depth[Popped] + 1 ELSE depth[n]]
<1>3. /\ Popped \in DOMAIN cost /\ Popped \notin closed /\ Popped \notin Better
      /\ \A n \in Better : n \notin closed /\ n # 1
  BY BetterNodes
<1>4. Cardinality(closed') = Cardinality(closed) + 1 /\ Cardinality(closed) \in Nat
  BY <1>1, <1>3, ClosedCounted, PopEffect, FS_AddElement
<1>5. \A n \in DOMAIN cost' \ Better : n \in DOMAIN cost
  BY PopEffect
<1>6. deep \in [DOMAIN cost' -> Nat] /\ deep[1] = 0
  <2>1. \A n \in DOMAIN cost' : deep[n] \in Nat
    BY <1>2, <1>3, <1>5
  <2>2. 1 \in DOMAIN cost' \ Better
    BY <1>1, <1>3, PopEffect DEF CostInv
  <2> QED
    BY <1>2, <2>1, <2>2
<1>7. ASSUME NEW n \in DOMAIN came' PROVE deep[n] = deep[came'[n]] + 1
  <2>1. n \in DOMAIN cost'
    BY PopCame DEF CameInv
  <2>2. CASE n \in Better
    <3>1. came'[n] = Popped /\ Popped \in DOMAIN cost'
      BY <1>3, <2>2, PopEffect
    <3> QED
      BY <1>3, <2>1, <2>2, <3>1
  <2>3. CASE n \notin Better
    <3>1. n \in DOMAIN came /\ came'[n] = came[n]
      BY <2>3, PopEffect
    <3>2. came[n] \in closed /\ came[n] \in DOMAIN cost
      BY <1>1, <3>1 DEF CameInv, CostInv
    <3>3. came[n] \in DOMAIN cost' \ Better
      BY <1>3, <3>2, PopEffect
    <3> QED
      BY <1>2, <2>1, <2>3, <3>1, <3>3
  <2> QED
    BY <2>2, <2>3
<1>8. ASSUME NEW n \in DOMAIN cost' PROVE deep[n] <= Cardinality(closed')
  BY <1>2, <1>3, <1>4, <1>5
<1> HIDE DEF deep
<1> QED
  BY <1>6, <1>7, <1>8 DEF DepthInv

\* A pop keeps the search's invariant.
LEMMA PopSearch == ASSUME SearchInv, PopNode PROVE SearchInv'
BY PopCost, PopFrontier, PopClosed, PopCame, PopDepth DEF SearchInv

\* An entry overtaken is dropped.
LEMMA StaleSearch == ASSUME SearchInv, PopStale PROVE SearchInv'
<1>1. UNCHANGED <<world, cost, came, pushes, closed>> /\ frontier' = frontier \ {Cheapest}
  BY DEF PopStale
<1>2. CostInv' /\ ClosedInv' /\ CameInv' /\ DepthInv'
  BY <1>1 DEF SearchInv, CostInv, ClosedInv, CameInv, DepthInv
<1>3. \A n : H(n)' = H(n)
  BY <1>1 DEF H, D
<1>4. FrontierInv'
  <2>1. FrontierInv /\ Cheapest[3] \in closed
    BY DEF SearchInv, PopStale
  <2>2. ASSUME NEW n \in DOMAIN cost \ closed
        PROVE  \E x \in frontier' : x[1] = cost[n] + H(n) /\ x[3] = n
    <3>1. PICK x \in frontier : x[1] = cost[n] + H(n) /\ x[3] = n
      BY <2>1 DEF FrontierInv
    <3>2. x # Cheapest
      BY <2>1, <3>1
    <3> QED
      BY <1>1, <3>1, <3>2
  <2> QED
    BY <1>1, <1>3, <2>1, <2>2 DEF FrontierInv
<1> QED
  BY <1>2, <1>4 DEF SearchInv

-----------------------------------------------------------------------------
(***************************************************************************)
(* The walks of the reference, and what they have to do with the search.   *)
(***************************************************************************)
\* The shortest walks of at most k nodes.
WalksUpTo(w) ==
  CHOOSE f : f = [k \in 1..Len(Nodes[w]) |->
                    IF k = 1 THEN {<<1, 0>>} ELSE Relaxed(f[k - 1], Nodes[w], Sees[w])]

\* The walks a world can have.
WalksOf(w) == (DOMAIN Nodes[w]) \X Nat

\* more: the shortest of walks and of those one node longer.
IsLonger(w, walks, more) ==
  /\ \A p \in more :
        \/ p \in walks
        \/ \E q \in walks : /\ <<q[1], p[1]>> \in Sees[w] /\ p[1] \in DOMAIN Nodes[w]
                            /\ p[2] = q[2] + D(w, q[1], p[1])
  /\ \A q \in walks : \E p \in more : p[1] = q[1] /\ p[2] <= q[2]
  /\ \A q \in walks : \A n \in DOMAIN Nodes[w] :
        <<q[1], n>> \in Sees[w] => \E p \in more : p[1] = n /\ p[2] <= q[2] + D(w, q[1], n)

\* What one relaxation of the reference leaves for a node.
LEMMA LongerWalks ==
  ASSUME NEW w \in Worlds, NEW walks \in SUBSET WalksOf(w)
  PROVE  /\ Relaxed(walks, Nodes[w], Sees[w]) \in SUBSET WalksOf(w)
         /\ IsLonger(w, walks, Relaxed(walks, Nodes[w], Sees[w]))
<1> DEFINE longer == OneLonger(walks, Nodes[w], Sees[w])
           all == walks \cup longer
           least == Shortest(all)
<1>1. \A i, j \in DOMAIN Nodes[w] : D(w, i, j) \in Nat
  BY Distances
<1>2. \A q \in walks : q[1] \in DOMAIN Nodes[w] /\ q[2] \in Nat
  BY DEF WalksOf
<1>3. \A p : p \in longer <=>
        \E q \in walks, n \in DOMAIN Nodes[w] :
           <<q[1], n>> \in Sees[w] /\ p = <<n, q[2] + D(w, q[1], n)>>
  <2> DEFINE Onward(q) == {m \in DOMAIN Nodes[w] : <<q[1], m>> \in Sees[w]}
             From(q) == {<<n, q[2] + D(w, q[1], n)>> : n \in Onward(q)}
  <2>1. longer = UNION {From(q) : q \in walks}
    BY DEF OneLonger, D
  <2>2. \A p, q : p \in From(q) <=> \E n \in Onward(q) : p = <<n, q[2] + D(w, q[1], n)>>
    OBVIOUS
  <2> HIDE DEF From, longer
  <2>3. \A p : p \in longer <=> \E q \in walks : p \in From(q)
    BY <2>1
  <2> QED
    BY <2>2, <2>3
<1> HIDE DEF longer
<1>4. longer \subseteq WalksOf(w)
  <2>1. ASSUME NEW q \in walks, NEW n \in DOMAIN Nodes[w]
        PROVE  <<n, q[2] + D(w, q[1], n)>> \in WalksOf(w)
    <3>1. q[2] + D(w, q[1], n) \in Nat
      BY <1>1, <1>2
    <3> QED
      BY <3>1 DEF WalksOf
  <2> SUFFICES ASSUME NEW p \in longer PROVE p \in WalksOf(w)
    OBVIOUS
  <2>2. PICK q \in walks, n \in DOMAIN Nodes[w] : p = <<n, q[2] + D(w, q[1], n)>>
    BY <1>3
  <2> QED
    BY <2>1, <2>2
<1>5. all \subseteq WalksOf(w) /\ \A q \in all : q[2] \in Nat
  BY <1>4 DEF WalksOf
<1> HIDE DEF all
<1>6. least = {q \in all : \A r \in all : r[1] = q[1] => q[2] <= r[2]}
  BY DEF Shortest
<1>7. ASSUME NEW q \in all PROVE \E p \in least : p[1] = q[1] /\ p[2] <= q[2]
  <2> DEFINE same == {r \in all : r[1] = q[1]}
             lengths == {r[2] : r \in same}
  <2>1. lengths \subseteq Nat /\ lengths # {}
    BY <1>5
  <2>2. PICK m \in lengths : \A k \in lengths : m <= k
    BY <2>1, Least
  <2>3. PICK p \in all : p[1] = q[1] /\ p[2] = m
    BY <2>2
  <2>4. \A r \in all : r[1] = p[1] => p[2] <= r[2]
    BY <2>2, <2>3
  <2> QED
    BY <1>6, <2>3, <2>4
<1>8. Relaxed(walks, Nodes[w], Sees[w]) = least
  BY DEF Relaxed, all, longer
<1> HIDE DEF least
<1>9. least \in SUBSET WalksOf(w)
  BY <1>5, <1>6
<1>10. ASSUME NEW p \in least
       PROVE \/ p \in walks
             \/ \E q \in walks : <<q[1], p[1]>> \in Sees[w] /\ p[1] \in DOMAIN Nodes[w]
                                 /\ p[2] = q[2] + D(w, q[1], p[1])
  <2>1. CASE p \in longer
    <3>1. PICK q \in walks, n \in DOMAIN Nodes[w] :
             <<q[1], n>> \in Sees[w] /\ p = <<n, q[2] + D(w, q[1], n)>>
      BY <1>3, <2>1
    <3>2. p[1] = n /\ p[2] = q[2] + D(w, q[1], n)
      BY <3>1
    <3> QED
      BY <3>1, <3>2
  <2>2. p \in walks \/ p \in longer
    BY <1>6 DEF all
  <2> QED
    BY <2>1, <2>2
<1>11. \A q \in walks : \E p \in least : p[1] = q[1] /\ p[2] <= q[2]
  BY <1>7 DEF all
<1>12. ASSUME NEW q \in walks, NEW n \in DOMAIN Nodes[w], <<q[1], n>> \in Sees[w]
       PROVE \E p \in least : p[1] = n /\ p[2] <= q[2] + D(w, q[1], n)
  <2>1. <<n, q[2] + D(w, q[1], n)>> \in all
    BY <1>3, <1>12 DEF all
  <2> QED
    BY <1>7, <2>1
<1> QED
  BY <1>8, <1>9, <1>10, <1>11, <1>12 DEF IsLonger

\* The walks the reference counts, one node more at a time.
LEMMA WalksGrow ==
  ASSUME NEW w \in Worlds
  PROVE  /\ 1 \in 1..Len(Nodes[w]) /\ Len(Nodes[w]) \in Nat /\ Len(Nodes[w]) \in 1..Len(Nodes[w])
         /\ ShortestWalks[w] = WalksUpTo(w)[Len(Nodes[w])]
         /\ WalksUpTo(w)[1] = {<<1, 0>>}
         /\ \A k \in 1..Len(Nodes[w]) : k < Len(Nodes[w]) =>
               IsLonger(w, WalksUpTo(w)[k], WalksUpTo(w)[k + 1])
         /\ \A k \in 1..Len(Nodes[w]) : WalksUpTo(w)[k] \in SUBSET WalksOf(w)
<1> DEFINE L == Len(Nodes[w])
           V == SUBSET WalksOf(w)
           Longer(walks) == Relaxed(walks, Nodes[w], Sees[w])
           Def(f, k) == IF k = 1 THEN {<<1, 0>>} ELSE Longer(f[k - 1])
           G == [p \in Nat \X V |-> Longer(p[2])]
<1>0. L \in Nat /\ L >= 2 /\ 1 \in Nat /\ 1 <= L /\ 1 \in 1..L /\ L \in 1..L
  BY NodesArePoints
<1>1. {<<1, 0>>} \in V
  <2>1. 1 \in DOMAIN Nodes[w]
    BY <1>0, NodesArePoints
  <2> QED
    BY <2>1 DEF WalksOf
<1>2. \A walks \in V : Longer(walks) \in V
  BY LongerWalks
<1> HIDE DEF L, V, Longer
<1>3. G \in [Nat \X V -> V]
  BY <1>2
<1>4. PICK f : Goes(f, 1, L, V, {<<1, 0>>}, G)
  <2> HIDE DEF G
  <2> QED
    BY <1>0, <1>1, <1>3, Recursion, Zenon
<1>5. \A k \in 1..L : f[k] = Def(f, k)
  <2>1. f[1] = Def(f, 1)
    BY <1>4 DEF Goes
  <2>2. ASSUME NEW k \in 2..L PROVE f[k] = Def(f, k)
    <3>1. f[k - 1] \in V /\ k \in Nat /\ k # 1
      BY <1>0, <1>4 DEF Goes
    <3>2. f[k] = G[<<k, f[k - 1]>>]
      <4> HIDE DEF G
      <4> QED
        BY <1>4 DEF Goes
    <3>3. <<k, f[k - 1]>> \in Nat \X V
      BY <3>1
    <3> QED
      BY <3>1, <3>2, <3>3
  <2> HIDE DEF Def
  <2>3. \A k \in 1..L : k = 1 \/ k \in 2..L
    BY <1>0
  <2> QED
    BY <2>1, <2>2, <2>3
<1>6. f = [k \in 1..L |-> Def(f, k)]
  <2> HIDE DEF Def, G
  <2> QED
    BY <1>4, <1>5 DEF Goes
<1> HIDE DEF Def
<1> DEFINE W == WalksUpTo(w)
<1>7. W = [k \in 1..L |-> Def(W, k)]
  BY <1>6 DEF WalksUpTo, Def, L, Longer
<1>8. ShortestWalks[w] = W[L]
  BY DEF ShortestWalks, WalksUpTo, L
<1> HIDE DEF W
<1>9. W[1] = {<<1, 0>>}
  BY <1>0, <1>7 DEF Def
<1>10. ASSUME NEW k \in 1..L, k < L PROVE W[k + 1] = Longer(W[k])
  <2>1. k + 1 \in 1..L /\ k + 1 # 1 /\ (k + 1) - 1 = k
    BY <1>0, <1>10
  <2>2. W[k + 1] = Def(W, k + 1)
    BY <1>7, <2>1
  <2> QED
    BY <2>1, <2>2 DEF Def
<1> DEFINE T == {k \in 1..L : W[k] \in V}
<1>11. 1 \in T
  BY <1>0, <1>1, <1>9
<1>12. ASSUME NEW k \in 1..L, k < L, k \in T PROVE k + 1 \in T
  <2>1. k + 1 \in 1..L
    BY <1>0, <1>12
  <2> QED
    BY <1>2, <1>10, <1>12, <2>1
<1> HIDE DEF T
<1>13. \A k \in 1..L : k \in T
  BY <1>0, <1>11, <1>12, CountingUp
<1>14. \A k \in 1..L : W[k] \in V
  BY <1>13 DEF T
<1>15. \A k \in 1..L : k < L => IsLonger(w, W[k], W[k + 1])
  BY <1>10, <1>14, LongerWalks DEF V, Longer
<1> QED
  BY <1>0, <1>8, <1>9, <1>14, <1>15 DEF L, V, W

\* Where no entry promises less than f, a walk either leads to where it costs
\* f or more to go on to the goal, or has a node the search reached no dearer.
LEMMA WalksBounded ==
  ASSUME SearchInv, NEW f \in Nat, \A y \in frontier : f <= y[1]
  PROVE  \A p \in ShortestWalks[world] :
            \/ p[2] + H(p[1]) >= f
            \/ p[1] \in DOMAIN cost /\ cost[p[1]] <= p[2]
<1> DEFINE W == WalksUpTo(world)
           L == Len(Nodes[world])
           Bound(p) == \/ p[2] + H(p[1]) >= f
                       \/ p[1] \in DOMAIN cost /\ cost[p[1]] <= p[2]
           T == {k \in 1..L : \A p \in W[k] : Bound(p)}
<1>0. CostInv /\ FrontierInv /\ ClosedInv /\ world \in Worlds
  BY DEF SearchInv, CostInv
<1>1. L \in Nat /\ 1 \in 1..L /\ L \in 1..L
  BY <1>0, WalksGrow
<1>2. 1 \in T
  <2>1. \A p \in W[1] : p = <<1, 0>>
    BY <1>0, WalksGrow
  <2>2. Bound(<<1, 0>>)
    BY <1>0 DEF CostInv
  <2> QED
    BY <1>1, <2>1, <2>2
<1>3. ASSUME NEW k \in 1..L, k < L, k \in T PROVE k + 1 \in T
  <2>1. k + 1 \in 1..L
    BY <1>1, <1>3
  <2>2. W[k] \in SUBSET WalksOf(world) /\ IsLonger(world, W[k], W[k + 1])
    BY <1>0, <1>3, WalksGrow
  <2>3. ASSUME NEW p \in W[k + 1] PROVE Bound(p)
    <3>1. CASE p \in W[k]
      BY <1>3, <3>1
    <3>2. CASE \E q \in W[k] : /\ <<q[1], p[1]>> \in Sees[world] /\ p[1] \in DOMAIN Nodes[world]
                               /\ p[2] = q[2] + D(world, q[1], p[1])
      <4>1. PICK q \in W[k] : /\ <<q[1], p[1]>> \in Sees[world] /\ p[1] \in DOMAIN Nodes[world]
                              /\ p[2] = q[2] + D(world, q[1], p[1])
        BY <3>2
      <4> DEFINE m == q[1]
                 n == p[1]
                 d == D(world, m, n)
      <4>2. m \in DOMAIN Nodes[world] /\ q[2] \in Nat /\ Bound(q)
        BY <1>3, <2>2 DEF WalksOf
      <4>3. d \in Nat /\ H(m) \in Nat /\ H(n) \in Nat /\ H(m) <= d + H(n)
        BY <1>0, <4>1, <4>2, Measured
      <4>4. p[2] = q[2] + d /\ p[2] \in Nat
        BY <4>1, <4>2, <4>3
      <4> HIDE DEF d
      <4>5. CASE q[2] + H(m) >= f
        <5>1. p[2] + H(n) >= f
          BY <4>2, <4>3, <4>4, <4>5
        <5> QED
          BY <5>1
      <4>6. CASE m \in closed /\ cost[m] <= q[2]
        <5>1. n \in DOMAIN cost /\ cost[n] <= cost[m] + d
          BY <1>0, <4>1, <4>6 DEF ClosedInv, d
        <5>2. cost[m] \in Nat /\ cost[n] \in Nat
          BY <1>0, <4>6, <5>1 DEF CostInv
        <5>3. cost[n] <= p[2]
          BY <4>2, <4>3, <4>4, <4>6, <5>1, <5>2
        <5> QED
          BY <5>1, <5>3
      <4>7. CASE m \in DOMAIN cost \ closed /\ cost[m] <= q[2]
        <5>1. PICK y \in frontier : y[1] = cost[m] + H(m)
          BY <1>0, <4>7 DEF FrontierInv
        <5>2. f <= cost[m] + H(m) /\ cost[m] \in Nat
          BY <1>0, <4>7, <5>1 DEF CostInv
        <5>3. p[2] + H(n) >= f
          BY <4>2, <4>3, <4>4, <4>7, <5>2
        <5> QED
          BY <5>3
      <4> QED
        BY <4>2, <4>5, <4>6, <4>7
    <3>3. \/ p \in W[k]
          \/ \E q \in W[k] : /\ <<q[1], p[1]>> \in Sees[world] /\ p[1] \in DOMAIN Nodes[world]
                             /\ p[2] = q[2] + D(world, q[1], p[1])
      BY <2>2 DEF IsLonger
    <3> HIDE DEF Bound
    <3> QED
      BY <3>1, <3>2, <3>3
  <2> QED
    BY <2>1, <2>3
<1> HIDE DEF T
<1>4. \A k \in 1..L : k \in T
  BY <1>1, <1>2, <1>3, CountingUp
<1>5. L \in T
  BY <1>1, <1>4
<1>6. ShortestWalks[world] = W[L]
  BY <1>0, WalksGrow
<1> QED
  BY <1>5, <1>6 DEF T

\* What the search reached, by way of fewer nodes than there are, a walk
\* reaches no dearer.
LEMMA WalksReach ==
  ASSUME SearchInv, NEW n \in DOMAIN cost
  PROVE  \E p \in ShortestWalks[world] : p[1] = n /\ p[2] <= cost[n]
<1> DEFINE W == WalksUpTo(world)
           L == Len(Nodes[world])
<1>0. CostInv /\ CameInv /\ DepthInv /\ world \in Worlds
  BY DEF SearchInv, CostInv
<1>1. L \in Nat /\ 1 \in 1..L /\ L \in 1..L
  BY <1>0, WalksGrow
<1>2. PICK depth \in [DOMAIN cost -> Nat] :
         /\ depth[1] = 0
         /\ \A m \in DOMAIN came : depth[m] = depth[came[m]] + 1
         /\ \A m \in DOMAIN cost : depth[m] <= Cardinality(closed)
  BY <1>0 DEF DepthInv
<1> DEFINE Found(m, k) == \E p \in W[k] : p[1] = m /\ p[2] <= cost[m]
           T == {k \in 1..L : \A m \in DOMAIN cost : depth[m] < k => Found(m, k)}
<1>3. \A m \in DOMAIN cost : m # 1 => depth[m] >= 1 /\ came[m] \in DOMAIN cost
                                       /\ depth[m] = depth[came[m]] + 1
  <2> SUFFICES ASSUME NEW m \in DOMAIN cost, m # 1
               PROVE  depth[m] >= 1 /\ came[m] \in DOMAIN cost /\ depth[m] = depth[came[m]] + 1
    OBVIOUS
  <2>1. m \in DOMAIN came
    BY <1>0 DEF CameInv
  <2>2. came[m] \in DOMAIN cost
    BY <1>0, <2>1 DEF CameInv, CostInv
  <2> QED
    BY <1>2, <2>1, <2>2
<1>4. 1 \in T
  <2>1. <<1, 0>> \in W[1]
    BY <1>0, WalksGrow
  <2>2. Found(1, 1)
    BY <1>0, <2>1 DEF CostInv
  <2>3. \A m \in DOMAIN cost : depth[m] < 1 => m = 1
    BY <1>2, <1>3
  <2> HIDE DEF Found
  <2> QED
    BY <1>1, <2>2, <2>3
<1>5. ASSUME NEW k \in 1..L, k < L, k \in T PROVE k + 1 \in T
  <2>1. k + 1 \in 1..L /\ k \in Nat
    BY <1>1, <1>5
  <2>2. W[k] \in SUBSET WalksOf(world) /\ IsLonger(world, W[k], W[k + 1])
    BY <1>0, <1>5, WalksGrow
  <2>3. ASSUME NEW m \in DOMAIN cost, depth[m] < k + 1 PROVE Found(m, k + 1)
    <3>0. cost[m] \in Nat /\ depth[m] \in Nat /\ m \in DOMAIN Nodes[world]
      BY <1>0, <1>2 DEF CostInv
    <3>1. CASE depth[m] < k
      <4>1. PICK q \in W[k] : q[1] = m /\ q[2] <= cost[m]
        BY <1>5, <3>1
      <4>2. PICK p \in W[k + 1] : p[1] = q[1] /\ p[2] <= q[2]
        BY <2>2, <4>1 DEF IsLonger
      <4>3. p[2] \in Nat /\ q[2] \in Nat
        BY <1>0, <2>1, <2>2, WalksGrow DEF WalksOf
      <4> QED
        BY <3>0, <4>1, <4>2, <4>3
    <3>2. CASE depth[m] = k
      <4> DEFINE c == came[m]
                 d == D(world, c, m)
      <4>1. m # 1 /\ c \in DOMAIN cost /\ depth[c] < k
        BY <1>2, <1>3, <2>1, <3>0, <3>2
      <4>2. PICK q \in W[k] : q[1] = c /\ q[2] <= cost[c]
        BY <1>5, <4>1
      <4>3. <<c, m>> \in Sees[world] /\ cost[m] = cost[c] + d
        BY <1>0, <4>1 DEF CameInv
      <4>4. PICK p \in W[k + 1] : p[1] = m /\ p[2] <= q[2] + d
        BY <2>2, <3>0, <4>2, <4>3 DEF IsLonger
      <4>5. p[2] \in Nat /\ q[2] \in Nat
        BY <1>0, <2>1, <2>2, WalksGrow DEF WalksOf
      <4>6. cost[c] \in Nat /\ d \in Nat
        BY <1>0, <3>0, <4>1, Measured
      <4>7. p[2] <= cost[m]
        BY <4>2, <4>3, <4>4, <4>5, <4>6
      <4> QED
        BY <4>4, <4>7
    <3> HIDE DEF Found
    <3> QED
      BY <2>1, <2>3, <3>0, <3>1, <3>2
  <2> HIDE DEF Found
  <2> QED
    BY <2>1, <2>3
<1> HIDE DEF T
<1>6. \A k \in 1..L : k \in T
  BY <1>1, <1>4, <1>5, CountingUp
<1>7. L \in T
  BY <1>1, <1>6
<1>8. depth[n] < L
  <2>1. depth[n] <= Cardinality(closed) /\ depth[n] \in Nat
    BY <1>2
  <2> QED
    BY <1>0, <1>1, <2>1, ClosedCounted
<1>9. Found(n, L)
  BY <1>7, <1>8 DEF T
<1>10. ShortestWalks[world] = W[L]
  BY <1>0, WalksGrow
<1> QED
  BY <1>9, <1>10

\* The goal is popped at the length of the shortest walk to it.
LEMMA GoalIsNearest ==
  ASSUME SearchInv, frontier # {}, Cheapest[3] = 2
  PROVE  2 \in DOMAIN cost /\ <<2, cost[2]>> \in ShortestWalks[world]
<1>1. CostInv /\ FrontierInv /\ 2 \notin closed /\ world \in Worlds
  BY DEF SearchInv, CostInv
<1>2. 2 \in DOMAIN cost /\ Cheapest[1] = cost[2] + H(2) /\ cost[2] \in Nat /\ H(2) = 0
  BY <1>1, CheapestFresh, Measured DEF CostInv
<1>3. \A y \in frontier : cost[2] <= y[1]
  BY <1>1, <1>2, CheapestFirst
<1>4. PICK p \in ShortestWalks[world] : p[1] = 2 /\ p[2] <= cost[2]
  BY <1>2, WalksReach
<1>5. p \in WalksOf(world)
  BY <1>1, WalksGrow
<1>6. p = <<2, p[2]>> /\ p[2] \in Nat
  BY <1>4, <1>5 DEF WalksOf
<1>7. p[2] + H(p[1]) >= cost[2] \/ cost[2] <= p[2]
  BY <1>2, <1>3, <1>4, WalksBounded
<1>8. p[2] = cost[2]
  BY <1>2, <1>4, <1>6, <1>7
<1> QED
  BY <1>2, <1>4, <1>6, <1>8

\* A search that runs out of entries has been everywhere there is a walk to.
LEMMA GoalIsCutOff ==
  ASSUME SearchInv, frontier = {}, NEW p \in ShortestWalks[world]
  PROVE  p[1] # 2
<1>1. CostInv /\ FrontierInv /\ 2 \notin closed /\ world \in Worlds
  BY DEF SearchInv, CostInv
<1>2. p[1] \in DOMAIN Nodes[world] /\ p[2] \in Nat
  BY <1>1, WalksGrow DEF WalksOf
<1>3. H(p[1]) \in Nat
  BY <1>1, <1>2, Measured
<1> DEFINE f == p[2] + H(p[1]) + 1
<1>4. f \in Nat /\ ~(p[2] + H(p[1]) >= f)
  BY <1>2, <1>3
<1> HIDE DEF f
<1>5. p[1] \in DOMAIN cost
  BY <1>4, WalksBounded
<1>6. p[1] \in closed
  BY <1>1, <1>5 DEF FrontierInv
<1> QED
  BY <1>1, <1>6

-----------------------------------------------------------------------------
(***************************************************************************)
(* The route the search gives back.                                        *)
(***************************************************************************)
\* A sequence of nodes from the start to n, each reached from the one before,
\* and the route that goes by them.
IsTrail(b, m, n) ==
  /\ m \in Nat /\ b[0] = n /\ b[m] = 1
  /\ \A k \in 0..m : b[k] \in DOMAIN cost
  /\ \A k \in 0..m : k < m => b[k] \in DOMAIN came /\ b[k + 1] = came[b[k]]

ByTrail(r, b, m) == r = [k \in 1..(m + 1) |-> Nodes[world][b[m + 1 - k]]]

\* _reconstruct goes back to the start.
LEMMA PathIsTrail ==
  ASSUME SearchInv, NEW n \in DOMAIN cost
  PROVE  \E b, m : IsTrail(b, m, n) /\ ByTrail(PathTo(n, Nodes[world]), b, m)
<1> DEFINE L == Len(Nodes[world])
           V == (DOMAIN Nodes[world]) \cup {0}
           Def(f, k) == IF k = 0 THEN n
                        ELSE IF f[k - 1] \in DOMAIN came THEN came[f[k - 1]] ELSE 0
           G == [p \in Nat \X V |-> IF p[2] \in DOMAIN came THEN came[p[2]] ELSE 0]
<1>0. CostInv /\ CameInv /\ DepthInv /\ L \in Nat /\ DOMAIN Nodes[world] = 1..L
  BY Measured DEF SearchInv
<1>1. \A c \in DOMAIN came : /\ came[c] \in DOMAIN cost /\ c \in DOMAIN cost
                             /\ c # 1 /\ c # 0
  <2> SUFFICES ASSUME NEW c \in DOMAIN came
               PROVE  came[c] \in DOMAIN cost /\ c \in DOMAIN cost /\ c # 1 /\ c # 0
    OBVIOUS
  <2>1. c \in DOMAIN cost /\ c # 1 /\ came[c] \in closed
    BY <1>0 DEF CameInv
  <2>2. came[c] \in DOMAIN cost /\ c \in 1..L
    BY <1>0, <2>1 DEF CostInv
  <2> HIDE DEF L
  <2> QED
    BY <1>0, <2>1, <2>2
<1>2. G \in [Nat \X V -> V] /\ n \in V
  BY <1>0, <1>1 DEF CostInv
<1> HIDE DEF L, V
<1>3. PICK f : Goes(f, 0, L, V, n, G)
  <2> HIDE DEF G
  <2>1. 0 \in Nat /\ 0 <= L
    BY <1>0
  <2> QED
    BY <1>0, <1>2, <2>1, Recursion, Zenon
<1>4. \A k \in 0..L : f[k] = Def(f, k)
  <2>1. f[0] = Def(f, 0)
    BY <1>3 DEF Goes
  <2>2. ASSUME NEW k \in 1..L PROVE f[k] = Def(f, k)
    <3>1. f[k - 1] \in V /\ k \in Nat /\ k # 0
      BY <1>0, <1>3 DEF Goes
    <3>2. f[k] = G[<<k, f[k - 1]>>]
      <4> HIDE DEF G
      <4> QED
        BY <1>3 DEF Goes
    <3>3. <<k, f[k - 1]>> \in Nat \X V
      BY <3>1
    <3> QED
      BY <3>1, <3>2, <3>3
  <2> HIDE DEF Def
  <2>3. \A k \in 0..L : k = 0 \/ k \in 1..L
    BY <1>0
  <2> QED
    BY <2>1, <2>2, <2>3
<1>5. f = [k \in 0..L |-> Def(f, k)]
  <2> HIDE DEF Def, G
  <2> QED
    BY <1>3, <1>4 DEF Goes
<1> HIDE DEF Def
<1> DEFINE back == CHOOSE g : g = [k \in 0..L |-> Def(g, k)]
           last == CHOOSE k \in 0..L : back[k] = 1
<1>6. back = [k \in 0..L |-> Def(back, k)]
  BY <1>5
<1>7. PathTo(n, Nodes[world]) = [k \in 1..(last + 1) |-> Nodes[world][back[last + 1 - k]]]
  BY DEF PathTo, Def, L
<1> HIDE DEF back
<1>8. PICK depth \in [DOMAIN cost -> Nat] :
         /\ depth[1] = 0
         /\ \A c \in DOMAIN came : depth[c] = depth[came[c]] + 1
         /\ \A c \in DOMAIN cost : depth[c] <= Cardinality(closed)
  BY <1>0 DEF DepthInv
<1> DEFINE m == depth[n]
           T == {k \in 0..L : /\ k <= m => back[k] \in DOMAIN cost /\ depth[back[k]] = m - k
                              /\ k > m => back[k] = 0}
<1>9. m \in 0..L /\ m \in Nat
  <2>1. m \in Nat /\ m <= Cardinality(closed)
    BY <1>8
  <2> QED
    BY <1>0, <2>1, ClosedCounted DEF L
<1>10. back[0] = n
  BY <1>0, <1>6 DEF Def
<1>11. \A k \in 0..L : k < L =>
          back[k + 1] = IF back[k] \in DOMAIN came THEN came[back[k]] ELSE 0
  <2> SUFFICES ASSUME NEW k \in 0..L, k < L
               PROVE  back[k + 1] = IF back[k] \in DOMAIN came THEN came[back[k]] ELSE 0
    OBVIOUS
  <2>1. k + 1 \in 0..L /\ k + 1 # 0 /\ (k + 1) - 1 = k
    BY <1>0
  <2>2. back[k + 1] = Def(back, k + 1)
    BY <1>6, <2>1
  <2> QED
    BY <2>1, <2>2 DEF Def
<1>12. 0 \in T
  BY <1>0, <1>9, <1>10
<1>13. \A c \in DOMAIN cost : c \in DOMAIN came <=> depth[c] # 0
  <2>1. \A c \in DOMAIN came : depth[c] # 0
    BY <1>1, <1>8
  <2>2. \A c \in DOMAIN cost : c \notin DOMAIN came => c = 1
    BY <1>0 DEF CameInv
  <2> QED
    BY <1>8, <2>1, <2>2
<1>14. ASSUME NEW k \in 0..L, k < L, k \in T PROVE k + 1 \in T
  <2>1. k \in Nat /\ k + 1 \in 0..L
    BY <1>0, <1>14
  <2>2. CASE k < m
    <3>1. back[k] \in DOMAIN cost /\ depth[back[k]] = m - k
      BY <1>9, <1>14, <2>1, <2>2
    <3>2. back[k] \in DOMAIN came
      BY <1>9, <1>13, <2>1, <2>2, <3>1
    <3>3. back[k + 1] = came[back[k]]
      BY <1>11, <1>14, <3>2
    <3>4. back[k + 1] \in DOMAIN cost /\ depth[back[k]] = depth[back[k + 1]] + 1
      BY <1>1, <1>8, <3>2, <3>3
    <3>5. depth[back[k + 1]] = m - (k + 1)
      BY <1>8, <1>9, <2>1, <3>1, <3>4
    <3> QED
      BY <1>9, <2>1, <2>2, <3>4, <3>5
  <2>3. CASE k = m
    <3>1. back[k] \in DOMAIN cost /\ depth[back[k]] = 0
      BY <1>9, <1>14, <2>3
    <3>2. back[k] \notin DOMAIN came
      BY <1>13, <3>1
    <3> QED
      BY <1>9, <1>11, <1>14, <2>1, <2>3, <3>2
  <2>4. CASE k > m
    <3>1. back[k] = 0 /\ 0 \notin DOMAIN came
      BY <1>1, <1>14, <2>4
    <3> QED
      BY <1>9, <1>11, <1>14, <2>1, <2>4, <3>1
  <2> QED
    BY <1>9, <2>1, <2>2, <2>3, <2>4
<1> HIDE DEF T
<1>15. \A k \in 0..L : k \in T
  BY <1>0, <1>12, <1>14, CountingUp
<1>16. \A k \in 0..m : back[k] \in DOMAIN cost /\ depth[back[k]] = m - k /\ k \in 0..L
  <2> SUFFICES ASSUME NEW k \in 0..m
               PROVE  back[k] \in DOMAIN cost /\ depth[back[k]] = m - k /\ k \in 0..L
    OBVIOUS
  <2>1. k \in 0..L /\ k <= m
    BY <1>0, <1>9
  <2>2. k \in T
    BY <1>15, <2>1
  <2> QED
    BY <2>1, <2>2 DEF T
<1>17. back[m] = 1
  <2>1. back[m] \in DOMAIN cost /\ depth[back[m]] = 0
    BY <1>9, <1>16
  <2> QED
    BY <1>0, <1>13, <2>1 DEF CameInv
<1>18. \A k \in 0..L : back[k] = 1 => k = m
  <2> SUFFICES ASSUME NEW k \in 0..L, back[k] = 1 PROVE k = m
    OBVIOUS
  <2>1. ~(k > m)
    BY <1>15 DEF T
  <2>2. k \in 0..m
    BY <1>9, <2>1
  <2>3. m - k = 0
    BY <1>8, <1>16, <2>2
  <2> QED
    BY <1>9, <2>2, <2>3
<1>19. last = m
  BY <1>9, <1>17, <1>18
<1>20. IsTrail(back, m, n)
  <2>1. ASSUME NEW k \in 0..m, k < m PROVE back[k] \in DOMAIN came /\ back[k + 1] = came[back[k]]
    <3>0. k \in 0..L /\ k < L
      BY <1>0, <1>9, <2>1
    <3>1. back[k] \in DOMAIN came
      <4>1. back[k] \in DOMAIN cost /\ depth[back[k]] = m - k
        BY <1>16
      <4>2. m - k # 0
        BY <1>9, <2>1
      <4> QED
        BY <1>13, <4>1, <4>2
    <3> QED
      BY <1>11, <3>0, <3>1
  <2> QED
    BY <1>9, <1>10, <1>16, <1>17, <2>1 DEF IsTrail
<1>21. ByTrail(PathTo(n, Nodes[world]), back, m)
  BY <1>7, <1>19 DEF ByTrail
<1> QED
  BY <1>20, <1>21

\* The length of a route.
LengthOf(r) ==
  LET upto[i \in 1..Len(r)] ==
        IF i = 1 THEN 0 ELSE upto[i - 1] + Dist(r[i - 1], r[i])
  IN upto[Len(r)]

\* A route by a trail goes along segments of the graph, from the start to n,
\* and is as long as n costs.
LEMMA TrailIsRoute ==
  ASSUME SearchInv, NEW n, NEW b, NEW m, IsTrail(b, m, n), NEW r, ByTrail(r, b, m)
  PROVE  /\ r # <<>> /\ r \in Seq(Points)
         /\ r[1] = Nodes[world][1] /\ r[Len(r)] = Nodes[world][n]
         /\ \A i \in 1..(Len(r) - 1) :
               \E e \in Sees[world] : r[i] = Nodes[world][e[1]] /\ r[i + 1] = Nodes[world][e[2]]
         /\ LengthOf(r) = cost[n]
<1> DEFINE L == m + 1
           at(i) == b[m + 1 - i]
<1>0. CostInv /\ CameInv /\ m \in Nat /\ L \in Nat /\ 1 \in 1..L /\ L \in 1..L
  BY DEF SearchInv, IsTrail
<1>1. /\ at(1) = 1 /\ at(L) = n
      /\ \A i \in 1..L : at(i) \in DOMAIN cost
      /\ \A i \in 1..L : i < L => /\ at(i + 1) \in DOMAIN came
                                  /\ at(i) = came[at(i + 1)]
  <2>1. at(1) = 1 /\ at(L) = n
    BY <1>0 DEF IsTrail
  <2>2. ASSUME NEW i \in 1..L PROVE at(i) \in DOMAIN cost
    <3>1. m + 1 - i \in 0..m
      BY <1>0
    <3> QED
      BY <3>1 DEF IsTrail
  <2>3. ASSUME NEW i \in 1..L, i < L
        PROVE  at(i + 1) \in DOMAIN came /\ at(i) = came[at(i + 1)]
    <3>1. /\ m + 1 - (i + 1) \in 0..m /\ m + 1 - (i + 1) < m
          /\ (m + 1 - (i + 1)) + 1 = m + 1 - i
      BY <1>0, <2>3
    <3> QED
      BY <3>1 DEF IsTrail
  <2> QED
    BY <2>1, <2>2, <2>3
<1>2. r = [i \in 1..L |-> Nodes[world][at(i)]]
  BY DEF ByTrail
<1> HIDE DEF at, L
<1>3. Nodes[world] \in Seq(Points) /\ \A i \in DOMAIN Nodes[world] : Nodes[world][i] \in Points
  BY <1>0, NodesArePoints DEF CostInv
<1>4. r \in Seq(Points) /\ Len(r) = L /\ DOMAIN r = 1..L
  <2>1. \A i \in 1..L : Nodes[world][at(i)] \in Points
    BY <1>0, <1>1, <1>3 DEF CostInv
  <2> QED
    BY <1>0, <1>2, <2>1
<1>5. r # <<>> /\ r[1] = Nodes[world][1] /\ r[Len(r)] = Nodes[world][n]
  BY <1>0, <1>1, <1>2, <1>4
<1>6. ASSUME NEW i \in 1..L, i < L
      PROVE  /\ i + 1 \in 1..L /\ <<at(i), at(i + 1)>> \in Sees[world]
             /\ r[i] = Nodes[world][at(i)] /\ r[i + 1] = Nodes[world][at(i + 1)]
             /\ cost[at(i + 1)] = cost[at(i)] + Dist(r[i], r[i + 1])
  <2>1. i + 1 \in 1..L
    BY <1>0, <1>6
  <2>2. r[i] = Nodes[world][at(i)] /\ r[i + 1] = Nodes[world][at(i + 1)]
    BY <1>2, <2>1
  <2>3. at(i + 1) \in DOMAIN came /\ at(i) = came[at(i + 1)]
    BY <1>1, <1>6
  <2>4. /\ <<at(i), at(i + 1)>> \in Sees[world]
        /\ cost[at(i + 1)] = cost[at(i)] + D(world, at(i), at(i + 1))
    BY <1>0, <2>3 DEF CameInv
  <2> QED
    BY <2>1, <2>2, <2>4 DEF D
<1>7. ASSUME NEW i \in 1..(Len(r) - 1)
      PROVE  \E e \in Sees[world] : r[i] = Nodes[world][e[1]] /\ r[i + 1] = Nodes[world][e[2]]
  <2>1. i \in 1..L /\ i < L
    BY <1>0, <1>4
  <2>2. <<at(i), at(i + 1)>> \in Sees[world]
    BY <1>6, <2>1
  <2> DEFINE e == <<at(i), at(i + 1)>>
  <2>3. r[i] = Nodes[world][e[1]] /\ r[i + 1] = Nodes[world][e[2]]
    BY <1>6, <2>1
  <2> QED
    BY <2>2, <2>3
<1> DEFINE far == [i \in 1..L |-> cost[at(i)]]
           Def(f, i) == IF i = 1 THEN 0 ELSE f[i - 1] + Dist(r[i - 1], r[i])
<1>8. \A i \in 1..L : far[i] = Def(far, i)
  <2>1. far[1] = Def(far, 1)
    BY <1>0, <1>1 DEF CostInv
  <2>2. ASSUME NEW i \in 2..L PROVE far[i] = Def(far, i)
    <3>1. i - 1 \in 1..L /\ i - 1 < L /\ (i - 1) + 1 = i /\ i \in 1..L /\ i # 1
      BY <1>0
    <3>2. cost[at(i)] = cost[at(i - 1)] + Dist(r[i - 1], r[i])
      BY <1>6, <3>1
    <3> QED
      BY <3>1, <3>2
  <2> HIDE DEF Def, far
  <2>3. \A i \in 1..L : i = 1 \/ i \in 2..L
    BY <1>0
  <2> QED
    BY <2>1, <2>2, <2>3
<1>9. far = [i \in 1..L |-> Def(far, i)]
  <2> HIDE DEF Def
  <2>1. far = [i \in 1..L |-> far[i]]
    OBVIOUS
  <2> HIDE DEF far
  <2> QED
    BY <1>8, <2>1
<1>10. \A i \in 1..L : far[i] = cost[at(i)] /\ far[i] \in Nat
  BY <1>0, <1>1 DEF CostInv
<1> HIDE DEF Def, far
<1> DEFINE upto == CHOOSE g : g = [i \in 1..L |-> Def(g, i)]
<1>11. upto = [i \in 1..L |-> Def(upto, i)]
  BY <1>9
<1>12. LengthOf(r) = upto[L]
  BY <1>4 DEF LengthOf, Def
<1> HIDE DEF upto
<1> DEFINE T == {i \in 1..L : upto[i] = far[i]}
<1>13. 1 \in T
  <2>1. upto[1] = Def(upto, 1) /\ far[1] = Def(far, 1)
    BY <1>0, <1>8, <1>11
  <2> QED
    BY <1>0, <2>1 DEF Def
<1>14. ASSUME NEW i \in 1..L, i < L, i \in T PROVE i + 1 \in T
  <2>1. i + 1 \in 1..L /\ (i + 1) - 1 = i /\ i + 1 # 1
    BY <1>0, <1>14
  <2>2. upto[i + 1] = Def(upto, i + 1) /\ far[i + 1] = Def(far, i + 1)
    BY <1>8, <1>11, <2>1
  <2>3. upto[i + 1] = upto[i] + Dist(r[i], r[i + 1]) /\ far[i + 1] = far[i] + Dist(r[i], r[i + 1])
    BY <2>1, <2>2 DEF Def
  <2> QED
    BY <1>14, <2>1, <2>3
<1> HIDE DEF T
<1>15. \A i \in 1..L : i \in T
  BY <1>0, <1>13, <1>14, CountingUp
<1>16. upto[L] = cost[n]
  BY <1>0, <1>1, <1>10, <1>15 DEF T
<1> QED
  BY <1>4, <1>5, <1>7, <1>12, <1>16

-----------------------------------------------------------------------------
(***************************************************************************)
(* The planner, from its start to its answer.                              *)
(***************************************************************************)
PlanInv ==
  /\ PlanTypeOK /\ PlanIsShortest
  /\ outcome = "planning" => SearchInv
  /\ outcome = "planned" => world \in Worlds
  /\ outcome \in {"planned", "returned"} => route \in Seq(Points)

\* The search starts from its invariant, or is trapped.
LEMMA PlanInitial == PlanInit => PlanInv
<1> SUFFICES ASSUME PlanInit PROVE PlanInv
  OBVIOUS
<1>1. world \in Worlds /\ route = <<>>
  BY DEF PlanInit
<1>2. CASE Trapped(world)
  BY <1>1, <1>2 DEF PlanInit, PlanInv, NoSearch, PlanTypeOK, PlanIsShortest
<1>3. CASE ~Trapped(world)
  <2>1. /\ outcome = "planning" /\ cost = [n \in {1} |-> 0] /\ came = <<>> /\ closed = {}
        /\ frontier = {<<Dist(world.start, world.goal), 0, 1>>} /\ pushes = 0
    BY <1>3 DEF PlanInit
  <2>2. DOMAIN cost = {1} /\ cost[1] = 0 /\ DOMAIN came = {}
    BY <2>1
  <2>3. CostInv
    <3>1. 1 \in DOMAIN Nodes[world]
      <4>1. Nodes[world] \in Seq(Points) /\ Len(Nodes[world]) >= 2
        BY <1>1, NodesArePoints
      <4> QED
        BY <4>1
    <3> QED
      BY <1>1, <2>1, <2>2, <3>1 DEF CostInv
  <2>4. FrontierInv
    <3>1. Dist(world.start, world.goal) = H(1) /\ H(1) \in Nat
      BY <1>1, <2>3, NodesArePoints, Measured DEF H, D
    <3>2. \A x \in frontier : x = <<H(1), 0, 1>>
      BY <2>1, <3>1
    <3>3. <<H(1), 0, 1>> \in frontier
      BY <2>1, <3>1
    <3> QED
      BY <2>1, <2>2, <3>1, <3>2, <3>3 DEF FrontierInv
  <2>5. ClosedInv /\ CameInv
    BY <2>1, <2>2 DEF ClosedInv, CameInv
  <2>6. DepthInv
    <3>1. IsFiniteSet(closed) /\ Cardinality(closed) \in Nat
      BY <2>3, ClosedCounted
    <3> DEFINE depth == [n \in {1} |-> 0]
    <3>2. /\ depth \in [DOMAIN cost -> Nat] /\ depth[1] = 0
          /\ \A n \in DOMAIN came : depth[n] = depth[came[n]] + 1
          /\ \A n \in DOMAIN cost : depth[n] <= Cardinality(closed)
      BY <2>2, <3>1
    <3> HIDE DEF depth
    <3> QED
      BY <3>2 DEF DepthInv
  <2>7. SearchInv
    BY <2>3, <2>4, <2>5, <2>6 DEF SearchInv
  <2>8. PlanTypeOK /\ PlanIsShortest
    <3>1. {x[3] : x \in frontier} = {1}
      BY <2>1
    <3> QED
      BY <1>1, <2>1, <2>2, <3>1 DEF PlanTypeOK, PlanIsShortest
  <2> QED
    BY <1>1, <2>1, <2>7, <2>8 DEF PlanInv
<1> QED
  BY <1>2, <1>3

\* While it searches, the types are as the search has them.
LEMMA SearchTypes ==
  ASSUME SearchInv', outcome' = "planning", route' = <<>>
  PROVE  PlanTypeOK'
<1>1. CostInv' /\ FrontierInv' /\ CameInv'
  BY DEF SearchInv
<1>2. closed' \subseteq DOMAIN cost' /\ DOMAIN came' \subseteq DOMAIN cost'
  BY <1>1 DEF CostInv, CameInv
<1>3. \A x \in frontier' : x[3] \in DOMAIN cost'
  BY <1>1 DEF FrontierInv
<1>4. \A n \in DOMAIN cost' \ closed' : \E x \in frontier' : x[3] = n
  BY <1>1 DEF FrontierInv
<1>5. {x[3] : x \in frontier'} \cup closed' = DOMAIN cost'
  BY <1>2, <1>3, <1>4
<1> QED
  BY <1>2, <1>5 DEF PlanTypeOK

\* The steps.
LEMMA PlanPopGoal == ASSUME PlanInv, PopGoal PROVE PlanInv'
<1>1. /\ outcome = "planning" /\ frontier # {} /\ Cheapest[3] = 2 /\ outcome' = "planned"
      /\ route' = PathTo(2, Nodes[world]) /\ world' = world /\ Forget
  BY DEF PopGoal
<1>2. SearchInv
  BY <1>1 DEF PlanInv
<1>3. 2 \in DOMAIN cost /\ <<2, cost[2]>> \in ShortestWalks[world] /\ world \in Worlds
  BY <1>1, <1>2, GoalIsNearest DEF SearchInv, CostInv
<1>4. PICK b, m : IsTrail(b, m, 2) /\ ByTrail(route', b, m)
  BY <1>1, <1>2, <1>3, PathIsTrail
<1>5. /\ route' # <<>> /\ route' \in Seq(Points)
      /\ route'[1] = Nodes[world][1] /\ route'[Len(route')] = Nodes[world][2]
      /\ \A i \in 1..(Len(route') - 1) :
            \E e \in Sees[world] : /\ route'[i] = Nodes[world][e[1]]
                                   /\ route'[i + 1] = Nodes[world][e[2]]
      /\ LengthOf(route') = cost[2]
  BY <1>2, <1>4, TrailIsRoute
<1>6. FollowsGraph'
  BY <1>1, <1>5 DEF FollowsGraph
<1>7. RouteLength' = cost[2]
  BY <1>5 DEF RouteLength, LengthOf
<1>8. route'[1] = world'.start /\ route'[Len(route')] = world'.goal
  BY <1>1, <1>3, <1>5, NodesArePoints
<1>9. PlanIsShortest'
  BY <1>1, <1>3, <1>6, <1>7, <1>8 DEF PlanIsShortest
<1>10. PlanTypeOK'
  BY <1>1, <1>5 DEF PlanTypeOK, Forget
<1> QED
  BY <1>1, <1>3, <1>5, <1>9, <1>10 DEF PlanInv

\* A pop that is not the goal's decides nothing.
LEMMA PlanPopOther == ASSUME PlanInv, PopStale \/ PopNode PROVE PlanInv'
<1>1. outcome = "planning" /\ UNCHANGED <<outcome, route, world>>
  BY DEF PopStale, PopNode
<1>2. SearchInv /\ route = <<>>
  BY <1>1 DEF PlanInv, PlanTypeOK
<1>3. SearchInv'
  BY <1>2, PopSearch, StaleSearch
<1>4. outcome' = "planning" /\ route' = <<>>
  BY <1>1, <1>2
<1>5. PlanTypeOK'
  BY <1>3, <1>4, SearchTypes
<1>6. PlanIsShortest'
  BY <1>4 DEF PlanIsShortest
<1> QED
  BY <1>3, <1>4, <1>5, <1>6 DEF PlanInv

\* An empty heap means that no walk reaches the goal.
LEMMA PlanWalled == ASSUME PlanInv, Walled PROVE PlanInv'
<1>1. /\ outcome = "planning" /\ frontier = {} /\ outcome' = "walled" /\ Forget
      /\ UNCHANGED <<world, route>>
  BY DEF Walled
<1>2. SearchInv /\ route = <<>>
  BY <1>1 DEF PlanInv, PlanTypeOK
<1>3. \A p \in ShortestWalks[world] : p[1] # 2
  BY <1>1, <1>2, GoalIsCutOff
<1>4. PlanIsShortest'
  BY <1>1, <1>3 DEF PlanIsShortest
<1>5. PlanTypeOK'
  BY <1>1, <1>2 DEF PlanTypeOK, Forget
<1> QED
  BY <1>1, <1>4, <1>5 DEF PlanInv

\* The caller takes the route as it is.
LEMMA PlanReturned == ASSUME PlanInv, PlanReturns PROVE PlanInv'
<1>1. /\ outcome = "planned" /\ outcome' = "returned" /\ route' = route
      /\ UNCHANGED searchVars
  BY DEF PlanReturns
<1>2. PlanTypeOK' /\ PlanIsShortest'
  BY <1>1 DEF PlanInv, PlanTypeOK, PlanIsShortest, searchVars
<1> QED
  BY <1>1, <1>2 DEF PlanInv

\* The planner's invariant is about its variables alone.
LEMMA PlanKept == ASSUME PlanInv, UNCHANGED planVars PROVE PlanInv'
<1>1. /\ UNCHANGED <<world, outcome, route, cost, came, frontier, pushes, closed>>
  BY DEF planVars, searchVars
<1>2. PlanTypeOK'
  BY <1>1 DEF PlanInv, PlanTypeOK
<1>3. PlanIsShortest'
  BY <1>1 DEF PlanInv, PlanIsShortest, FollowsGraph, RouteLength
<1>4. SearchInv => SearchInv'
  BY <1>1 DEF SearchInv, CostInv, FrontierInv, ClosedInv, CameInv, DepthInv, H, D
<1> QED
  BY <1>1, <1>2, <1>3, <1>4 DEF PlanInv

\* The steps the planner has no part in.
LEMMA PlanSteps ==
  ASSUME [Next]_vars
  PROVE  PopGoal \/ PopStale \/ PopNode \/ Walled \/ PlanReturns \/ UNCHANGED planVars
BY DEF Next, Search, Enter, Refuse, NavNext, StepNav, AbortFailed, AbortLate, AbortBlind,
       AbortSpinning, GiveUp, Turn, Fly, Finish, Execute, ExecuteBadly, Poll, RunLate, vars

\* The search keeps its invariant.
THEOREM PlanInvariant == Spec => []PlanInv
<1>1. Init => PlanInv
  BY PlanInitial DEF Init
<1>2. PlanInv /\ [Next]_vars => PlanInv'
  BY PlanSteps, PlanPopGoal, PlanPopOther, PlanWalled, PlanReturned, PlanKept
<1> QED
  BY <1>1, <1>2, PTL DEF Spec

\* A* finds a shortest walk of the visibility graph from the start to the
\* goal, and says there is none only when there is none, in every world.
THEOREM PlannerIsShortest == Spec => []PlanIsShortest
BY PlanInvariant, PTL DEF PlanInv

\* What is searched was not trapped.
Untrapped == outcome \in {"planning", "planned"} => ~Trapped(world)

\* What the search works on was not trapped: trapped starts and goals are refused before it begins.
LEMMA SearchesUntrapped == Spec => []Untrapped
<1>1. Init => Untrapped
  BY DEF Init, PlanInit, Untrapped
<1>2. Untrapped /\ [Next]_vars => Untrapped'
  <2> SUFFICES ASSUME Untrapped, [Next]_vars
               PROVE  Untrapped'
    OBVIOUS
  <2>1. CASE PopGoal \/ PopStale \/ PopNode
    BY <2>1 DEF PopGoal, PopStale, PopNode, Untrapped, Trapped
  <2>2. CASE Walled \/ PlanReturns
    BY <2>2 DEF Walled, PlanReturns, Untrapped
  <2>3. CASE UNCHANGED planVars
    BY <2>3 DEF planVars, Untrapped, Trapped
  <2> QED
    BY <2>1, <2>2, <2>3, PlanSteps
<1> QED
  BY <1>1, <1>2, PTL DEF Spec

\* A leg of the visibility graph is clear of every box, or flies through a gate.
LEMMA EdgesKeepClear ==
  ASSUME NEW w \in Worlds, ~Trapped(w), BoxesOnly(w), ~CornersThreaded(w),
         NEW e \in Sees[w], NEW k \in DOMAIN Inflated[w]
  PROVE  \/ Clear(Nodes[w][e[1]], Nodes[w][e[2]], Inflated[w][k])
         \/ \E gate \in w.gates :
               /\ gate.clearance >= 2 * Inflation
               /\ SegmentIntersects(gate.span[1], gate.span[2], Inflated[w][k])
               /\ ProperlyCross(Nodes[w][e[1]], Nodes[w][e[2]], gate.span[1], gate.span[2])
<1> DEFINE a == Nodes[w][e[1]]
           b == Nodes[w][e[2]]
           ring == Inflated[w][k]
<1>1. Inflated[w] = InflatedIn(w) /\ Nodes[w] = NodesIn(w)
  BY DEF Inflated, Nodes
<1>2. e[1] \in DOMAIN Nodes[w] /\ e[2] \in DOMAIN Nodes[w] /\ Visible(w, a, b)
  BY DEF Sees, Seen
<1>3. a \in Points /\ b \in Points /\ ~Inside(a, ring) /\ ~Inside(b, ring)
  BY <1>1, <1>2, NodesOutside
<1>4. ring \in Seq(Points) /\ IsBox(ring)
  <2>1. /\ k \in DOMAIN KeepOuts(w) /\ KeepOuts(w)[k].ring \in Seq(Points)
        /\ ring = Inflate(KeepOuts(w)[k].ring, Inflation)
    BY <1>1, Rings
  <2>2. IsBox(KeepOuts(w)[k].ring)
    BY <2>1 DEF BoxesOnly
  <2> QED
    BY <2>1, <2>2, InflatedBox, InflatedRing, PlannerAssumption
<1>5. ~Threads(a, b, ring)
  BY <1>1, <1>2 DEF CornersThreaded
<1> HIDE DEF a, b
<1>6. CASE SegmentEnters(a, b, ring)
  <2>1. Excused(w, a, b, k)
    BY <1>2, <1>6 DEF Visible
  <2>2. PICK gate \in FittingGates[w] :
           k \in gate.posts /\ ProperlyCross(a, b, gate.span[1], gate.span[2])
    BY <2>1 DEF Excused
  <2>3. PICK h \in w.gates :
           /\ h.clearance >= 2 * Inflation
           /\ gate = [span |-> h.span,
                      posts |-> {i \in DOMAIN Inflated[w] :
                                   SegmentIntersects(h.span[1], h.span[2], Inflated[w][i])}]
    BY DEF FittingGates
  <2>4. /\ SegmentIntersects(h.span[1], h.span[2], ring)
        /\ ProperlyCross(a, b, h.span[1], h.span[2])
    BY <2>2, <2>3
  <2> QED
    BY <2>3, <2>4 DEF a, b
<1>7. CASE ~SegmentEnters(a, b, ring)
  <2>1. Clear(a, b, ring)
    BY <1>3, <1>4, <1>5, <1>7, ClearOrThreads
  <2> QED
    BY <2>1 DEF a, b
<1> QED
  BY <1>6, <1>7

\* No leg of a plan passes through the inside of an inflated keep-out, except
\* through a gate that fits, in every world whose keep-outs are boxes and in
\* which no line between two nodes threads corners: the midpoint and crossing
\* tests of _segment_enters_interior miss nothing else.
THEOREM PlanKeepsClear ==
  Spec => [](BoxesOnly(world) /\ ~CornersThreaded(world) => PlanStaysClear)
<1>1. ASSUME PlanInv, Untrapped
      PROVE  BoxesOnly(world) /\ ~CornersThreaded(world) => PlanStaysClear
  <2> SUFFICES ASSUME BoxesOnly(world), ~CornersThreaded(world), outcome = "planned"
               PROVE  PlanStaysClear
    BY DEF PlanStaysClear
  <2>1. world \in Worlds /\ ~Trapped(world) /\ FollowsGraph
    BY <1>1 DEF PlanInv, PlanIsShortest, Untrapped
  <2> SUFFICES ASSUME NEW i \in 1..(Len(route) - 1), NEW k \in DOMAIN Inflated[world]
               PROVE  \/ Clear(route[i], route[i + 1], Inflated[world][k])
                      \/ \E gate \in world.gates :
                            /\ gate.clearance >= 2 * Inflation
                            /\ SegmentIntersects(gate.span[1], gate.span[2], Inflated[world][k])
                            /\ ProperlyCross(route[i], route[i + 1], gate.span[1], gate.span[2])
    BY DEF PlanStaysClear
  <2>2. PICK e \in Sees[world] : /\ route[i] = Nodes[world][e[1]]
                                 /\ route[i + 1] = Nodes[world][e[2]]
    BY <2>1 DEF FollowsGraph
  <2> QED
    BY <2>1, <2>2, EdgesKeepClear
<1> QED
  BY <1>1, PlanInvariant, SearchesUntrapped, PTL

\* Where every world is such a one, every plan stays clear.
THEOREM BoxWorldsStayClear ==
  ASSUME \A w \in Worlds : BoxesOnly(w) /\ ~CornersThreaded(w)
  PROVE  Spec => []PlanStaysClear
<1>1. PlanInv /\ (BoxesOnly(world) /\ ~CornersThreaded(world) => PlanStaysClear) => PlanStaysClear
  BY DEF PlanInv, PlanStaysClear
<1> QED
  BY <1>1, PlanInvariant, PlanKeepsClear, PTL

-----------------------------------------------------------------------------
(***************************************************************************)
(* The inductive invariant of the transit.                                 *)
(***************************************************************************)
\* A leg is flown along its segment of the polyline, its heading corrected.
LegInv(l) ==
  /\ l.along \in 1..(Len(route) - 1) /\ l.distance \in Nat
  /\ l.heading = Wrap(Heading(route[l.along], route[l.along + 1]) + Offset)

LegsInv ==
  /\ Len(legs) \in Nat /\ DOMAIN legs = 1..Len(legs)
  /\ \A i \in 1..Len(legs) : LegInv(legs[i])

\* Before the plan is there nothing has been done; from then on it stands.
PlannedInv ==
  /\ flight \in {"unplanned", "refused", "flying", "done", "aborted"}
  /\ flight # "unplanned" => outcome = "returned"
  /\ flight \in {"unplanned", "refused"} =>
        legs = <<>> /\ leg = 1 /\ substep = "rotate" /\ command = NoCommand

\* The telemetry is a reading, and the compass's own if it is current.
BodyInv ==
  /\ yaw \in -7..8 /\ shown \in (-7..8) \cup {NoYaw}
  /\ current => shown \in {yaw, NoYaw}

PlaceInv ==
  /\ leg \in 1..(Len(legs) + 1) /\ substep \in {"rotate", "await_move"}
  /\ rots \in 0..(RotCap + 1) /\ (rots > RotCap => flight = "aborted")
  /\ failed \in BOOLEAN /\ late \in BOOLEAN
  /\ substep = "await_move" => leg <= Len(legs) /\ Commanded(legs[leg]) > 0
  /\ flight = "done" => leg = Len(legs) + 1

CommandInv ==
  command # NoCommand =>
     /\ flight = "flying" /\ ~failed
     /\ command \in [do : {"rotate", "move"}, by : Int]
     /\ (command.do = "move") = (substep = "await_move")

\* The legs behind the drone: those before the one it is at, and that one
\* too once its Move has ended well.
Behind == IF substep = "await_move" /\ command = NoCommand /\ ~failed THEN leg ELSE leg - 1

FlownInv ==
  /\ flown \in Seq(Nat)
  /\ \A j, k \in DOMAIN flown : j < k => flown[j] < flown[k]
  /\ {flown[k] : k \in DOMAIN flown} = {i \in 1..Behind : Commanded(legs[i]) > 0}

NavInv == LegsInv /\ PlannedInv /\ BodyInv /\ PlaceInv /\ CommandInv /\ FlownInv

-----------------------------------------------------------------------------
(***************************************************************************)
(* Readings of the compass.                                                *)
(***************************************************************************)
\* Wrap gives the reading that is full circles away.
LEMMA Wrapped ==
  ASSUME NEW x \in Int
  PROVE  Wrap(x) \in -7..8 /\ \E k \in Int : Wrap(x) = x - 16 * k
<1>1. x % 16 \in 0..15 /\ x = 16 * (x \div 16) + (x % 16) /\ x \div 16 \in Int
  OBVIOUS
<1>2. CASE x % 16 > 8
  <2>1. Wrap(x) = (x % 16) - 16
    BY <1>2 DEF Wrap, Circle
  <2>2. Wrap(x) = x - 16 * ((x \div 16) + 1)
    BY <1>1, <2>1
  <2>3. (x \div 16) + 1 \in Int /\ (x % 16) - 16 \in -7..8
    BY <1>1, <1>2
  <2> QED
    BY <2>1, <2>2, <2>3
<1>3. CASE ~(x % 16 > 8)
  <2>1. Wrap(x) = x % 16
    BY <1>3 DEF Wrap, Circle
  <2>2. Wrap(x) = x - 16 * (x \div 16)
    BY <1>1, <2>1
  <2> QED
    BY <1>1, <1>3, <2>1, <2>2
<1> QED
  BY <1>2, <1>3

\* Two turns that are full circles apart wrap to the same reading.
LEMMA SameReading ==
  ASSUME NEW x \in Int, NEW y \in Int, NEW k \in Int, x - y = 16 * k
  PROVE  Wrap(x) = Wrap(y)
<1>1. x % 16 = y % 16
  BY SMT
<1> QED
  BY <1>1 DEF Wrap, Circle

\* The offset taken off again leaves the turn to the heading itself.
LEMMA OffsetCancels ==
  ASSUME NEW h \in Int, NEW y \in Int
  PROVE  Wrap(Wrap(h + Offset) - y) = Wrap(h - (y - Offset))
<1>1. Offset \in Int /\ h + Offset \in Int /\ h - (y - Offset) \in Int
  BY NavigateAssumption
<1>2. PICK k \in Int : Wrap(h + Offset) = (h + Offset) - 16 * k
  BY <1>1, Wrapped
<1>3. Wrap(h + Offset) \in Int
  BY <1>1, Wrapped
<1>4. (Wrap(h + Offset) - y) - (h - (y - Offset)) = 16 * (-k)
  BY <1>1, <1>2, <1>3
<1>5. Wrap(h + Offset) - y \in Int /\ -k \in Int
  BY <1>3
<1> DEFINE a == Wrap(h + Offset) - y
           b == h - (y - Offset)
           j == -k
<1>6. a \in Int /\ b \in Int /\ j \in Int /\ a - b = 16 * j
  BY <1>1, <1>4, <1>5
<1> HIDE DEF a, b, j
<1>7. Wrap(a) = Wrap(b)
  BY <1>6, SameReading
<1> QED
  BY <1>7 DEF a, b

\* A heading is a reading.
LEMMA HeadingReads == \A a, b : Heading(a, b) \in 0..15
<1>1. \A x, y : Reading(x, y) \in 0..15
  BY DEF Reading
<1> QED
  BY <1>1 DEF Heading

-----------------------------------------------------------------------------
(***************************************************************************)
(* The plan is turned into legs.                                           *)
(***************************************************************************)
\* What Parts makes of a segment.
LegOn(i) ==
  LET total == Dist(route[i], route[i + 1])
      n == (total + LongestLeg - 1) \div LongestLeg
  IN [heading |-> Heading(route[i], route[i + 1]), distance |-> total \div n, along |-> i]

\* The legs that have some distance to fly.
RealLegs == {l \in {LegOn(i) : i \in 1..(Len(route) - 1)} : l.distance \in Nat}

\* Every planned leg lies along a segment of the route.
LEMMA LegsPlanned ==
  ASSUME PlanInv, outcome = "planned"
  PROVE  PlannedLegs \in Seq(RealLegs)
<1> DEFINE N == Len(route) - 1
<1>1. /\ world \in Worlds /\ FollowsGraph /\ route \in Seq(Points) /\ route # <<>>
      /\ N \in Nat
  BY DEF PlanInv, PlanIsShortest, PlanTypeOK
<1>2. ASSUME NEW i \in 1..N PROVE Dist(route[i], route[i + 1]) \in Nat
  <2>1. PICK e \in Sees[world] : route[i] = Nodes[world][e[1]] /\ route[i + 1] = Nodes[world][e[2]]
    BY <1>1 DEF FollowsGraph
  <2>2. e[1] \in DOMAIN Nodes[world] /\ e[2] \in DOMAIN Nodes[world]
    BY <1>1, <2>1 DEF Sees, Seen
  <2>3. D(world, e[1], e[2]) \in Nat
    BY <1>1, <2>2, Distances
  <2> QED
    BY <2>1, <2>3 DEF D
<1>3. ASSUME NEW i \in 1..N PROVE Parts(i) \in Seq(RealLegs)
  <2> DEFINE total == Dist(route[i], route[i + 1])
             n == (total + LongestLeg - 1) \div LongestLeg
  <2>1. total \in Nat /\ LongestLeg \in Nat /\ LongestLeg >= 1
    BY <1>2, PlannerAssumption
  <2>2. n \in Nat
    <3> HIDE DEF total
    <3>1. \A a, b \in Nat : b >= 1 => (a + b - 1) \div b \in Nat
      OBVIOUS
    <3> QED
      BY <2>1, <3>1
  <2>3. Parts(i) = [k \in 1..n |-> LegOn(i)]
    BY DEF Parts, LegOn
  <2>5. n >= 1 => total \div n \in Nat
    <3> HIDE DEF total, n
    <3> QED
      BY <2>1, <2>2
  <2>6. LegOn(i).distance = total \div n
    BY DEF LegOn
  <2>7. n >= 1 => LegOn(i) \in RealLegs
    <3> HIDE DEF n, total
    <3> QED
      BY <2>5, <2>6 DEF RealLegs
  <2> HIDE DEF n
  <2> QED
    BY <2>2, <2>3, <2>7
<1>4. [i \in 1..N |-> Parts(i)] \in Seq(Seq(RealLegs))
  <2> HIDE DEF N
  <2> QED
    BY <1>1, <1>3
<1> QED
  BY <1>4, Flattened DEF PlannedLegs, N

\* The offset is baked into every leg.
LEMMA LegsBaked ==
  ASSUME PlanInv, outcome = "planned", route' = route, legs' = Baked(PlannedLegs)
  PROVE  LegsInv'
<1> DEFINE planned == PlannedLegs
<1>1. planned \in Seq(RealLegs) /\ Len(planned) \in Nat /\ DOMAIN planned = 1..Len(planned)
  BY LegsPlanned
<1>2. legs' = [i \in 1..Len(planned) |->
                 [planned[i] EXCEPT !.heading = Wrap(planned[i].heading + Offset)]]
  BY <1>1 DEF Baked
<1>3. ASSUME NEW i \in 1..Len(planned)
      PROVE  /\ legs'[i].along \in 1..(Len(route) - 1) /\ legs'[i].distance \in Nat
             /\ legs'[i].heading =
                  Wrap(Heading(route[legs'[i].along], route[legs'[i].along + 1]) + Offset)
  <2>1. planned[i] \in RealLegs
    BY <1>1
  <2> HIDE DEF planned
  <2>2. PICK k \in 1..(Len(route) - 1) : planned[i] = LegOn(k) /\ LegOn(k).distance \in Nat
    BY <2>1 DEF RealLegs
  <2>3. PICK d : planned[i] = [heading |-> Heading(route[k], route[k + 1]), distance |-> d,
                               along |-> k]
    BY <2>2 DEF LegOn
  <2>4. d \in Nat
    BY <2>2, <2>3
  <2>5. legs'[i] = [heading |-> Wrap(Heading(route[k], route[k + 1]) + Offset), distance |-> d,
                    along |-> k]
    BY <1>2, <2>3
  <2> QED
    BY <2>4, <2>5
<1>4. Len(legs') = Len(planned) /\ DOMAIN legs' = 1..Len(planned)
  <2> HIDE DEF planned
  <2> QED
    BY <1>1, <1>2
<1> HIDE DEF planned
<1> QED
  BY <1>1, <1>3, <1>4 DEF LegsInv, LegInv

-----------------------------------------------------------------------------
(***************************************************************************)
(* The steps of the transit.                                               *)
(***************************************************************************)
\* Where the step stops: at a leg to turn to or to fly, and all it passes
\* over round to nothing.
LEMMA StopsAt ==
  ASSUME NavInv, Ready
  PROVE  /\ Stop \in Nat /\ Resolved \in Nat /\ Resolved >= 1 /\ Resolved <= Stop
         /\ Stop <= Len(legs) + 1 /\ Len(legs) \in Nat
         /\ Stop <= Len(legs) /\ ~OffHeading(Stop) => Commanded(legs[Stop]) > 0
         /\ \A i \in Resolved..(Stop - 1) : ~(Commanded(legs[i]) > 0)
         /\ Behind = Resolved - 1
<1>1. /\ Len(legs) \in Nat /\ leg \in 1..(Len(legs) + 1)
      /\ substep = "await_move" => leg <= Len(legs)
  BY DEF NavInv, LegsInv, PlaceInv
<1>2. Resolved \in Nat /\ Resolved >= 1 /\ Resolved <= Len(legs) + 1
  BY <1>1 DEF Resolved
<1>3. Behind = Resolved - 1
  BY <1>1 DEF Behind, Resolved, Ready, Between
<1> DEFINE At == {i \in Resolved..(Len(legs) + 1) :
                    i > Len(legs) \/ OffHeading(i) \/ Commanded(legs[i]) > 0}
<1>4. At \subseteq Nat /\ Len(legs) + 1 \in At
  BY <1>1, <1>2
<1>5. PICK m \in At : \A k \in At : m <= k
  BY <1>4, Least
<1>6. Stop = CHOOSE x \in At : \A y \in At : x <= y
  BY DEF Stop, Min
<1>7. Stop \in At /\ \A y \in At : Stop <= y
  BY <1>5, <1>6
<1>8. /\ Stop \in Nat /\ Resolved <= Stop /\ Stop <= Len(legs) + 1
      /\ Stop <= Len(legs) /\ ~OffHeading(Stop) => Commanded(legs[Stop]) > 0
  BY <1>1, <1>2, <1>7
<1>9. ASSUME NEW i \in Resolved..(Stop - 1) PROVE ~(Commanded(legs[i]) > 0)
  <2>1. i \in Resolved..(Len(legs) + 1) /\ i < Stop
    BY <1>1, <1>2, <1>8
  <2>2. i \notin At
    BY <1>7, <1>8, <2>1
  <2> QED
    BY <2>1, <2>2
<1> QED
  BY <1>1, <1>2, <1>3, <1>8, <1>9

\* The turn that is wanted.
LEMMA ErrorReads ==
  ASSUME NavInv, shown # NoYaw, NEW i \in 1..Len(legs)
  PROVE  Error(i) \in -7..8
<1>1. shown \in Int /\ legs[i].along \in Int
      /\ legs[i].heading = Wrap(Heading(route[legs[i].along], route[legs[i].along + 1]) + Offset)
  BY DEF NavInv, BodyInv, LegsInv, LegInv
<1> DEFINE h == Heading(route[legs[i].along], route[legs[i].along + 1])
<1>2. h \in Int /\ Offset \in Int
  BY HeadingReads, NavigateAssumption
<1> HIDE DEF h
<1>3. h + Offset \in Int
  BY <1>2
<1>4. Wrap(h + Offset) \in Int
  BY <1>3, Wrapped
<1>5. legs[i].heading - shown \in Int
  BY <1>1, <1>4 DEF h
<1> QED
  BY <1>5, Wrapped DEF Error

\* What is flown depends on the legs, on those behind, and on the log alone.
LEMMA FlownKept ==
  ASSUME FlownInv, flown' = flown, legs' = legs, Behind' = Behind
  PROVE  FlownInv'
<1>1. \A i : Commanded(legs'[i]) = Commanded(legs[i])
  BY DEF Commanded
<1> QED
  BY <1>1 DEF FlownInv

\* The legs depend on the plan.
LEMMA LegsKept == ASSUME LegsInv, legs' = legs, route' = route PROVE LegsInv'
BY DEF LegsInv, LegInv

\* A nose is given up on after some Rotates.
LEMMA CapIsNat == RotCap \in Nat /\ RotCap >= 1
<1>1. MaxStep \in 1..8
  BY NavigateAssumption
<1>2. \A m \in 1..8 : ((16 + m - 1) \div m) + 4 \in Nat /\ ((16 + m - 1) \div m) + 4 >= 1
  OBVIOUS
<1> QED
  BY <1>1, <1>2 DEF RotCap, Circle

\* Nothing is flown before there is a plan.
LEMMA NavInitial == Init => NavInv
<1> SUFFICES ASSUME Init PROVE NavInv
  OBVIOUS
<1> USE DEF Init, NavInit
<1>1. LegsInv /\ PlannedInv
  BY DEF LegsInv, PlannedInv
<1>2. yaw \in StartYaws /\ shown = yaw /\ current = TRUE
  OBVIOUS
<1>3. BodyInv
  BY <1>2, NavigateAssumption DEF BodyInv
<1>4. Len(legs) = 0 /\ 1 \in 1..(0 + 1) /\ 0 \in 0..(RotCap + 1) /\ ~(0 > RotCap)
  BY CapIsNat
<1>5. PlaceInv
  <2> HIDE DEF Init, NavInit
  <2>1. /\ leg = 1 /\ substep = "rotate" /\ rots = 0 /\ failed = FALSE /\ late = FALSE
        /\ flight = "unplanned"
    BY DEF Init, NavInit
  <2> QED
    BY <1>4, <2>1 DEF PlaceInv
<1>6. CommandInv
  BY DEF CommandInv
<1>7. FlownInv
  <2>1. Behind = 0
    BY DEF Behind
  <2> QED
    BY <2>1 DEF FlownInv
<1> QED
  BY <1>1, <1>3, <1>5, <1>6, <1>7 DEF NavInv

\* The search does not touch the phase.
LEMMA NavSearch ==
  ASSUME NavInv, PopGoal \/ PopStale \/ PopNode \/ Walled, UNCHANGED navVars
  PROVE  NavInv'
<1>1. outcome = "planning"
  BY DEF PopGoal, PopStale, PopNode, Walled
<1>2. flight = "unplanned" /\ legs = <<>>
  BY <1>1 DEF NavInv, PlannedInv
<1>3. /\ UNCHANGED <<legs, flight, leg, substep, rots, yaw, shown, current, drifts>>
      /\ UNCHANGED <<command, failed, late, flown>>
  BY DEF navVars, legVars, bodyVars
<1>4. LegsInv'
  BY <1>2, <1>3 DEF LegsInv, NavInv
<1>5. PlannedInv' /\ BodyInv' /\ CommandInv'
  BY <1>2, <1>3 DEF NavInv, PlannedInv, BodyInv, CommandInv
<1>6. PlaceInv'
  BY <1>2, <1>3 DEF NavInv, PlaceInv, Commanded, RotCap
<1>7. FlownInv'
  BY <1>3, FlownKept DEF NavInv, Behind
<1> QED
  BY <1>4, <1>5, <1>6, <1>7 DEF NavInv

\* The phase starts with legs baked from the returned route.
LEMMA NavEnter ==
  ASSUME PlanInv, NavInv, Enter \/ Refuse
  PROVE  NavInv'
<1>1. /\ flight = "unplanned" /\ outcome = "planned" /\ outcome' = "returned" /\ route' = route
      /\ UNCHANGED <<leg, substep, rots, yaw, shown, current, drifts, command, failed, late, flown>>
      /\ \/ flight' = "flying" /\ legs' = Baked(PlannedLegs)
         \/ flight' = "refused" /\ legs' = legs
  BY DEF Enter, Refuse, PlanReturns, bodyVars
<1>2. legs = <<>> /\ leg = 1 /\ substep = "rotate" /\ command = NoCommand
  BY <1>1 DEF NavInv, PlannedInv
<1>3. LegsInv'
  BY <1>1, LegsBaked, LegsKept DEF NavInv
<1>4. PlannedInv' /\ BodyInv' /\ CommandInv'
  BY <1>1, <1>2 DEF NavInv, PlannedInv, BodyInv, CommandInv
<1>5. PlaceInv'
  <2>1. 1 \in 1..(Len(legs') + 1)
    BY <1>3 DEF LegsInv
  <2> QED
    BY <1>1, <1>2, <2>1 DEF NavInv, PlaceInv
<1>6. FlownInv'
  <2>1. Behind = 0 /\ Behind' = 0
    BY <1>1, <1>2 DEF Behind
  <2> QED
    BY <1>1, <2>1 DEF NavInv, FlownInv
<1> QED
  BY <1>3, <1>4, <1>5, <1>6 DEF NavInv

\* Giving up before the step has touched anything keeps what has been flown.
LEMMA NavGiveUp ==
  ASSUME NavInv, Between, GiveUp, UNCHANGED <<leg, substep, rots>>
  PROVE  NavInv'
<1>1. /\ flight = "flying" /\ command = NoCommand /\ flight' = "aborted"
      /\ UNCHANGED <<outcome, route, legs, leg, substep, rots, yaw, shown, current, drifts>>
      /\ UNCHANGED <<command, failed, late, flown>>
  BY DEF Between, GiveUp, bodyVars, planVars
<1>2. LegsInv'
  BY <1>1, LegsKept DEF NavInv
<1>3. PlannedInv' /\ BodyInv' /\ CommandInv'
  BY <1>1 DEF NavInv, PlannedInv, BodyInv, CommandInv
<1>4. PlaceInv'
  BY <1>1 DEF NavInv, PlaceInv, Commanded, RotCap
<1>5. FlownInv'
  BY <1>1, FlownKept DEF NavInv, Behind
<1> QED
  BY <1>2, <1>3, <1>4, <1>5 DEF NavInv

\* Passing over legs that round to nothing.
LEMMA PassedOver ==
  ASSUME NavInv, Ready
  PROVE  {i \in 1..Behind : Commanded(legs[i]) > 0} = {i \in 1..(Stop - 1) : Commanded(legs[i]) > 0}
<1>1. /\ Stop \in Nat /\ Resolved \in Nat /\ Resolved <= Stop /\ Behind = Resolved - 1
      /\ \A i \in Resolved..(Stop - 1) : ~(Commanded(legs[i]) > 0)
  BY StopsAt
<1>2. \A i \in 1..(Stop - 1) : i \in 1..Behind \/ i \in Resolved..(Stop - 1)
  BY <1>1
<1>3. \A i \in 1..Behind : i \in 1..(Stop - 1)
  BY <1>1
<1> QED
  BY <1>1, <1>2, <1>3

\* The step that turns, flies or ends, as far as it is the same.
LEMMA NavOnward ==
  ASSUME NavInv, Ready, leg' = Stop, UNCHANGED <<outcome, route, legs, yaw, shown, current>>,
         UNCHANGED <<failed, late, flown>>, Behind' = Stop - 1
  PROVE  LegsInv' /\ BodyInv' /\ FlownInv'
<1>1. LegsInv'
  BY LegsKept DEF NavInv
<1>2. BodyInv'
  BY DEF NavInv, BodyInv
<1>3. FlownInv'
  <2>1. \A i : Commanded(legs'[i]) = Commanded(legs[i])
    BY DEF Commanded
  <2> QED
    BY <2>1, PassedOver DEF NavInv, FlownInv
<1> QED
  BY <1>1, <1>2, <1>3

\* So does giving up without a yaw: the Move counted off had ended well.
LEMMA NavBlind == ASSUME NavInv, AbortBlind PROVE NavInv'
<1>1. /\ flight = "flying" /\ command = NoCommand /\ flight' = "aborted" /\ ~failed
      /\ leg' = Resolved /\ substep' = "rotate"
      /\ UNCHANGED <<outcome, route, legs, rots, yaw, shown, current, drifts>>
      /\ UNCHANGED <<command, failed, late, flown>>
  BY DEF AbortBlind, Between, GiveUp, bodyVars, planVars
<1>2. /\ leg \in 1..(Len(legs) + 1) /\ Len(legs) \in Nat
      /\ substep = "await_move" => leg <= Len(legs)
  BY DEF NavInv, PlaceInv, LegsInv
<1>3. Resolved \in 1..(Len(legs) + 1) /\ Behind = Resolved - 1
  BY <1>1, <1>2 DEF Resolved, Behind
<1>4. Behind' = Behind
  BY <1>1, <1>3 DEF Behind
<1>5. LegsInv'
  BY <1>1, LegsKept DEF NavInv
<1>6. PlannedInv' /\ BodyInv' /\ CommandInv'
  BY <1>1 DEF NavInv, PlannedInv, BodyInv, CommandInv
<1>7. PlaceInv'
  BY <1>1, <1>3 DEF NavInv, PlaceInv, RotCap
<1>8. FlownInv'
  BY <1>1, <1>4, FlownKept DEF NavInv
<1> QED
  BY <1>5, <1>6, <1>7, <1>8 DEF NavInv

\* And giving up a nose that does not settle: the legs passed over were nothing.
LEMMA NavSpinning == ASSUME NavInv, AbortSpinning PROVE NavInv'
<1>1. /\ Ready /\ Stop <= Len(legs)
      /\ leg' = Stop /\ substep' = "rotate" /\ rots' = RotCap + 1
      /\ flight = "flying" /\ command = NoCommand /\ flight' = "aborted"
      /\ UNCHANGED <<outcome, route, legs, yaw, shown, current, command, failed, late, flown>>
  BY DEF AbortSpinning, Ready, Between, GiveUp, planVars, bodyVars
<1>2. Stop \in 1..Len(legs) /\ Stop \in Nat /\ Len(legs) \in Nat
  BY <1>1, StopsAt
<1>3. Behind' = Stop - 1
  BY <1>1 DEF Behind
<1>4. LegsInv' /\ BodyInv' /\ FlownInv'
  BY <1>1, <1>3, NavOnward
<1>5. PlannedInv' /\ CommandInv'
  BY <1>1 DEF NavInv, PlannedInv, CommandInv
<1>6. PlaceInv'
  BY <1>1, <1>2, CapIsNat DEF NavInv, PlaceInv, RotCap
<1> QED
  BY <1>4, <1>5, <1>6 DEF NavInv

\* A Rotate flies nothing.
LEMMA NavTurn == ASSUME NavInv, Turn PROVE NavInv'
<1>1. /\ Ready /\ Stop <= Len(legs) /\ RotsAt(Stop) < RotCap
      /\ leg' = Stop /\ substep' = "rotate" /\ rots' = RotsAt(Stop) + 1
      /\ command' = [do |-> "rotate", by |-> Clamp(Error(Stop), -MaxStep, MaxStep)]
      /\ UNCHANGED <<outcome, route, legs, flight, yaw, shown, current, failed, late, flown>>
      /\ flight = "flying" /\ ~failed /\ shown # NoYaw
  BY DEF Turn, Ready, Between, planVars, bodyVars
<1>2. Stop \in 1..Len(legs) /\ Stop \in Nat /\ Len(legs) \in Nat
  BY <1>1, StopsAt
<1>3. Behind' = Stop - 1
  BY <1>1 DEF Behind
<1>4. LegsInv' /\ BodyInv' /\ FlownInv'
  BY <1>1, <1>3, NavOnward
<1>5. command' \in [do : {"rotate", "move"}, by : Int]
  <2>1. Error(Stop) \in Int /\ MaxStep \in Int /\ -MaxStep \in Int
    BY <1>1, <1>2, ErrorReads, NavigateAssumption
  <2>2. Clamp(Error(Stop), -MaxStep, MaxStep) \in Int
    BY <2>1 DEF Clamp
  <2> QED
    BY <1>1, <2>2
<1>6. CommandInv'
  BY <1>1, <1>5 DEF CommandInv
<1>7. PlannedInv'
  BY <1>1 DEF NavInv, PlannedInv
<1>8. PlaceInv'
  <2>1. rots \in Nat
    BY DEF NavInv, PlaceInv
  <2>2. RotsAt(Stop) \in Nat
    BY <2>1 DEF RotsAt
  <2>3. rots' \in 0..RotCap /\ RotCap \in Nat /\ leg' \in 1..(Len(legs) + 1)
    BY <1>1, <1>2, <2>2, CapIsNat
  <2> QED
    BY <1>1, <2>3 DEF NavInv, PlaceInv, RotCap
<1> QED
  BY <1>4, <1>6, <1>7, <1>8 DEF NavInv

\* A Move is for the next leg that is not nothing.
LEMMA NavFly == ASSUME NavInv, Fly PROVE NavInv'
<1>1. /\ Ready /\ Stop <= Len(legs) /\ ~OffHeading(Stop)
      /\ leg' = Stop /\ substep' = "await_move" /\ rots' = 0
      /\ command' = [do |-> "move", by |-> Commanded(legs[Stop])]
      /\ UNCHANGED <<outcome, route, legs, flight, yaw, shown, current, failed, late, flown>>
      /\ flight = "flying" /\ ~failed /\ shown # NoYaw
  BY DEF Fly, Ready, Between, planVars, bodyVars
<1>2. Stop \in 1..Len(legs) /\ Stop \in Nat /\ Len(legs) \in Nat /\ Commanded(legs[Stop]) > 0
  BY <1>1, StopsAt
<1>3. command' \in [do : {"rotate", "move"}, by : Int]
  <2>1. legs[Stop].distance \in Nat
    BY <1>2 DEF NavInv, LegsInv, LegInv
  <2>2. \A d, u \in Nat : u >= 1 => (d + (u \div 2)) \div u \in Int
    OBVIOUS
  <2>3. Unit \in Nat /\ Unit >= 1
    BY NavigateAssumption
  <2>4. Commanded(legs[Stop]) \in Int
    BY <2>1, <2>2, <2>3 DEF Commanded
  <2> QED
    BY <1>1, <2>4
<1>4. command' # NoCommand
  BY <1>3, NavigateAssumption
<1>5. Behind' = Stop - 1
  BY <1>1, <1>4 DEF Behind
<1>6. LegsInv' /\ BodyInv' /\ FlownInv'
  BY <1>1, <1>5, NavOnward
<1>7. CommandInv'
  BY <1>1, <1>3 DEF CommandInv
<1>8. PlannedInv'
  BY <1>1 DEF NavInv, PlannedInv
<1>9. PlaceInv'
  <2>1. Commanded(legs'[leg']) > 0 /\ leg' <= Len(legs') /\ leg' \in 1..(Len(legs') + 1)
    BY <1>1, <1>2 DEF Commanded
  <2> QED
    BY <1>1, <2>1, CapIsNat DEF NavInv, PlaceInv, RotCap
<1> QED
  BY <1>6, <1>7, <1>8, <1>9 DEF NavInv

\* Done has no leg left.
LEMMA NavFinish == ASSUME NavInv, Finish PROVE NavInv'
<1>1. /\ Ready /\ Stop > Len(legs)
      /\ leg' = Stop /\ substep' = "rotate" /\ rots' = 0 /\ flight' = "done"
      /\ UNCHANGED <<outcome, route, legs, yaw, shown, current, command, failed, late, flown>>
      /\ flight = "flying" /\ command = NoCommand
  BY DEF Finish, Ready, Between, planVars, bodyVars
<1>2. Stop = Len(legs) + 1 /\ Len(legs) \in Nat
  BY <1>1, StopsAt
<1>3. Behind' = Stop - 1
  BY <1>1 DEF Behind
<1>4. LegsInv' /\ BodyInv' /\ FlownInv'
  BY <1>1, <1>3, NavOnward
<1>5. CommandInv' /\ PlannedInv'
  BY <1>1 DEF NavInv, CommandInv, PlannedInv
<1>6. PlaceInv'
  BY <1>1, <1>2, CapIsNat DEF NavInv, PlaceInv, RotCap
<1> QED
  BY <1>4, <1>5, <1>6 DEF NavInv

\* A Move that ends well adds its leg to those flown.
LEMMA NavExecute == ASSUME NavInv, Execute PROVE NavInv'
<1>1. /\ command # NoCommand /\ command' = NoCommand /\ current' = FALSE
      /\ flown' = IF command.do = "move" THEN Append(flown, leg) ELSE flown
      /\ UNCHANGED <<outcome, route, legs, flight, leg, substep, rots, shown, failed, late>>
  BY DEF Execute, planVars, legVars
<1>2. PICK creep \in Creep \cup {0} :
         yaw' = Wrap(yaw + creep + IF command.do = "rotate" THEN command.by ELSE 0)
  BY DEF Execute
<1>3. /\ flight = "flying" /\ ~failed /\ command \in [do : {"rotate", "move"}, by : Int]
      /\ (command.do = "move") = (substep = "await_move")
  BY <1>1 DEF NavInv, CommandInv
<1>4. LegsInv'
  BY <1>1, LegsKept DEF NavInv
<1>5. CommandInv' /\ PlannedInv'
  BY <1>1, <1>3 DEF NavInv, CommandInv, PlannedInv
<1>6. BodyInv'
  <2>1. yaw \in Int /\ creep \in Int /\ command.by \in Int
    BY <1>3, NavigateAssumption DEF NavInv, BodyInv
  <2> DEFINE turn == IF command.do = "rotate" THEN command.by ELSE 0
  <2>2. turn \in Int
    BY <2>1
  <2> HIDE DEF turn
  <2>3. yaw + creep + turn \in Int
    BY <2>1, <2>2
  <2>4. yaw' \in -7..8
    BY <1>2, <2>3, Wrapped DEF turn
  <2> QED
    BY <1>1, <2>4 DEF NavInv, BodyInv
<1>7. PlaceInv'
  BY <1>1 DEF NavInv, PlaceInv, Commanded, RotCap
<1>8. FlownInv'
  <2>1. CASE command.do = "rotate"
    <3>1. Behind' = Behind /\ flown' = flown
      BY <1>1, <1>3, <2>1 DEF Behind
    <3> QED
      BY <1>1, <3>1, FlownKept DEF NavInv
  <2>2. CASE command.do = "move"
    <3>1. Behind = leg - 1 /\ Behind' = leg /\ flown' = Append(flown, leg)
      BY <1>1, <1>3, <2>2 DEF Behind
    <3>2. leg \in Nat /\ leg >= 1 /\ Commanded(legs[leg]) > 0
      BY <1>3, <2>2 DEF NavInv, PlaceInv
    <3>3. /\ flown \in Seq(Nat) /\ \A j, k \in DOMAIN flown : j < k => flown[j] < flown[k]
          /\ {flown[k] : k \in DOMAIN flown} = {i \in 1..(leg - 1) : Commanded(legs[i]) > 0}
      BY <3>1 DEF NavInv, FlownInv
    <3>4. \A k \in DOMAIN flown : flown[k] < leg
      <4>1. ASSUME NEW k \in DOMAIN flown PROVE flown[k] < leg
        <5>1. flown[k] \in 1..(leg - 1)
          BY <3>3
        <5> QED
          BY <3>2, <5>1
      <4> QED
        BY <4>1
    <3>5. /\ Len(flown) \in Nat /\ DOMAIN flown = 1..Len(flown)
          /\ flown' \in Seq(Nat) /\ DOMAIN flown' = 1..(Len(flown) + 1)
          /\ \A k \in 1..Len(flown) : flown'[k] = flown[k]
          /\ flown'[Len(flown) + 1] = leg
      BY <3>1, <3>2, <3>3
    <3>6. ASSUME NEW j \in DOMAIN flown', NEW k \in DOMAIN flown', j < k
          PROVE  flown'[j] < flown'[k]
      <4>1. j \in 1..Len(flown) /\ flown'[j] = flown[j]
        BY <3>5, <3>6
      <4>2. CASE k \in 1..Len(flown)
        BY <3>3, <3>5, <3>6, <4>1, <4>2
      <4>3. CASE k = Len(flown) + 1
        BY <3>4, <3>5, <4>1, <4>3
      <4> QED
        BY <3>5, <4>2, <4>3
    <3>7. {flown'[k] : k \in DOMAIN flown'} = {flown[k] : k \in DOMAIN flown} \cup {leg}
      BY <3>5
    <3>8. {i \in 1..leg : Commanded(legs[i]) > 0}
             = {i \in 1..(leg - 1) : Commanded(legs[i]) > 0} \cup {leg}
      BY <3>2
    <3>9. {flown'[k] : k \in DOMAIN flown'} = {i \in 1..leg : Commanded(legs[i]) > 0}
      BY <3>3, <3>7, <3>8
    <3>10. {flown'[k] : k \in DOMAIN flown'} = {i \in 1..Behind' : Commanded(legs'[i]) > 0}
      BY <1>1, <3>1, <3>9 DEF Commanded
    <3> QED
      BY <3>5, <3>6, <3>10 DEF FlownInv
  <2> QED
    BY <1>3, <2>1, <2>2
<1> QED
  BY <1>4, <1>5, <1>6, <1>7, <1>8 DEF NavInv

\* Failure, the poller and the budget leave the legs alone.
LEMMA NavOutside == ASSUME NavInv, ExecuteBadly \/ Poll \/ RunLate PROVE NavInv'
<1>1. /\ UNCHANGED <<outcome, route, legs, flight, leg, substep, rots, yaw, flown>>
      /\ flight = "flying"
      /\ \/ /\ command # NoCommand /\ command' = NoCommand /\ failed' = TRUE
            /\ UNCHANGED <<shown, current, late>>
         \/ /\ shown' \in {yaw, NoYaw} /\ UNCHANGED <<command, failed, late>>
         \/ late' = TRUE /\ UNCHANGED <<command, failed, shown, current>>
  BY DEF ExecuteBadly, Poll, RunLate, planVars, legVars, bodyVars, NavInv, CommandInv
<1>2. LegsInv'
  BY <1>1, LegsKept DEF NavInv
<1>3. CommandInv' /\ PlannedInv' /\ BodyInv'
  BY <1>1 DEF NavInv, CommandInv, PlannedInv, BodyInv
<1>4. PlaceInv'
  BY <1>1 DEF NavInv, PlaceInv, Commanded, RotCap
<1>5. Behind' = Behind
  BY <1>1 DEF Behind
<1>6. FlownInv'
  BY <1>1, <1>5, FlownKept DEF NavInv
<1> QED
  BY <1>2, <1>3, <1>4, <1>6 DEF NavInv

\* The transit's invariant is about its variables alone.
LEMMA NavKept == ASSUME NavInv, UNCHANGED vars PROVE NavInv'
<1>1. /\ UNCHANGED <<outcome, route, legs, flight, leg, substep, rots, yaw, shown, current>>
      /\ UNCHANGED <<command, failed, late, flown>>
  BY DEF vars, planVars, navVars, legVars, bodyVars
<1>2. LegsInv'
  BY <1>1, LegsKept DEF NavInv
<1>3. CommandInv' /\ PlannedInv' /\ BodyInv'
  BY <1>1 DEF NavInv, CommandInv, PlannedInv, BodyInv
<1>4. PlaceInv'
  BY <1>1 DEF NavInv, PlaceInv, Commanded, RotCap
<1>5. FlownInv'
  BY <1>1, FlownKept DEF NavInv, Behind
<1> QED
  BY <1>2, <1>3, <1>4, <1>5 DEF NavInv

\* The transit keeps its invariant.
THEOREM NavInvariant == Spec => [](PlanInv /\ NavInv)
<1>1. Init => NavInv
  BY NavInitial
<1>2. PlanInv /\ NavInv /\ [Next]_vars => NavInv'
  <2> SUFFICES ASSUME PlanInv, NavInv, [Next]_vars PROVE NavInv'
    OBVIOUS
  <2>1. CASE Search
    BY <2>1, NavSearch DEF Search
  <2>2. CASE Enter \/ Refuse
    BY <2>2, NavEnter
  <2>3. CASE AbortFailed \/ AbortLate \/ AbortBlind \/ AbortSpinning
    BY <2>3, NavGiveUp, NavBlind, NavSpinning DEF AbortFailed, AbortLate
  <2>4. CASE Turn \/ Fly \/ Finish
    BY <2>4, NavTurn, NavFly, NavFinish
  <2>5. CASE Execute
    BY <2>5, NavExecute
  <2>6. CASE ExecuteBadly \/ Poll \/ RunLate
    BY <2>6, NavOutside
  <2>7. CASE UNCHANGED vars
    BY <2>7, NavKept
  <2> QED
    BY <2>1, <2>2, <2>3, <2>4, <2>5, <2>6, <2>7 DEF Next, NavNext, StepNav
<1> QED
  BY <1>1, <1>2, PlanInvariant, PTL DEF Spec

-----------------------------------------------------------------------------
(***************************************************************************)
(* What the transit promises.                                              *)
(***************************************************************************)
\* Every variable of the planner and of the phase stays in its range.
THEOREM TransitTypes == Spec => []TypeOK
<1>1. PlanInv /\ NavInv => TypeOK
  <2> SUFFICES ASSUME PlanInv, NavInv PROVE TypeOK
    OBVIOUS
  <2>1. PlanTypeOK
    BY DEF PlanInv
  <2>2. /\ flight \in {"unplanned", "refused", "flying", "done", "aborted"}
        /\ yaw \in -7..8
    BY DEF NavInv, PlannedInv, BodyInv
  <2>3. /\ leg \in 1..(Len(legs) + 1) /\ substep \in {"rotate", "await_move"}
        /\ rots \in 0..(RotCap + 1) /\ (rots > RotCap => flight = "aborted")
        /\ failed \in BOOLEAN /\ late \in BOOLEAN
    BY DEF NavInv, PlaceInv
  <2>4. command # NoCommand => (command.do = "move") = (substep = "await_move")
    BY DEF NavInv, CommandInv
  <2> QED
    BY <2>1, <2>2, <2>3, <2>4 DEF TypeOK
<1> QED
  BY <1>1, NavInvariant, PTL

\* The legs flown follow the polyline, whatever fails and whenever: none is
\* flown twice, none passed over that has any distance to it, and a transit
\* that reports Done has flown them all.
THEOREM FlownInOrder == Spec => []RouteFlownInOrder
<1>1. NavInv => RouteFlownInOrder
  <2> SUFFICES ASSUME NavInv PROVE RouteFlownInOrder
    OBVIOUS
  <2>1. /\ Len(legs) \in Nat /\ leg \in 1..(Len(legs) + 1)
        /\ substep = "await_move" => leg <= Len(legs)
        /\ flight = "done" => leg = Len(legs) + 1
    BY DEF NavInv, LegsInv, PlaceInv
  <2>2. Behind \in 0..Len(legs) /\ (flight = "done" => Behind = Len(legs))
    BY <2>1 DEF Behind
  <2> QED
    BY <2>2 DEF NavInv, FlownInv, RouteFlownInOrder
<1> QED
  BY <1>1, NavInvariant, PTL

\* A Move is commanded only with the nose on the leg's heading in the arena,
\* if the compass has been read since the last command ended.
THEOREM NoseIsOnLeg == Spec => NoseOnLeg
<1> DEFINE Act ==
      (command = NoCommand /\ command' # NoCommand /\ substep' = "await_move" /\ current) =>
        LET i == legs[leg'].along
        IN AbsOf(Wrap(Heading(route[i], route[i + 1]) - (yaw - Offset))) <= Tol
<1>1. PlanInv /\ NavInv /\ [Next]_vars => [Act]_vars
  <2> SUFFICES ASSUME NavInv, Next, command = NoCommand, command' # NoCommand,
                      substep' = "await_move", current
               PROVE  LET i == legs[leg'].along
                      IN AbsOf(Wrap(Heading(route[i], route[i + 1]) - (yaw - Offset))) <= Tol
    OBVIOUS
  <2>1. Fly
    BY DEF Next, Search, Enter, Refuse, NavNext, StepNav, AbortFailed, AbortLate, AbortBlind,
           AbortSpinning, GiveUp, Turn, Fly, Finish, Execute, ExecuteBadly, Poll, RunLate,
           navVars
  <2>2. /\ Ready /\ Stop <= Len(legs) /\ ~OffHeading(Stop) /\ leg' = Stop /\ shown # NoYaw
    BY <2>1 DEF Fly, Ready
  <2>3. Stop \in 1..Len(legs)
    BY <2>2, StopsAt
  <2>4. shown = yaw /\ yaw \in Int
    BY <2>2 DEF NavInv, BodyInv
  <2> DEFINE i == legs[Stop].along
             h == Heading(route[i], route[i + 1])
  <2>5. h \in Int /\ legs[Stop].heading = Wrap(h + Offset)
    <3>1. LegInv(legs[Stop])
      BY <2>3 DEF NavInv, LegsInv
    <3>2. h \in 0..15
      BY HeadingReads
    <3> QED
      BY <3>1, <3>2 DEF LegInv
  <2>6. Error(Stop) = Wrap(Wrap(h + Offset) - yaw)
    BY <2>4, <2>5 DEF Error
  <2>7. Error(Stop) = Wrap(h - (yaw - Offset))
    <3> HIDE DEF h
    <3> QED
      BY <2>4, <2>5, <2>6, OffsetCancels
  <2>8. Error(Stop) \in -7..8
    BY <2>2, <2>3, ErrorReads
  <2>9. AbsOf(Error(Stop)) <= Tol
    BY <2>2, <2>8, NavigateAssumption DEF OffHeading, AbsOf
  <2> QED
    BY <2>2, <2>7, <2>9
<1> QED
  BY <1>1, NavInvariant, PTL DEF Spec, NoseOnLeg

==============================================================================
