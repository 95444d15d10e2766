---------------------------- MODULE RegionProofs ----------------------------
(***************************************************************************)
(* Proofs about Region, for a screen and regions of any size: in every     *)
(* round of region_operation the new region is exact down to where the     *)
(* sweep is, the end is the banded list of just the points it should have, *)
(* the array never overflows, and the extents fit.                         *)
(*                                                                         *)
(* That a result is *the* banded list of its points goes by a local form   *)
(* of it, Regular: boxes in bands, none of which is like the row above.    *)
(* RegularIsBanded says that a regular list is the banded list of its      *)
(* points, BandedIsRegular that the operands are regular.  Then            *)
(*   - AddBandIs: a band that is added below a regular list, and merged    *)
(*     with the one before it if they are alike, leaves a regular list;    *)
(*   - SubtractIs, IntersectIs: the loops over the rectangles of two bands *)
(*     leave one band, with the columns it should have.  They are loops    *)
(*     whose rounds lead on (WrittenFromIs);                               *)
(*   - RegionInv, the inductive invariant: Sweep says where the cursors    *)
(*     are, Collected that the new region has the points of the result     *)
(*     above overlap_bot.                                                  *)
(***************************************************************************)
EXTENDS Region, DrawingProofs

-----------------------------------------------------------------------------
(* Lists of boxes that are in bands.                                        *)

\* q is later than p: further to the right in the same band, or in a lower one.
Follows(p, q) ==
  \/ p.top = q.top /\ p.bottom = q.bottom /\ p.right < q.left
  \/ p.bottom <= q.top

\* The boxes are not empty and come in the order of Follows.
InBands(L) ==
  /\ L \in Seq(Boxes)
  /\ \A i \in DOMAIN L : L[i].left < L[i].right /\ L[i].top < L[i].bottom
  /\ \A i, j \in DOMAIN L : i < j => Follows(L[i], L[j])

\* Bands that touch differ.
Apart(L) == \A i \in DOMAIN L : RowOf(Points(L), L[i].top - 1) # RowOf(Points(L), L[i].top)

\* In bands, and no band could be merged with the row above it: what every list
\* that region_operation leaves is like.
Regular(L) == InBands(L) /\ Apart(L)

\* The edges of a box are numbers on the screen.
LEMMA BoxIs ==
  ASSUME NEW r \in Boxes
  PROVE  /\ r.left \in Nat /\ r.right \in Nat /\ r.top \in Nat /\ r.bottom \in Nat
         /\ r.left <= Columns /\ r.right <= Columns /\ r.top <= Rows /\ r.bottom <= Rows
         /\ r = Box(r.left, r.top, r.right, r.bottom)
  BY SizeAssumption DEF Boxes, Box

\* When a point is in a box.
LEMMA InBox ==
  ASSUME NEW r \in Boxes, NEW p
  PROVE  p \in PointsIn(r) <=> /\ p \in Pairs
                               /\ r.left <= p[1] /\ p[1] < r.right
                               /\ r.top <= p[2] /\ p[2] < r.bottom
<1>1. r.left \in Int /\ r.right \in Int /\ r.top \in Int /\ r.bottom \in Int
  BY BoxIs
<1>2. QED
  BY <1>1 DEF PointsIn, Pairs

\* What a box of a list in bands is.
LEMMA ListIs ==
  ASSUME NEW L, InBands(L), NEW i \in DOMAIN L
  PROVE  /\ Len(L) \in Nat /\ DOMAIN L = 1..Len(L) /\ i \in Nat /\ 1 <= i /\ i <= Len(L)
         /\ L[i] \in Boxes
         /\ L[i].left \in Nat /\ L[i].right \in Nat /\ L[i].top \in Nat /\ L[i].bottom \in Nat
         /\ L[i].left <= Columns /\ L[i].right <= Columns
         /\ L[i].top <= Rows /\ L[i].bottom <= Rows
         /\ L[i].left < L[i].right /\ L[i].top < L[i].bottom
<1>1. L \in Seq(Boxes)
  BY DEF InBands
<1>2. Len(L) \in Nat /\ DOMAIN L = 1..Len(L) /\ L[i] \in Boxes
  BY <1>1
<1>3. L[i].left < L[i].right /\ L[i].top < L[i].bottom
  BY DEF InBands
<1>4. QED
  BY <1>2, <1>3, BoxIs

\* When a point is in a list of boxes.
LEMMA InPoints ==
  ASSUME NEW L, L \in Seq(Boxes), NEW x, NEW y
  PROVE  <<x, y>> \in Points(L) <=>
           /\ x \in Int /\ y \in Int
           /\ \E i \in DOMAIN L : /\ L[i].left <= x /\ x < L[i].right
                                  /\ L[i].top <= y /\ y < L[i].bottom
<1>1. \A i \in DOMAIN L : L[i] \in Boxes
  OBVIOUS
<1>2. \A i \in DOMAIN L :
        <<x, y>> \in PointsIn(L[i]) <=> /\ x \in Int /\ y \in Int
                                        /\ L[i].left <= x /\ x < L[i].right
                                        /\ L[i].top <= y /\ y < L[i].bottom
  BY <1>1, InBox DEF Pairs
<1>3. <<x, y>> \in Points(L) <=> \E i \in DOMAIN L : <<x, y>> \in PointsIn(L[i])
  BY DEF Points
<1>4. QED
  BY <1>2, <1>3

\* The points of a list are pairs on the screen.
LEMMA PointsAre ==
  ASSUME NEW L, L \in Seq(Boxes)
  PROVE  Points(L) \subseteq (0..(Columns - 1)) \X (0..(Rows - 1))
<1>1. SUFFICES ASSUME NEW i \in DOMAIN L
               PROVE  PointsIn(L[i]) \subseteq (0..(Columns - 1)) \X (0..(Rows - 1))
  BY DEF Points
<1>2. L[i] \in Boxes
  OBVIOUS
<1> DEFINE r == L[i]
<1>3. /\ r.left \in Nat /\ r.right \in Nat /\ r.top \in Nat /\ r.bottom \in Nat
      /\ r.left <= Columns /\ r.right <= Columns /\ r.top <= Rows /\ r.bottom <= Rows
  BY <1>2, BoxIs
<1>4. \A p \in PointsIn(r) : /\ p \in Pairs
                              /\ r.left <= p[1] /\ p[1] < r.right
                              /\ r.top <= p[2] /\ p[2] < r.bottom
  BY <1>2, InBox
<1> HIDE DEF r
<1>5. \A p \in PointsIn(r) : p \in (0..(Columns - 1)) \X (0..(Rows - 1))
  BY <1>3, <1>4, SizeAssumption DEF Pairs
<1>6. QED
  BY <1>5 DEF r

\* When a column is in a row of a list of boxes.
LEMMA InRow ==
  ASSUME NEW L, L \in Seq(Boxes), NEW y \in Int, NEW x
  PROVE  x \in RowOf(Points(L), y) <=>
           /\ x \in Int
           /\ \E i \in DOMAIN L : /\ L[i].left <= x /\ x < L[i].right
                                  /\ L[i].top <= y /\ y < L[i].bottom
<1>1. x \in RowOf(Points(L), y) <=> <<x, y>> \in Points(L)
  BY PointsAre DEF RowOf
<1>2. QED
  BY <1>1, InPoints

\* Two boxes with a row in common are in the same band.
LEMMA SameBand ==
  ASSUME NEW L, InBands(L), NEW i \in DOMAIN L, NEW j \in DOMAIN L, NEW y \in Int,
         L[i].top <= y, y < L[i].bottom, L[j].top <= y, y < L[j].bottom
  PROVE  L[i].top = L[j].top /\ L[i].bottom = L[j].bottom
<1>1. i \in Nat /\ j \in Nat
  BY ListIs
<1>2. \A k \in DOMAIN L : L[k].top \in Int /\ L[k].bottom \in Int
  BY ListIs
<1>3. CASE i < j
  BY <1>1, <1>2, <1>3 DEF InBands, Follows
<1>4. CASE j < i
  BY <1>1, <1>2, <1>4 DEF InBands, Follows
<1>5. CASE i = j
  BY <1>5
<1>6. QED
  BY <1>1, <1>3, <1>4, <1>5

\* All rows of a band are alike.
LEMMA RowsAlike ==
  ASSUME NEW L, InBands(L), NEW i \in DOMAIN L, NEW y \in L[i].top .. (L[i].bottom - 1)
  PROVE  RowOf(Points(L), y) = RowOf(Points(L), L[i].top)
<1> DEFINE t == L[i].top
           b == L[i].bottom
<1>1. t \in Int /\ b \in Int /\ t < b /\ y \in Int /\ t <= y /\ y < b /\ L \in Seq(Boxes)
  BY ListIs DEF InBands
<1>2. \A j \in DOMAIN L : L[j].top \in Int /\ L[j].bottom \in Int /\ L[j].top < L[j].bottom
  BY ListIs
<1>3. \A j \in DOMAIN L : L[j].top <= y /\ y < L[j].bottom => L[j].top = t /\ L[j].bottom = b
  <2> TAKE j \in DOMAIN L
  <2> HAVE L[j].top <= y /\ y < L[j].bottom
  <2>1. QED
    BY <1>1, SameBand
<1>4. \A j \in DOMAIN L : L[j].top <= t /\ t < L[j].bottom => L[j].top = t /\ L[j].bottom = b
  <2> TAKE j \in DOMAIN L
  <2> HAVE L[j].top <= t /\ t < L[j].bottom
  <2>1. QED
    BY <1>1, SameBand
<1>5. \A j \in DOMAIN L : L[j].top <= y /\ y < L[j].bottom <=> L[j].top <= t /\ t < L[j].bottom
  BY <1>1, <1>3, <1>4
<1> HIDE DEF t, b
<1>6. \A x : x \in RowOf(Points(L), y) <=> x \in RowOf(Points(L), t)
  BY <1>1, <1>5, InRow
<1>7. QED
  BY <1>6 DEF t, RowOf

\* Two boxes of the banded form that share a point are the same.
LEMMA SharedPoint ==
  ASSUME NEW S, NEW p \in BandedSet(S), NEW q \in BandedSet(S), NEW z,
         z \in PointsIn(p), z \in PointsIn(q)
  PROVE  p = q
<1>1. p \in Boxes /\ q \in Boxes
  BY BandedBox
<1>2. \A r, s \in BandedSet(S) : z \in PointsIn(r) /\ z \in PointsIn(s) => ~ (r.top < s.top)
  <2> SUFFICES ASSUME NEW r \in BandedSet(S), NEW s \in BandedSet(S),
                      z \in PointsIn(r), z \in PointsIn(s), r.top < s.top
               PROVE  FALSE
    OBVIOUS
  <2>1. r \in Boxes /\ s \in Boxes
    BY BandedBox
  <2>2. s.top \in r.top .. (r.bottom - 1) /\ s.top - 1 \in r.top .. (r.bottom - 1)
    BY <2>1, BoxIs, InBox DEF Pairs
  <2>3. RowOf(S, s.top) = RowOf(S, r.top)
    BY <2>2, BandedBox
  <2>4. RowOf(S, s.top - 1) = RowOf(S, r.top)
    <3>1. \A y \in r.top .. (r.bottom - 1) : RowOf(S, y) = RowOf(S, r.top)
      BY BandedBox
    <3>2. QED
      BY ONLY <2>2, <3>1
  <2>5. RowOf(S, s.top - 1) # RowOf(S, s.top)
    BY ONLY s \in BandedSet(S), BandedBox
  <2>6. QED
    BY ONLY <2>3, <2>4, <2>5
<1>3. p.top = q.top
  <2>1. ~ (p.top < q.top) /\ ~ (q.top < p.top)
    BY <1>2
  <2>2. QED
    BY <1>1, <2>1, BoxIs
<1>4. \A r, s \in BandedSet(S) : r.top = s.top => ~ (r.bottom < s.bottom)
  <2> SUFFICES ASSUME NEW r \in BandedSet(S), NEW s \in BandedSet(S),
                      r.top = s.top, r.bottom < s.bottom
               PROVE  FALSE
    OBVIOUS
  <2>1. r \in Boxes /\ s \in Boxes /\ r.top < r.bottom
    BY BandedBox
  <2>2. r.bottom \in s.top .. (s.bottom - 1)
    BY <2>1, BoxIs
  <2>3. RowOf(S, r.bottom) = RowOf(S, s.top) /\ RowOf(S, r.bottom) # RowOf(S, r.top)
    BY <2>2, BandedBox
  <2>4. QED
    BY <2>3
<1>5. \A r, s \in BandedSet(S) :
        r.top = s.top /\ z \in PointsIn(r) /\ z \in PointsIn(s)
          => ~ (r.left < s.left) /\ ~ (r.right < s.right)
  <2> SUFFICES ASSUME NEW r \in BandedSet(S), NEW s \in BandedSet(S),
                      r.top = s.top, z \in PointsIn(r), z \in PointsIn(s)
               PROVE  ~ (r.left < s.left) /\ ~ (r.right < s.right)
    OBVIOUS
  <2>1. /\ r \in Boxes /\ r.top < r.bottom /\ s \in Boxes /\ s.top < s.bottom
        /\ PointsIn(r) \subseteq S /\ PointsIn(s) \subseteq S
        /\ <<s.left - 1, s.top>> \notin S /\ <<r.right, r.top>> \notin S
    BY BandedBox
  <2>2. /\ z \in Pairs
        /\ r.left <= z[1] /\ z[1] < r.right /\ s.left <= z[1] /\ z[1] < s.right
    BY <2>1, InBox
  <2>3. /\ r.left \in Int /\ r.right \in Int /\ r.top \in Int /\ r.bottom \in Int
        /\ s.left \in Int /\ s.right \in Int /\ s.top \in Int /\ s.bottom \in Int
        /\ z[1] \in Int
    BY <2>1, <2>2, BoxIs DEF Pairs
  <2>4. r.left < s.left => <<s.left - 1, s.top>> \in PointsIn(r)
    BY <2>1, <2>2, <2>3 DEF PointsIn
  <2>5. r.right < s.right => <<r.right, r.top>> \in PointsIn(s)
    BY <2>1, <2>2, <2>3 DEF PointsIn
  <2>6. QED
    BY <2>1, <2>4, <2>5
<1>6. /\ ~ (p.bottom < q.bottom) /\ ~ (q.bottom < p.bottom)
      /\ ~ (p.left < q.left) /\ ~ (q.left < p.left)
      /\ ~ (p.right < q.right) /\ ~ (q.right < p.right)
  BY <1>3, <1>4, <1>5
<1>7. p.bottom = q.bottom /\ p.left = q.left /\ p.right = q.right
  BY <1>1, <1>6, BoxIs
<1>8. QED
  BY <1>1, <1>3, <1>7, BoxIs

-----------------------------------------------------------------------------
(* The banded form of a set of points is the only regular list of it.     *)

\* What is before r in the banded form of S.
Sooner(S, r) == {q \in BandedSet(S) : Before(q, r)}

\* What is later in the banded form has more boxes before it.
LEMMA RanksIncrease ==
  ASSUME NEW S, NEW p \in BandedSet(S), NEW q \in BandedSet(S), Before(p, q)
  PROVE  /\ Cardinality(Sooner(S, p)) \in Nat /\ Cardinality(Sooner(S, q)) \in Nat
         /\ Cardinality(Sooner(S, p)) < Cardinality(Sooner(S, q))
<1> DEFINE A == Sooner(S, p)
           B == Sooner(S, q)
<1>1. IsFiniteSet(BandedSet(S)) /\ BandedSet(S) \subseteq Boxes
  BY BandedSetIsFinite
<1>2. \A r \in BandedSet(S) : r.top \in Int /\ r.left \in Int
  BY <1>1, BoxIs
<1>3. \A r \in BandedSet(S) : Before(r, p) => Before(r, q)
  BY <1>2 DEF Before
<1>4. ~ Before(p, p)
  BY <1>2 DEF Before
<1>5. A \subseteq B /\ p \in B /\ p \notin A /\ B \subseteq BandedSet(S)
  BY <1>3, <1>4 DEF Sooner
<1> HIDE DEF A, B
<1>6. IsFiniteSet(B)
  BY <1>1, <1>5, FS_Subset
<1>7. IsFiniteSet(A) /\ Cardinality(A) <= Cardinality(B) /\ (Cardinality(B) = Cardinality(A) => B = A)
  BY <1>5, <1>6, FS_Subset
<1>8. Cardinality(A) \in Nat /\ Cardinality(B) \in Nat
  BY <1>6, <1>7, FS_CardinalityType
<1>9. Cardinality(A) < Cardinality(B)
  BY <1>5, <1>7, <1>8
<1>10. QED
  BY <1>8, <1>9 DEF A, B

\* There is one box of each rank.
LEMMA RankTells ==
  ASSUME NEW S, NEW p \in BandedSet(S), NEW q \in BandedSet(S),
         Cardinality(Sooner(S, p)) = Cardinality(Sooner(S, q))
  PROVE  p = q
<1>1. SUFFICES ASSUME p # q PROVE FALSE
  OBVIOUS
<1>2. Before(p, q) \/ Before(q, p)
  BY <1>1, OneIsBefore
<1>3. ASSUME Before(p, q) PROVE FALSE
  BY <1>3, RanksIncrease
<1>4. ASSUME Before(q, p) PROVE FALSE
  BY <1>4, RanksIncrease
<1>5. QED
  BY <1>2, <1>3, <1>4

\* The banded list has what is of the banded form, each at its rank.
LEMMA BandedIs ==
  ASSUME NEW S
  PROVE  /\ Banded(S) \in Seq(Boxes)
         /\ Len(Banded(S)) = Cardinality(BandedSet(S))
         /\ \A i \in DOMAIN Banded(S) : /\ Banded(S)[i] \in BandedSet(S)
                                        /\ Cardinality(Sooner(S, Banded(S)[i])) = i - 1
<1> DEFINE N == Cardinality(BandedSet(S))
           At(i) == CHOOSE r \in BandedSet(S) : Cardinality({q \in BandedSet(S) : Before(q, r)}) = i - 1
<1>1. IsFiniteSet(BandedSet(S)) /\ N \in Nat
  BY BandedSetIsFinite, FS_CardinalityType
<1>2. Banded(S) = [i \in 1..N |-> At(i)]
  BY DEF Banded
<1>3. \A i \in 1..N : At(i) \in BandedSet(S) /\ Cardinality({q \in BandedSet(S) : Before(q, At(i))}) = i - 1
  BY BandedRanks
<1>4. \A i \in 1..N : At(i) \in BandedSet(S) /\ Cardinality(Sooner(S, At(i))) = i - 1
  BY <1>3 DEF Sooner
<1> HIDE DEF At, N
<1>5. DOMAIN Banded(S) = 1..N /\ \A i \in 1..N : Banded(S)[i] = At(i)
  BY <1>2
<1>6. Banded(S) \in Seq(Boxes)
  BY BandedLists
<1>7. Len(Banded(S)) = N
  BY <1>1, <1>5, <1>6
<1>8. QED
  BY <1>4, <1>5, <1>6, <1>7 DEF N

\* Every box of the banded form is listed.
LEMMA BandedHasAll ==
  ASSUME NEW S, NEW r \in BandedSet(S)
  PROVE  \E i \in DOMAIN Banded(S) : Banded(S)[i] = r
<1> DEFINE N == Cardinality(BandedSet(S))
           A == Sooner(S, r)
           k == Cardinality(A)
<1>1. IsFiniteSet(BandedSet(S)) /\ N \in Nat /\ BandedSet(S) \subseteq Boxes
  BY BandedSetIsFinite, FS_CardinalityType
<1>2. ~ Before(r, r)
  BY <1>1, BoxIs DEF Before
<1>3. A \subseteq BandedSet(S) /\ A # BandedSet(S)
  BY <1>2 DEF Sooner
<1>4. k \in Nat /\ k < N
  <2> HIDE DEF A
  <2>1. IsFiniteSet(A) /\ k <= N /\ (N = k => BandedSet(S) = A)
    BY <1>1, <1>3, FS_Subset
  <2>2. k \in Nat
    BY <2>1, FS_CardinalityType
  <2>3. QED
    BY <1>1, <1>3, <2>1, <2>2
<1>5. DOMAIN Banded(S) = 1..N
  BY BandedIs
<1> HIDE DEF N, k
<1>6. k + 1 \in DOMAIN Banded(S)
  BY <1>1, <1>4, <1>5
<1>7. /\ Banded(S)[k + 1] \in BandedSet(S)
      /\ Cardinality(Sooner(S, Banded(S)[k + 1])) = (k + 1) - 1
  BY <1>6, BandedIs
<1>8. (k + 1) - 1 = Cardinality(Sooner(S, r))
  BY <1>4 DEF k
<1>9. Banded(S)[k + 1] = r
  BY <1>7, <1>8, RankTells
<1>10. QED
  BY <1>6, <1>9

\* The banded form is in bands.
LEMMA BandedFollow ==
  ASSUME NEW S, NEW p \in BandedSet(S), NEW q \in BandedSet(S), Before(p, q)
  PROVE  Follows(p, q)
<1>1. /\ p \in Boxes /\ p.left < p.right /\ p.top < p.bottom
      /\ PointsIn(p) \subseteq S /\ <<p.right, p.top>> \notin S
  BY BandedBox
<1>2. /\ q \in Boxes /\ q.left < q.right /\ q.top < q.bottom
      /\ PointsIn(q) \subseteq S /\ <<q.left - 1, q.top>> \notin S
  BY BandedBox
<1>3. /\ p.left \in Int /\ p.right \in Int /\ p.top \in Int /\ p.bottom \in Int
      /\ q.left \in Int /\ q.right \in Int /\ q.top \in Int /\ q.bottom \in Int
  BY <1>1, <1>2, BoxIs
<1>4. CASE p.top < q.top
  <2>1. SUFFICES ASSUME q.top < p.bottom PROVE FALSE
    BY <1>3 DEF Follows
  <2>2. q.top \in p.top .. (p.bottom - 1) /\ q.top - 1 \in p.top .. (p.bottom - 1)
    BY <1>3, <1>4, <2>1
  <2>3. \A y \in p.top .. (p.bottom - 1) : RowOf(S, y) = RowOf(S, p.top)
    BY BandedBox
  <2>4. RowOf(S, q.top) = RowOf(S, p.top) /\ RowOf(S, q.top - 1) = RowOf(S, p.top)
    BY ONLY <2>2, <2>3
  <2>5. RowOf(S, q.top - 1) # RowOf(S, q.top)
    BY ONLY q \in BandedSet(S), BandedBox
  <2>6. QED
    BY <2>4, <2>5
<1>5. CASE p.top = q.top /\ p.left < q.left
  <2>1. \A r, s \in BandedSet(S) : r.top = s.top => ~ (r.bottom < s.bottom)
    <3> SUFFICES ASSUME NEW r \in BandedSet(S), NEW s \in BandedSet(S),
                        r.top = s.top, r.bottom < s.bottom
                 PROVE  FALSE
      OBVIOUS
    <3>1. r \in Boxes /\ s \in Boxes /\ r.top < r.bottom
      BY BandedBox
    <3>2. r.bottom \in s.top .. (s.bottom - 1)
      BY <3>1, BoxIs
    <3>3. RowOf(S, r.bottom) = RowOf(S, s.top) /\ RowOf(S, r.bottom) # RowOf(S, r.top)
      BY <3>2, BandedBox
    <3>4. QED
      BY <3>3
  <2>2. ~ (p.bottom < q.bottom) /\ ~ (q.bottom < p.bottom)
    BY <1>5, <2>1
  <2>3. p.bottom = q.bottom
    BY <1>3, <2>2
  <2>4. p.right < q.left
    <3>1. SUFFICES ASSUME q.left <= p.right PROVE FALSE
      BY <1>3
    <3>2. CASE q.right <= p.right
      <4>1. <<q.left - 1, q.top>> \in PointsIn(p)
        BY <1>1, <1>2, <1>3, <1>5, <3>2 DEF PointsIn
      <4>2. QED
        BY <1>1, <1>2, <4>1
    <3>3. CASE p.right < q.right
      <4>1. <<p.right, p.top>> \in PointsIn(q)
        BY <1>1, <1>2, <1>3, <1>5, <3>1, <3>3 DEF PointsIn
      <4>2. QED
        BY <1>1, <1>2, <4>1
    <3>4. QED
      BY <1>3, <3>2, <3>3
  <2>5. QED
    BY <1>5, <2>3, <2>4 DEF Follows
<1>6. QED
  BY <1>4, <1>5 DEF Before

\* The widest and highest box of equal rows around a point.
LEMMA BandedCovers ==
  ASSUME NEW S, S \subseteq (0..(Columns - 1)) \X (0..(Rows - 1)), NEW z \in S
  PROVE  \E r \in BandedSet(S) : z \in PointsIn(r)
<1> DEFINE x == z[1]
           y == z[2]
<1>1. /\ z = <<x, y>> /\ x \in Int /\ y \in Int /\ 0 <= x /\ x < Columns /\ 0 <= y /\ y < Rows
      /\ Columns \in Nat /\ Rows \in Nat
  BY SizeAssumption
<1>2. \A u, v : <<u, v>> \in S => u \in 0..(Columns - 1) /\ v \in 0..(Rows - 1)
  OBVIOUS
<1> HIDE DEF x, y
<1>3. \A u, v : u \in RowOf(S, v) <=> <<u, v>> \in S
  BY <1>2 DEF RowOf
<1>4. PICK l \in 0..x : /\ <<l - 1, y>> \notin S
                        /\ \A k \in l..x : <<k, y>> \in S
  <2> DEFINE T == {k \in 0..x : <<k - 1, y>> \notin S}
  <2>1. 0 \in T /\ T \subseteq Int /\ \A k \in T : k <= x
    BY <1>1, <1>2
  <2>2. PICK l \in T : \A k \in T : k <= l
    BY <1>1, <2>1, MostInt
  <2>3. ASSUME NEW k \in l..x, <<k, y>> \notin S PROVE FALSE
    <3>1. k # x
      BY <1>1, <2>3
    <3>2. k + 1 \in T
      BY <1>1, <2>3, <3>1
    <3>3. QED
      BY <2>1, <2>2, <3>2
  <2>4. QED
    BY <2>2, <2>3
<1>5. PICK m \in (x + 1)..Columns : /\ <<m, y>> \notin S
                                    /\ \A k \in x..(m - 1) : <<k, y>> \in S
  <2> DEFINE T == {k \in (x + 1)..Columns : <<k, y>> \notin S}
  <2>1. Columns \in T /\ T \subseteq Int /\ \A k \in T : x + 1 <= k
    BY <1>1, <1>2
  <2>2. PICK m \in T : \A k \in T : m <= k
    <3>1. T # {} /\ x + 1 \in Int
      BY <1>1, <2>1
    <3> HIDE DEF T
    <3>2. LeastOf(T) \in T /\ \A k \in T : LeastOf(T) <= k
      BY <2>1, <3>1, LeastInt
    <3>3. QED
      BY <3>2
  <2>3. ASSUME NEW k \in x..(m - 1), <<k, y>> \notin S PROVE FALSE
    <3>1. k # x
      BY <1>1, <2>3
    <3>2. k \in T
      BY <1>1, <2>3, <3>1
    <3>3. QED
      BY <2>1, <2>2, <2>3, <3>2
  <2>4. QED
    BY <2>2, <2>3
<1>6. PICK t \in 0..y : /\ RowOf(S, t - 1) # RowOf(S, y)
                        /\ \A k \in t..y : RowOf(S, k) = RowOf(S, y)
  <2> DEFINE T == {k \in 0..y : RowOf(S, k - 1) # RowOf(S, y)}
  <2>1. RowOf(S, -1) # RowOf(S, y)
    <3>1. <<x, y>> \in S
      BY <1>1
    <3>2. <<x, -1>> \notin S
      BY <1>1, <1>2
    <3>3. x \in RowOf(S, y) /\ x \notin RowOf(S, -1)
      BY <1>3, <3>1, <3>2
    <3>4. QED
      BY <3>3
  <2>2. 0 \in T /\ T \subseteq Int /\ \A k \in T : k <= y
    BY <1>1, <2>1
  <2>3. PICK t \in T : \A k \in T : k <= t
    BY <1>1, <2>2, MostInt
  <2>4. ASSUME NEW k \in t..y, RowOf(S, k) # RowOf(S, y) PROVE FALSE
    <3>1. k # y
      BY <2>4
    <3>2. (k + 1) - 1 = k /\ k + 1 \in 0..y
      BY <1>1, <2>2, <2>4, <3>1
    <3>3. k + 1 \in T
      BY <2>4, <3>2
    <3>4. QED
      BY <2>2, <2>3, <3>3
  <2>5. QED
    BY <2>3, <2>4
<1>7. PICK b \in (y + 1)..Rows : /\ RowOf(S, b) # RowOf(S, y)
                                 /\ \A k \in y..(b - 1) : RowOf(S, k) = RowOf(S, y)
  <2> DEFINE T == {k \in (y + 1)..Rows : RowOf(S, k) # RowOf(S, y)}
  <2>1. RowOf(S, Rows) # RowOf(S, y)
    <3>1. <<x, y>> \in S
      BY <1>1
    <3>2. <<x, Rows>> \notin S
      BY <1>1, <1>2
    <3>3. x \in RowOf(S, y) /\ x \notin RowOf(S, Rows)
      BY <1>3, <3>1, <3>2
    <3>4. QED
      BY <3>3
  <2>2. Rows \in T /\ T \subseteq Int /\ \A k \in T : y + 1 <= k
    BY <1>1, <2>1
  <2>3. PICK b \in T : \A k \in T : b <= k
    <3>1. T # {} /\ y + 1 \in Int
      BY <1>1, <2>2
    <3> HIDE DEF T
    <3>2. LeastOf(T) \in T /\ \A k \in T : LeastOf(T) <= k
      BY <2>2, <3>1, LeastInt
    <3>3. QED
      BY <3>2
  <2>4. ASSUME NEW k \in y..(b - 1), RowOf(S, k) # RowOf(S, y) PROVE FALSE
    <3>1. k # y
      BY <2>4
    <3>2. k \in T
      BY <1>1, <2>4, <3>1
    <3>3. QED
      BY <2>2, <2>3, <2>4, <3>2
  <2>5. QED
    BY <2>3, <2>4
<1> DEFINE r == [left |-> l, top |-> t, right |-> m, bottom |-> b]
<1>8. \A k \in t..(b - 1) : RowOf(S, k) = RowOf(S, y)
  BY <1>1, <1>6, <1>7
<1>9. \A k \in l..(m - 1) : <<k, y>> \in S
  BY <1>1, <1>4, <1>5
<1>10. RowOf(S, t) = RowOf(S, y) /\ t \in t..(b - 1)
  BY <1>1, <1>6, <1>7
<1>11. r \in Boxes /\ l < m /\ t < b
  BY <1>1, <1>4, <1>5, <1>6, <1>7 DEF Boxes
<1>12. (l..(m - 1)) \X (t..(b - 1)) \subseteq S
  <2>1. \A u \in l..(m - 1), v \in t..(b - 1) : <<u, v>> \in S
    BY <1>3, <1>8, <1>9
  <2>2. QED
    BY <2>1
<1>13. <<l - 1, t>> \notin S /\ <<m, t>> \notin S
  BY <1>3, <1>4, <1>5, <1>10
<1>14. z \in (l..(m - 1)) \X (t..(b - 1))
  BY <1>1, <1>4, <1>5, <1>6, <1>7
<1>15. \A v \in t..(b - 1) : RowOf(S, v) = RowOf(S, t)
  BY <1>8, <1>10
<1>16. RowOf(S, t - 1) # RowOf(S, t) /\ RowOf(S, b) # RowOf(S, t)
  BY <1>6, <1>7, <1>10
<1>17. /\ PointsIn(r) = (l..(m - 1)) \X (t..(b - 1))
       /\ r.left = l /\ r.top = t /\ r.right = m /\ r.bottom = b
  BY DEF PointsIn
<1> HIDE DEF r
<1>18. r \in BandedSet(S)
  BY <1>11, <1>12, <1>13, <1>15, <1>16, <1>17 DEF BandedSet, Boxes
<1>19. QED
  BY <1>14, <1>17, <1>18

\* The banded list of points on the screen is regular and has these points.
LEMMA BandedIsRegular ==
  ASSUME NEW S, S \subseteq (0..(Columns - 1)) \X (0..(Rows - 1))
  PROVE  Regular(Banded(S)) /\ Points(Banded(S)) = S
<1> DEFINE L == Banded(S)
<1>1. /\ L \in Seq(Boxes)
      /\ \A i \in DOMAIN L : L[i] \in BandedSet(S) /\ Cardinality(Sooner(S, L[i])) = i - 1
  BY BandedIs
<1>2. \A r \in BandedSet(S) : \E i \in DOMAIN L : L[i] = r
  BY BandedHasAll
<1> HIDE DEF L
<1>3. \A i \in DOMAIN L : L[i].left < L[i].right /\ L[i].top < L[i].bottom
  BY <1>1, BandedBox
<1>4. ASSUME NEW i \in DOMAIN L, NEW j \in DOMAIN L, i < j PROVE Follows(L[i], L[j])
  <2>1. i \in Int /\ j \in Int
    BY <1>1
  <2>2. L[i] # L[j]
    BY <1>1, <1>4, <2>1
  <2>3. Before(L[i], L[j]) \/ Before(L[j], L[i])
    BY <1>1, <2>2, OneIsBefore
  <2>4. ASSUME Before(L[j], L[i]) PROVE FALSE
    <3>1. Cardinality(Sooner(S, L[j])) < Cardinality(Sooner(S, L[i]))
      BY <1>1, <2>4, RanksIncrease
    <3>2. j - 1 < i - 1
      BY <1>1, <3>1
    <3>3. QED
      BY <1>4, <2>1, <3>2
  <2>5. QED
    BY <1>1, <2>3, <2>4, BandedFollow
<1>5. Points(L) = S
  <2>1. Points(L) \subseteq S
    <3>1. \A i \in DOMAIN L : PointsIn(L[i]) \subseteq S
      BY <1>1, BandedBox
    <3>2. QED
      BY <3>1 DEF Points
  <2>2. ASSUME NEW z \in S PROVE z \in Points(L)
    <3>1. PICK r \in BandedSet(S) : z \in PointsIn(r)
      BY BandedCovers
    <3>2. PICK i \in DOMAIN L : L[i] = r
      BY <1>2
    <3>3. QED
      BY <3>1, <3>2 DEF Points
  <2>3. QED
    BY <2>1, <2>2
<1>6. Apart(L)
  <2>1. \A i \in DOMAIN L : RowOf(S, L[i].top - 1) # RowOf(S, L[i].top)
    BY <1>1, BandedBox
  <2>2. QED
    BY <1>5, <2>1 DEF Apart
<1>7. QED
  BY <1>1, <1>3, <1>4, <1>5, <1>6 DEF L, Regular, InBands

\* A list without repetitions has as many members as its length says.
LEMMA CountList ==
  ASSUME NEW n \in Nat, NEW T, NEW e,
         \A k \in 1..n : e[k] \in T,
         \A r \in T : \E k \in 1..n : e[k] = r,
         \A j, k \in 1..n : e[j] = e[k] => j = k
  PROVE  Cardinality(T) = n
<1> DEFINE f == [k \in 1..n |-> e[k]]
<1>1. f \in [1..n -> T] /\ \A k \in 1..n : f[k] = e[k]
  OBVIOUS
<1> HIDE DEF f
<1>2. f \in Bijection(1..n, T)
  <2>1. f \in Injection(1..n, T)
    BY <1>1 DEF Injection, IsInjective
  <2>2. f \in Surjection(1..n, T)
    BY <1>1 DEF Surjection
  <2>3. QED
    BY <2>1, <2>2 DEF Bijection
<1>3. ExistsBijection(1..n, T)
  BY <1>2 DEF ExistsBijection
<1>4. QED
  BY <1>3, FS_CountingElements

\* Each box of a regular list is one of the banded form of its points.
LEMMA RegularBoxes ==
  ASSUME NEW L, Regular(L), NEW i \in DOMAIN L
  PROVE  L[i] \in BandedSet(Points(L))
<1> DEFINE P == Points(L)
           r == L[i]
<1>1. InBands(L) /\ L \in Seq(Boxes) /\ Apart(L)
  BY DEF Regular, InBands
<1>2. /\ i \in Int /\ r \in Boxes /\ r.left < r.right /\ r.top < r.bottom
      /\ r.left \in Int /\ r.right \in Int /\ r.top \in Int /\ r.bottom \in Int
  BY <1>1, ListIs
<1>3. \A j \in DOMAIN L : /\ j \in Int /\ L[j].left < L[j].right /\ L[j].top < L[j].bottom
                          /\ L[j].left \in Int /\ L[j].right \in Int
                          /\ L[j].top \in Int /\ L[j].bottom \in Int
  BY <1>1, ListIs
<1>4. \A j, k \in DOMAIN L : j < k => Follows(L[j], L[k])
  BY <1>1 DEF InBands
<1>5. PointsIn(r) \subseteq P
  BY DEF Points
<1>6. <<r.left - 1, r.top>> \notin P
  <2> SUFFICES ASSUME NEW j \in DOMAIN L, L[j].left <= r.left - 1, r.left - 1 < L[j].right,
                      L[j].top <= r.top, r.top < L[j].bottom
               PROVE  FALSE
    BY <1>1, <1>2, InPoints
  <2>1. j # i
    BY <1>2
  <2>2. Follows(L[j], r) \/ Follows(r, L[j])
    BY <1>2, <1>3, <1>4, <2>1
  <2>3. QED
    BY <1>2, <1>3, <2>2 DEF Follows
<1>7. <<r.right, r.top>> \notin P
  <2> SUFFICES ASSUME NEW j \in DOMAIN L, L[j].left <= r.right, r.right < L[j].right,
                      L[j].top <= r.top, r.top < L[j].bottom
               PROVE  FALSE
    BY <1>1, <1>2, InPoints
  <2>1. j # i
    BY <1>2
  <2>2. Follows(L[j], r) \/ Follows(r, L[j])
    BY <1>2, <1>3, <1>4, <2>1
  <2>3. QED
    BY <1>2, <1>3, <2>2 DEF Follows
<1>8. \A y \in r.top .. (r.bottom - 1) : RowOf(P, y) = RowOf(P, r.top)
  BY <1>1, RowsAlike
<1>9. RowOf(P, r.top - 1) # RowOf(P, r.top)
  BY <1>1 DEF Apart
<1>10. RowOf(P, r.bottom) # RowOf(P, r.top)
  <2> SUFFICES ASSUME RowOf(P, r.bottom) = RowOf(P, r.top) PROVE FALSE
    OBVIOUS
  <2>1. r.left \in RowOf(P, r.top)
    BY <1>1, <1>2, InRow
  <2>2. PICK j \in DOMAIN L : L[j].top <= r.bottom /\ r.bottom < L[j].bottom
    BY <1>1, <1>2, <2>1, InRow
  <2>3. L[j].top = r.bottom
    <3>1. j # i
      BY <1>2, <2>2
    <3>2. Follows(L[j], r) \/ Follows(r, L[j])
      BY <1>2, <1>3, <1>4, <3>1
    <3>3. QED
      BY <1>2, <1>3, <2>2, <3>2 DEF Follows
  <2>4. RowOf(P, L[j].top - 1) # RowOf(P, L[j].top)
    BY <1>1 DEF Apart
  <2>5. RowOf(P, r.bottom - 1) = RowOf(P, r.top)
    <3>1. r.bottom - 1 \in r.top .. (r.bottom - 1)
      BY <1>2
    <3>2. QED
      BY <1>8, <3>1
  <2>6. QED
    BY <2>3, <2>4, <2>5
<1> HIDE DEF P, r
<1>11. r \in BandedSet(P)
  BY <1>2, <1>5, <1>6, <1>7, <1>8, <1>9, <1>10 DEF BandedSet, Boxes
<1>12. QED
  BY <1>11 DEF P, r

\* A regular list is the banded list of its points.
LEMMA RegularIsBanded ==
  ASSUME NEW L, Regular(L)
  PROVE  L = Banded(Points(L))
<1> DEFINE P == Points(L)
           n == Len(L)
<1>1. InBands(L) /\ L \in Seq(Boxes) /\ n \in Nat /\ DOMAIN L = 1..n
  BY DEF Regular, InBands
<1>2. \A i \in DOMAIN L : L[i] \in BandedSet(P)
  BY RegularBoxes
<1>3. \A i, j \in DOMAIN L : i < j => Before(L[i], L[j])
  <2> SUFFICES ASSUME NEW i \in DOMAIN L, NEW j \in DOMAIN L, i < j
               PROVE  Before(L[i], L[j])
    OBVIOUS
  <2>1. Follows(L[i], L[j])
    BY <1>1 DEF InBands
  <2>2. /\ L[i].left \in Int /\ L[i].right \in Int /\ L[i].top \in Int /\ L[i].bottom \in Int
        /\ L[i].left < L[i].right /\ L[i].top < L[i].bottom
    BY <1>1, ListIs
  <2>3. L[j].left \in Int /\ L[j].top \in Int
    BY <1>1, ListIs
  <2>4. QED
    BY <2>1, <2>2, <2>3 DEF Follows, Before
<1>4. \A i \in DOMAIN L : L[i].left \in Int /\ L[i].top \in Int
  BY <1>1, ListIs
<1>5. \A i, j \in DOMAIN L : Before(L[i], L[j]) <=> i < j
  <2> SUFFICES ASSUME NEW i \in DOMAIN L, NEW j \in DOMAIN L, Before(L[i], L[j]), ~ (i < j)
               PROVE  FALSE
    BY <1>3
  <2>1. i = j \/ j < i
    BY <1>1
  <2>2. j < i => Before(L[j], L[i])
    BY <1>3
  <2>3. QED
    BY <1>4, <2>1, <2>2 DEF Before
<1>6. \A i, j \in DOMAIN L : L[i] = L[j] => i = j
  <2> SUFFICES ASSUME NEW i \in DOMAIN L, NEW j \in DOMAIN L, L[i] = L[j], i # j
               PROVE  FALSE
    OBVIOUS
  <2>1. i < j \/ j < i
    BY <1>1
  <2>2. Before(L[i], L[j]) \/ Before(L[j], L[i])
    BY <1>3, <2>1
  <2>3. QED
    BY <1>4, <2>2 DEF Before
<1>7. \A r \in BandedSet(P) : \E i \in DOMAIN L : L[i] = r
  <2> TAKE r \in BandedSet(P)
  <2> DEFINE z == <<r.left, r.top>>
  <2>1. r \in Boxes /\ r.left < r.right /\ r.top < r.bottom /\ PointsIn(r) \subseteq P
    BY BandedBox
  <2>2. z \in PointsIn(r)
    BY <2>1, BoxIs DEF PointsIn
  <2>3. PICK i \in DOMAIN L : z \in PointsIn(L[i])
    BY <2>1, <2>2 DEF Points
  <2>4. QED
    BY <1>2, <2>2, <2>3, SharedPoint
<1>8. Cardinality(BandedSet(P)) = n
  <2> HIDE DEF P, n
  <2>1. /\ \A k \in 1..n : L[k] \in BandedSet(P)
        /\ \A r \in BandedSet(P) : \E k \in 1..n : L[k] = r
        /\ \A j, k \in 1..n : L[j] = L[k] => j = k
    BY <1>1, <1>2, <1>6, <1>7
  <2>2. QED
    BY ONLY <1>1, <2>1, CountList
<1>9. \A i \in DOMAIN L : Cardinality(Sooner(P, L[i])) = i - 1
  <2> TAKE i \in DOMAIN L
  <2> DEFINE T == Sooner(P, L[i])
             m == i - 1
  <2>1. m \in Nat /\ \A k : k \in 1..m <=> k \in DOMAIN L /\ k < i
    BY <1>1
  <2>2. \A k \in DOMAIN L : L[k] \in T <=> k < i
    BY <1>2, <1>5 DEF Sooner
  <2>3. T \subseteq BandedSet(P)
    BY DEF Sooner
  <2> HIDE DEF T, m, P, n
  <2>4. /\ \A k \in 1..m : L[k] \in T
        /\ \A r \in T : \E k \in 1..m : L[k] = r
        /\ \A j, k \in 1..m : L[j] = L[k] => j = k
    BY <1>6, <1>7, <2>1, <2>2, <2>3
  <2>5. Cardinality(T) = m
    BY ONLY <2>1, <2>4, CountList
  <2>6. QED
    BY <2>5 DEF T, m
<1> DEFINE B == Banded(P)
<1>10. /\ B \in Seq(Boxes) /\ Len(B) = n
       /\ \A i \in DOMAIN B : B[i] \in BandedSet(P) /\ Cardinality(Sooner(P, B[i])) = i - 1
  BY <1>8, BandedIs
<1> HIDE DEF B, P
<1>11. DOMAIN B = 1..n
  BY <1>10
<1>12. \A i \in 1..n : B[i] = L[i]
  BY <1>1, <1>2, <1>9, <1>10, <1>11, RankTells
<1>13. L = B
  BY <1>1, <1>10, <1>12, SeqEqual
<1>14. QED
  BY <1>13 DEF B, P

\* A member that no other is below is the least.
LEMMA LeastIs ==
  ASSUME NEW S, S \subseteq Int, NEW n \in S, \A m \in S : n <= m
  PROVE  LeastOf(S) = n
<1>1. LeastOf(S) \in S /\ \A m \in S : LeastOf(S) <= m
  BY DEF LeastOf
<1>2. LeastOf(S) <= n /\ n <= LeastOf(S)
  BY <1>1
<1>3. n \in Int /\ LeastOf(S) \in Int
  BY <1>1
<1>4. QED
  BY <1>2, <1>3

\* A member that no other is above is the greatest.
LEMMA MostIs ==
  ASSUME NEW S, S \subseteq Int, NEW n \in S, \A m \in S : m <= n
  PROVE  MostOf(S) = n
<1>1. MostOf(S) \in S /\ \A m \in S : m <= MostOf(S)
  BY DEF MostOf
<1>2. n <= MostOf(S) /\ MostOf(S) <= n
  BY <1>1
<1>3. n \in Int /\ MostOf(S) \in Int
  BY <1>1
<1>4. QED
  BY <1>2, <1>3

\* The elements of two sequences, one behind the other.
LEMMA ConcatIs ==
  ASSUME NEW S, NEW A \in Seq(S), NEW B \in Seq(S)
  PROVE  /\ A \o B \in Seq(S) /\ Len(A \o B) = Len(A) + Len(B)
         /\ Len(A) \in Nat /\ Len(B) \in Nat
         /\ DOMAIN A = 1..Len(A) /\ DOMAIN B = 1..Len(B)
         /\ DOMAIN (A \o B) = 1..(Len(A) + Len(B))
         /\ \A i \in 1..Len(A) : (A \o B)[i] = A[i]
         /\ \A i \in 1..Len(B) : (A \o B)[Len(A) + i] = B[i]
         /\ \A i \in 1..(Len(A) + Len(B)) :
              \/ i \in 1..Len(A)
              \/ i - Len(A) \in 1..Len(B) /\ (A \o B)[i] = B[i - Len(A)]
<1>1. Len(A) \in Nat /\ Len(B) \in Nat /\ DOMAIN A = 1..Len(A) /\ DOMAIN B = 1..Len(B)
  OBVIOUS
<1>2. /\ A \o B \in Seq(S) /\ Len(A \o B) = Len(A) + Len(B)
      /\ \A i \in 1 .. Len(A) + Len(B) : (A \o B)[i] = IF i <= Len(A) THEN A[i] ELSE B[i - Len(A)]
  BY ConcatProperties
<1> DEFINE C == A \o B
<1>3. DOMAIN C = 1..(Len(A) + Len(B))
  BY <1>1, <1>2
<1> HIDE DEF C
<1>4. \A i \in 1..(Len(A) + Len(B)) : C[i] = IF i <= Len(A) THEN A[i] ELSE B[i - Len(A)]
  BY <1>2 DEF C
<1>5. /\ \A i \in 1..Len(A) : C[i] = A[i]
      /\ \A i \in 1..Len(B) : C[Len(A) + i] = B[i]
      /\ \A i \in 1..(Len(A) + Len(B)) :
           \/ i \in 1..Len(A)
           \/ i - Len(A) \in 1..Len(B) /\ C[i] = B[i - Len(A)]
  BY <1>1, <1>4
<1>6. QED
  BY <1>1, <1>2, <1>3, <1>5 DEF C

\* The points of two lists together.
LEMMA ConcatPoints ==
  ASSUME NEW A \in Seq(Boxes), NEW B \in Seq(Boxes)
  PROVE  Points(A \o B) = Points(A) \cup Points(B)
<1> DEFINE L == A \o B
<1>1. /\ Len(A) \in Nat /\ Len(B) \in Nat
      /\ DOMAIN A = 1..Len(A) /\ DOMAIN B = 1..Len(B) /\ DOMAIN L = 1..(Len(A) + Len(B))
      /\ \A i \in 1..Len(A) : L[i] = A[i]
      /\ \A i \in 1..Len(B) : L[Len(A) + i] = B[i]
      /\ \A i \in 1..(Len(A) + Len(B)) :
           \/ i \in 1..Len(A)
           \/ i - Len(A) \in 1..Len(B) /\ L[i] = B[i - Len(A)]
  BY ConcatIs
<1> HIDE DEF L
<1>2. \A i \in DOMAIN A : i \in DOMAIN L /\ L[i] = A[i]
  BY <1>1
<1>3. \A i \in DOMAIN B : Len(A) + i \in DOMAIN L /\ L[Len(A) + i] = B[i]
  BY <1>1
<1>4. \A i \in DOMAIN L : (\E j \in DOMAIN A : L[i] = A[j]) \/ (\E j \in DOMAIN B : L[i] = B[j])
  BY <1>1
<1>5. Points(L) = Points(A) \cup Points(B)
  BY <1>2, <1>3, <1>4 DEF Points
<1>6. QED
  BY <1>5 DEF L

\* A list in bands behind one that ends above it.
LEMMA ConcatInBands ==
  ASSUME NEW A, NEW B, InBands(A), InBands(B),
         \A i \in DOMAIN A, j \in DOMAIN B : A[i].bottom <= B[j].top
  PROVE  InBands(A \o B)
<1> DEFINE L == A \o B
           a == Len(A)
           b == Len(B)
<1>0. A \in Seq(Boxes) /\ B \in Seq(Boxes)
  BY DEF InBands
<1>1. /\ L \in Seq(Boxes) /\ a \in Nat /\ b \in Nat
      /\ DOMAIN A = 1..a /\ DOMAIN B = 1..b /\ DOMAIN L = 1..(a + b)
      /\ \A i \in 1..a : L[i] = A[i]
      /\ \A i \in 1..(a + b) : i \in 1..a \/ (i - a \in 1..b /\ L[i] = B[i - a])
  BY <1>0, ConcatIs
<1> HIDE DEF L, a, b
<1>2. \A i \in DOMAIN L : L[i].left < L[i].right /\ L[i].top < L[i].bottom
  BY <1>1 DEF InBands
<1>3. ASSUME NEW i \in DOMAIN L, NEW j \in DOMAIN L, i < j PROVE Follows(L[i], L[j])
  <2>1. CASE i \in 1..a /\ j \in 1..a
    BY <1>1, <1>3, <2>1 DEF InBands
  <2>2. CASE i \in 1..a /\ j \notin 1..a
    BY <1>1, <2>2 DEF Follows
  <2>3. CASE i \notin 1..a
    <3>1. i - a \in DOMAIN B /\ j - a \in DOMAIN B /\ L[i] = B[i - a] /\ L[j] = B[j - a] /\ i - a < j - a
      BY <1>1, <1>3, <2>3
    <3>2. QED
      BY <3>1 DEF InBands
  <2>4. QED
    BY <2>1, <2>2, <2>3
<1>4. QED
  BY <1>1, <1>2, <1>3 DEF InBands, L

\* The extents of a list are the smallest box around its points.
LEMMA ExtentsAre ==
  ASSUME NEW L, InBands(L), L # <<>>
  PROVE  ExtentsOf(L) = BoxAround(Points(L))
<1> DEFINE P == Points(L)
           n == Len(L)
           xs == {p[1] : p \in P}
           ys == {p[2] : p \in P}
           lefts == {L[i].left : i \in DOMAIN L}
           rights == {L[i].right : i \in DOMAIN L}
<1>1. L \in Seq(Boxes) /\ n \in Nat /\ DOMAIN L = 1..n /\ 1 \in 1..n /\ n \in 1..n
  <2>1. L \in Seq(Boxes)
    BY DEF InBands
  <2>2. QED
    BY <2>1
<1>2. \A i \in DOMAIN L : /\ L[i].left \in Nat /\ L[i].right \in Nat /\ L[i].top \in Nat /\ L[i].bottom \in Nat
                          /\ L[i].left < L[i].right /\ L[i].top < L[i].bottom
                          /\ L[i].right <= Columns /\ L[i].left <= Columns
  BY ListIs
<1>3. BoxAround(P) = Box(LeastOf(xs), LeastOf(ys), MostOf(xs) + 1, MostOf(ys) + 1)
  BY DEF BoxAround, LeastOf, MostOf
<1>4. ExtentsOf(L) = Box(LeastOf(lefts), L[1].top, MostOf(rights), L[n].bottom)
  BY DEF ExtentsOf, LeastOf, MostOf
<1>5. \A p \in P : /\ p = <<p[1], p[2]>> /\ p[1] \in Int /\ p[2] \in Int
                   /\ \E i \in DOMAIN L : /\ L[i].left <= p[1] /\ p[1] < L[i].right
                                          /\ L[i].top <= p[2] /\ p[2] < L[i].bottom
  <2> TAKE p \in P
  <2>1. p = <<p[1], p[2]>> /\ p[1] \in Int /\ p[2] \in Int
    BY <1>1, PointsAre
  <2>2. QED
    BY <1>1, <2>1, InPoints
<1>6. \A i \in DOMAIN L : /\ L[i].left \in xs /\ L[i].right - 1 \in xs
                          /\ L[i].top \in ys /\ L[i].bottom - 1 \in ys
  <2> TAKE i \in DOMAIN L
  <2>1. \A x, y \in Int : L[i].left <= x /\ x < L[i].right /\ L[i].top <= y /\ y < L[i].bottom
                           => <<x, y>> \in P
    BY <1>1, InPoints
  <2> HIDE DEF P
  <2>2. \A x, y \in Int : L[i].left <= x /\ x < L[i].right /\ L[i].top <= y /\ y < L[i].bottom
                           => x \in xs /\ y \in ys
    <3> SUFFICES ASSUME NEW x \in Int, NEW y \in Int,
                        L[i].left <= x, x < L[i].right, L[i].top <= y, y < L[i].bottom
                 PROVE  x \in xs /\ y \in ys
      OBVIOUS
    <3>1. PICK p \in P : p[1] = x /\ p[2] = y
      <4> DEFINE p == <<x, y>>
      <4>1. p \in P
        BY <2>1
      <4>2. p[1] = x /\ p[2] = y
        OBVIOUS
      <4>3. QED
        BY <4>1, <4>2
    <3>2. QED
      BY <3>1
  <2> HIDE DEF xs, ys
  <2>3. QED
    BY <1>2, <2>2
<1>7. \A i \in DOMAIN L : L[1].top <= L[i].top /\ L[i].bottom <= L[n].bottom
  <2> TAKE i \in DOMAIN L
  <2>1. i \in 1..n
    BY <1>1
  <2>2. i = 1 \/ Follows(L[1], L[i])
    BY <1>1, <2>1 DEF InBands
  <2>3. i = n \/ Follows(L[i], L[n])
    BY <1>1, <2>1 DEF InBands
  <2>4. QED
    BY <1>1, <1>2, <2>2, <2>3 DEF Follows
<1> HIDE DEF P
<1>8. xs \subseteq Int /\ ys \subseteq Int
  BY <1>5
<1>9. LeastOf(xs) = LeastOf(lefts)
  <2>1. lefts \subseteq Nat /\ lefts # {} /\ \A m \in lefts : 0 <= m
    BY <1>1, <1>2
  <2>2. LeastOf(lefts) \in lefts /\ \A m \in lefts : LeastOf(lefts) <= m
    <3> HIDE DEF lefts
    <3>1. lefts \subseteq Int /\ 0 \in Int
      BY <2>1
    <3>2. QED
      BY <2>1, <3>1, LeastInt
  <2> DEFINE l == LeastOf(lefts)
  <2>3. PICK i \in DOMAIN L : l = L[i].left
    BY <2>2
  <2>4. \A j \in DOMAIN L : l <= L[j].left
    BY <2>2
  <2> HIDE DEF l
  <2>5. l \in Int /\ l \in xs
    BY <1>2, <1>6, <2>3
  <2>6. \A x \in xs : l <= x
    <3> TAKE x \in xs
    <3>1. PICK p \in P : x = p[1]
      OBVIOUS
    <3>2. PICK j \in DOMAIN L : L[j].left <= x
      BY <1>5, <3>1
    <3>3. QED
      BY <1>2, <1>5, <2>4, <2>5, <3>1, <3>2
  <2> HIDE DEF xs
  <2>7. LeastOf(xs) = l
    BY <1>8, <2>5, <2>6, LeastIs
  <2>8. QED
    BY <2>7 DEF l
<1>10. MostOf(xs) + 1 = MostOf(rights)
  <2>1. rights \subseteq Int /\ rights # {} /\ Columns \in Int /\ \A m \in rights : m <= Columns
    BY <1>1, <1>2, SizeAssumption
  <2>2. MostOf(rights) \in rights /\ \A m \in rights : m <= MostOf(rights)
    <3> HIDE DEF rights
    <3>1. QED
      BY <2>1, MostInt
  <2> DEFINE r == MostOf(rights)
  <2>3. PICK i \in DOMAIN L : r = L[i].right
    BY <2>2
  <2>4. \A j \in DOMAIN L : L[j].right <= r
    BY <2>2
  <2> HIDE DEF r
  <2>5. r \in Int /\ r - 1 \in xs
    BY <1>2, <1>6, <2>3
  <2>6. \A x \in xs : x <= r - 1
    <3> TAKE x \in xs
    <3>1. PICK p \in P : x = p[1]
      OBVIOUS
    <3>2. PICK j \in DOMAIN L : x < L[j].right
      BY <1>5, <3>1
    <3>3. QED
      BY <1>2, <1>5, <2>4, <2>5, <3>1, <3>2
  <2> HIDE DEF xs
  <2>7. MostOf(xs) = r - 1
    BY <1>8, <2>5, <2>6, MostIs
  <2>8. QED
    BY <2>5, <2>7 DEF r
<1>11. LeastOf(ys) = L[1].top
  <2> DEFINE t == L[1].top
  <2>1. t \in Int /\ t \in ys
    BY <1>1, <1>2, <1>6
  <2>2. \A i \in DOMAIN L : t <= L[i].top
    BY <1>7
  <2> HIDE DEF t
  <2>3. \A y \in ys : t <= y
    <3> TAKE y \in ys
    <3>1. PICK p \in P : y = p[2]
      OBVIOUS
    <3>2. PICK j \in DOMAIN L : L[j].top <= y
      BY <1>5, <3>1
    <3>3. QED
      BY <1>2, <1>5, <2>1, <2>2, <3>1, <3>2
  <2> HIDE DEF ys
  <2>4. LeastOf(ys) = t
    BY <1>8, <2>1, <2>3, LeastIs
  <2>5. QED
    BY <2>4 DEF t
<1>12. MostOf(ys) + 1 = L[n].bottom
  <2> DEFINE b == L[n].bottom
  <2>1. b \in Int /\ b - 1 \in ys
    BY <1>1, <1>2, <1>6
  <2>2. \A i \in DOMAIN L : L[i].bottom <= b
    BY <1>7
  <2> HIDE DEF b
  <2>3. \A y \in ys : y <= b - 1
    <3> TAKE y \in ys
    <3>1. PICK p \in P : y = p[2]
      OBVIOUS
    <3>2. PICK j \in DOMAIN L : y < L[j].bottom
      BY <1>5, <3>1
    <3>3. QED
      BY <1>2, <1>5, <2>1, <2>2, <3>1, <3>2
  <2> HIDE DEF ys
  <2>4. MostOf(ys) = b - 1
    BY <1>8, <2>1, <2>3, MostIs
  <2>5. QED
    BY <2>1, <2>4 DEF b
<1>13. QED
  BY <1>3, <1>4, <1>9, <1>10, <1>11, <1>12 DEF P

\* Boxes around sets of points that have a point in common overlap.
LEMMA ExtentsMeet ==
  ASSUME NEW S, NEW T, S \subseteq (0..(Columns - 1)) \X (0..(Rows - 1)),
         T \subseteq (0..(Columns - 1)) \X (0..(Rows - 1)), NEW z \in S, z \in T
  PROVE  ExtentsOverlap(BoxAround(S), BoxAround(T))
<1>1. ASSUME NEW U, U \subseteq (0..(Columns - 1)) \X (0..(Rows - 1)), z \in U
      PROVE  /\ BoxAround(U).left \in Int /\ BoxAround(U).right \in Int
             /\ BoxAround(U).top \in Int /\ BoxAround(U).bottom \in Int
             /\ BoxAround(U).left <= z[1] /\ z[1] < BoxAround(U).right
             /\ BoxAround(U).top <= z[2] /\ z[2] < BoxAround(U).bottom
  <2> DEFINE xs == {p[1] : p \in U}
             ys == {p[2] : p \in U}
  <2>1. BoxAround(U) = Box(LeastOf(xs), LeastOf(ys), MostOf(xs) + 1, MostOf(ys) + 1)
    BY DEF BoxAround, LeastOf, MostOf
  <2>2. /\ xs \subseteq Int /\ z[1] \in xs /\ \A m \in xs : 0 <= m /\ m <= Columns
        /\ ys \subseteq Int /\ z[2] \in ys /\ \A m \in ys : 0 <= m /\ m <= Rows
    BY <1>1, SizeAssumption
  <2>3. Columns \in Int /\ Rows \in Int /\ 0 \in Int
    BY SizeAssumption
  <2> HIDE DEF xs, ys
  <2>4. /\ LeastOf(xs) \in xs /\ LeastOf(xs) <= z[1] /\ LeastOf(ys) \in ys /\ LeastOf(ys) <= z[2]
    BY <2>2, <2>3, LeastInt
  <2>5. /\ MostOf(xs) \in xs /\ z[1] <= MostOf(xs) /\ MostOf(ys) \in ys /\ z[2] <= MostOf(ys)
    BY <2>2, <2>3, MostInt
  <2>6. /\ LeastOf(xs) \in Int /\ LeastOf(ys) \in Int /\ MostOf(xs) \in Int /\ MostOf(ys) \in Int
        /\ z[1] \in Int /\ z[2] \in Int
    BY <2>2, <2>4, <2>5
  <2>7. /\ BoxAround(U).left = LeastOf(xs) /\ BoxAround(U).right = MostOf(xs) + 1
        /\ BoxAround(U).top = LeastOf(ys) /\ BoxAround(U).bottom = MostOf(ys) + 1
    BY <2>1 DEF Box
  <2>8. QED
    BY <2>4, <2>5, <2>6, <2>7
<1>2. z[1] \in Int /\ z[2] \in Int
  OBVIOUS
<1>3. QED
  BY <1>1, <1>2 DEF ExtentsOverlap

-----------------------------------------------------------------------------
(* Bands.                                                                 *)

\* A list of boxes that are all in one band.
OneBand(A, t, b) ==
  /\ A \in Seq(Boxes)
  /\ \A i \in DOMAIN A : A[i].top = t /\ A[i].bottom = b /\ A[i].left < A[i].right
  /\ \A i, j \in DOMAIN A : i < j => A[i].right < A[j].left

\* The columns of a band.
Cells(A) == {x \in Int : \E i \in DOMAIN A : A[i].left <= x /\ x < A[i].right}

\* s is the first box of a band.
StartsBand(L, s) == s = 1 \/ L[s - 1].top # L[s].top

\* A band has its columns in each of its rows.
LEMMA OneBandPoints ==
  ASSUME NEW t \in Int, NEW b \in Int, NEW A, OneBand(A, t, b), NEW x, NEW y
  PROVE  <<x, y>> \in Points(A) <=> x \in Cells(A) /\ y \in Int /\ t <= y /\ y < b
<1>1. A \in Seq(Boxes)
  BY DEF OneBand
<1>2. \A i \in DOMAIN A : A[i].top = t /\ A[i].bottom = b
  BY DEF OneBand
<1>3. <<x, y>> \in Points(A) <=>
        /\ x \in Int /\ y \in Int
        /\ \E i \in DOMAIN A : A[i].left <= x /\ x < A[i].right /\ A[i].top <= y /\ y < A[i].bottom
  BY <1>1, InPoints
<1>4. QED
  BY <1>2, <1>3 DEF Cells

\* A band alone is regular: above it there is nothing.
LEMMA OneBandIsRegular ==
  ASSUME NEW t \in Int, NEW b \in Int, t < b, NEW A, OneBand(A, t, b)
  PROVE  Regular(A)
<1>1. InBands(A)
  BY DEF OneBand, InBands, Follows
<1>2. A \in Seq(Boxes)
  BY DEF OneBand
<1>3. ASSUME NEW i \in DOMAIN A
      PROVE  RowOf(Points(A), A[i].top - 1) # RowOf(Points(A), A[i].top)
  <2>1. A[i].top = t /\ A[i].bottom = b /\ A[i].left \in Int /\ A[i].left < A[i].right
    BY <1>1, ListIs DEF OneBand
  <2>2. A[i].left \in RowOf(Points(A), t)
    BY <1>2, <2>1, InRow
  <2>3. \A j \in DOMAIN A : A[j].top = t
    BY DEF OneBand
  <2>4. A[i].left \notin RowOf(Points(A), t - 1)
    BY <1>2, <2>3, InRow
  <2>5. QED
    BY <2>1, <2>2, <2>4
<1>4. QED
  BY <1>1, <1>3 DEF Regular, Apart

\* Bands of the same rows and columns are the same.
LEMMA SameCells ==
  ASSUME NEW t \in Int, NEW b \in Int, t < b, NEW A, NEW B, OneBand(A, t, b), OneBand(B, t, b),
         Cells(A) = Cells(B)
  PROVE  A = B
<1>1. A \in Seq(Boxes) /\ B \in Seq(Boxes)
  BY DEF OneBand
<1>2. \A x, y : <<x, y>> \in Points(A) <=> <<x, y>> \in Points(B)
  <2> TAKE x, y
  <2>1. <<x, y>> \in Points(A) <=> x \in Cells(A) /\ y \in Int /\ t <= y /\ y < b
    BY OneBandPoints
  <2>2. <<x, y>> \in Points(B) <=> x \in Cells(B) /\ y \in Int /\ t <= y /\ y < b
    BY OneBandPoints
  <2>3. QED
    BY <2>1, <2>2
<1>3. Points(A) \subseteq Int \X Int /\ Points(B) \subseteq Int \X Int
  BY <1>1, PointsAre
<1>4. Points(A) = Points(B)
  BY <1>2, <1>3
<1>5. A = Banded(Points(A)) /\ B = Banded(Points(B))
  BY OneBandIsRegular, RegularIsBanded
<1>6. QED
  BY <1>4, <1>5

\* The loop that looks for the next band stops behind the last box of this one.
LEMMA BandEndIs ==
  ASSUME NEW L \in Seq(Boxes), NEW i \in DOMAIN L
  PROVE  /\ BandEnd(L, i) \in (i + 1)..(Len(L) + 1)
         /\ \A k \in i..(BandEnd(L, i) - 1) : L[k].top = L[i].top
         /\ BandEnd(L, i) <= Len(L) => L[BandEnd(L, i)].top # L[i].top
<1> DEFINE n == Len(L)
           T == {j \in (i + 1)..(n + 1) : j <= n => L[j].top # L[i].top}
           IsEnd(j) == /\ \A k \in i..(j - 1) : L[k].top = L[i].top
                       /\ j <= n => L[j].top # L[i].top
<1>1. n \in Nat /\ i \in 1..n /\ n + 1 \in T /\ T \subseteq Nat
  OBVIOUS
<1> HIDE DEF n
<1>2. PICK j \in T : \A k \in T : j <= k
  BY <1>1, LeastNumber
<1>3. \A k \in i..(j - 1) : L[k].top = L[i].top
  <2> SUFFICES ASSUME NEW k \in i..(j - 1), L[k].top # L[i].top
               PROVE  FALSE
    OBVIOUS
  <2>1. k # i
    OBVIOUS
  <2>2. k \in T
    BY <1>1, <2>1
  <2>3. QED
    BY <1>1, <1>2, <2>2
<1>4. j \in i..(n + 1) /\ IsEnd(j)
  BY <1>1, <1>3
<1>5. BandEnd(L, i) = CHOOSE k \in i..(n + 1) : IsEnd(k)
  BY DEF BandEnd, n
<1> HIDE DEF IsEnd
<1>6. BandEnd(L, i) \in i..(n + 1) /\ IsEnd(BandEnd(L, i))
  BY <1>4, <1>5
<1> DEFINE e == BandEnd(L, i)
<1> HIDE DEF e
<1>7. e \in i..(n + 1) /\ IsEnd(e)
  BY <1>6 DEF e
<1>8. e # i
  BY <1>1, <1>7 DEF IsEnd
<1>9. e \in (i + 1)..(n + 1)
  BY <1>1, <1>7, <1>8
<1>10. QED
  BY <1>7, <1>9 DEF IsEnd, e, n

\* There is only one end.
LEMMA BandEndIsOnly ==
  ASSUME NEW L \in Seq(Boxes), NEW i \in DOMAIN L, NEW e \in (i + 1)..(Len(L) + 1),
         \A k \in i..(e - 1) : L[k].top = L[i].top,
         e <= Len(L) => L[e].top # L[i].top
  PROVE  BandEnd(L, i) = e
<1> DEFINE d == BandEnd(L, i)
           n == Len(L)
<1>1. /\ d \in (i + 1)..(n + 1)
      /\ \A k \in i..(d - 1) : L[k].top = L[i].top
      /\ d <= n => L[d].top # L[i].top
  BY BandEndIs
<1>2. n \in Nat /\ i \in Int /\ e \in (i + 1)..(n + 1) /\ (e <= n => L[e].top # L[i].top)
  OBVIOUS
<1> HIDE DEF d, n
<1>3. ~ (d < e)
  <2> SUFFICES ASSUME d < e PROVE FALSE
    OBVIOUS
  <2>1. d \in i..(e - 1) /\ d <= n
    BY <1>1, <1>2
  <2>2. QED
    BY <1>1, <2>1
<1>4. ~ (e < d)
  <2> SUFFICES ASSUME e < d PROVE FALSE
    OBVIOUS
  <2>1. e \in i..(d - 1) /\ e <= n
    BY <1>1, <1>2
  <2>2. QED
    BY <1>1, <1>2, <2>1
<1>5. QED
  BY <1>1, <1>2, <1>3, <1>4 DEF d

\* A list around one of its bands.
LEMMA BandIs ==
  ASSUME NEW L, InBands(L), NEW i \in DOMAIN L, StartsBand(L, i)
  PROVE  /\ \A j \in DOMAIN L : j < i => L[j].bottom <= L[i].top
         /\ \A j \in i..(BandEnd(L, i) - 1) : L[j].top = L[i].top /\ L[j].bottom = L[i].bottom
         /\ \A j \in DOMAIN L : BandEnd(L, i) <= j => L[i].bottom <= L[j].top
<1> DEFINE e == BandEnd(L, i)
           n == Len(L)
<1>1. L \in Seq(Boxes)
  BY DEF InBands
<1>2. /\ n \in Nat /\ DOMAIN L = 1..n /\ i \in 1..n
      /\ e \in (i + 1)..(n + 1)
      /\ \A k \in i..(e - 1) : L[k].top = L[i].top
      /\ e <= n => L[e].top # L[i].top
  BY <1>1, BandEndIs
<1>3. \A j \in DOMAIN L : L[j].top \in Int /\ L[j].bottom \in Int /\ L[j].top < L[j].bottom
  BY ListIs
<1>4. \A j, k \in DOMAIN L : j < k => Follows(L[j], L[k])
  BY DEF InBands
<1> HIDE DEF e, n
<1>5. ASSUME NEW j \in DOMAIN L, j < i PROVE L[j].bottom <= L[i].top
  <2>1. Follows(L[j], L[i])
    BY <1>4, <1>5
  <2>2. i - 1 \in DOMAIN L /\ L[i - 1].top # L[i].top
    BY <1>2, <1>5 DEF StartsBand
  <2>3. Follows(L[i - 1], L[i])
    BY <1>2, <1>4, <2>2
  <2>4. j = i - 1 \/ Follows(L[j], L[i - 1])
    BY <1>2, <1>4, <1>5, <2>2
  <2>5. QED
    BY <1>3, <2>1, <2>2, <2>3, <2>4 DEF Follows
<1>6. ASSUME NEW j \in i..(e - 1) PROVE L[j].top = L[i].top /\ L[j].bottom = L[i].bottom
  <2>1. j \in DOMAIN L /\ L[j].top = L[i].top
    BY <1>2
  <2>2. j = i \/ Follows(L[i], L[j])
    BY <1>2, <1>4, <2>1
  <2>3. QED
    BY <1>3, <2>1, <2>2 DEF Follows
<1>7. ASSUME NEW j \in DOMAIN L, e <= j PROVE L[i].bottom <= L[j].top
  <2>1. e \in DOMAIN L /\ L[e].top # L[i].top
    BY <1>2, <1>7
  <2>2. Follows(L[i], L[e])
    BY <1>2, <1>4, <2>1
  <2>3. e = j \/ Follows(L[e], L[j])
    BY <1>2, <1>4, <1>7, <2>1
  <2>4. QED
    BY <1>3, <2>1, <2>2, <2>3 DEF Follows
<1>8. QED
  BY <1>5, <1>6, <1>7 DEF e

\* The boxes from the start of a band to its end, and its columns.
LEMMA BandIsOne ==
  ASSUME NEW L, InBands(L), NEW i \in DOMAIN L, StartsBand(L, i)
  PROVE  /\ OneBand(Band(L, i), L[i].top, L[i].bottom)
         /\ Len(Band(L, i)) = BandEnd(L, i) - i
         /\ DOMAIN Band(L, i) = 1..(BandEnd(L, i) - i)
         /\ \A k \in 1..(BandEnd(L, i) - i) : Band(L, i)[k] = L[i + k - 1]
         /\ \A y \in L[i].top .. (L[i].bottom - 1) : Cells(Band(L, i)) = RowOf(Points(L), y)
<1> DEFINE e == BandEnd(L, i)
           n == Len(L)
           A == Band(L, i)
<1>1. L \in Seq(Boxes)
  BY DEF InBands
<1>2. n \in Nat /\ DOMAIN L = 1..n /\ i \in 1..n /\ e \in (i + 1)..(n + 1)
  BY <1>1, BandEndIs
<1>3. /\ \A j \in DOMAIN L : j < i => L[j].bottom <= L[i].top
      /\ \A j \in i..(e - 1) : L[j].top = L[i].top /\ L[j].bottom = L[i].bottom
      /\ \A j \in DOMAIN L : e <= j => L[i].bottom <= L[j].top
  BY BandIs
<1>4. \A j \in DOMAIN L : /\ L[j] \in Boxes /\ L[j].left < L[j].right
                          /\ L[j].top \in Int /\ L[j].bottom \in Int
  BY ListIs
<1>5. A = SubSeq(L, i, e - 1)
  BY DEF Band
<1> HIDE DEF e, n, A
<1>6. A \in Seq(Boxes) /\ Len(A) = e - i /\ \A k \in 1..(e - i) : A[k] = L[i + k - 1]
  <2>1. i \in Int /\ e - 1 \in Int /\ \A k \in i..(e - 1) : L[k] \in Boxes
    BY <1>2, <1>4
  <2>2. /\ SubSeq(L, i, e - 1) \in Seq(Boxes)
        /\ Len(SubSeq(L, i, e - 1)) = IF i <= e - 1 THEN (e - 1) - i + 1 ELSE 0
        /\ \A k \in 1 .. (e - 1) - i + 1 : SubSeq(L, i, e - 1)[k] = L[i + k - 1]
    BY ONLY <2>1, SubSeqProperties
  <2>3. (e - 1) - i + 1 = e - i /\ i <= e - 1
    BY <1>2
  <2>4. QED
    BY <1>5, <2>2, <2>3
<1>7. DOMAIN A = 1..(e - i)
  BY <1>6
<1>8. \A k \in DOMAIN A : A[k] = L[i + k - 1] /\ i + k - 1 \in DOMAIN L /\ i + k - 1 \in i..(e - 1)
  BY <1>2, <1>6, <1>7
<1>9. OneBand(A, L[i].top, L[i].bottom)
  <2>1. \A k \in DOMAIN A : A[k].top = L[i].top /\ A[k].bottom = L[i].bottom /\ A[k].left < A[k].right
    BY <1>3, <1>4, <1>8
  <2>2. ASSUME NEW j \in DOMAIN A, NEW k \in DOMAIN A, j < k PROVE A[j].right < A[k].left
    <3>1. Follows(A[j], A[k])
      <4>1. i + j - 1 < i + k - 1
        BY <1>2, <1>7, <2>2
      <4>2. Follows(L[i + j - 1], L[i + k - 1])
        BY <1>8, <4>1 DEF InBands
      <4>3. QED
        BY <1>8, <4>2
    <3>2. A[j].bottom = L[i].bottom /\ A[k].top = L[i].top /\ L[i].top < L[i].bottom
      BY <2>1, ListIs
    <3>3. QED
      BY <1>2, <1>4, <3>1, <3>2 DEF Follows
  <2>3. QED
    BY <1>6, <2>1, <2>2 DEF OneBand
<1>10. ASSUME NEW y \in L[i].top .. (L[i].bottom - 1) PROVE Cells(A) = RowOf(Points(L), y)
  <2>1. y \in Int /\ L[i].top <= y /\ y < L[i].bottom
    BY <1>2, <1>4
  <2>2. \A j \in DOMAIN L : L[j].top <= y /\ y < L[j].bottom <=> j \in i..(e - 1)
    BY <1>2, <1>3, <1>4, <2>1
  <2>3. \A x : x \in RowOf(Points(L), y) <=>
                 x \in Int /\ \E j \in i..(e - 1) : L[j].left <= x /\ x < L[j].right
    <3> TAKE x
    <3>1. x \in RowOf(Points(L), y) <=>
            /\ x \in Int
            /\ \E j \in DOMAIN L : L[j].left <= x /\ x < L[j].right /\ L[j].top <= y /\ y < L[j].bottom
      BY <1>1, <2>1, InRow
    <3>2. \A j \in i..(e - 1) : j \in DOMAIN L
      BY <1>2
    <3>3. QED
      BY <2>2, <3>1, <3>2
  <2>4. \A j \in i..(e - 1) : j - i + 1 \in DOMAIN A /\ A[j - i + 1] = L[j]
    <3> TAKE j \in i..(e - 1)
    <3> DEFINE k == j - i + 1
    <3>1. k \in 1..(e - i) /\ i + k - 1 = j
      BY <1>2
    <3> HIDE DEF k
    <3>2. A[k] = L[j]
      BY <1>6, <3>1
    <3>3. k \in DOMAIN A /\ A[k] = L[j]
      BY <1>7, <3>1, <3>2
    <3>4. QED
      BY <3>3 DEF k
  <2>5. \A x : x \in Cells(A) <=>
                 x \in Int /\ \E j \in i..(e - 1) : L[j].left <= x /\ x < L[j].right
    BY <1>8, <2>4 DEF Cells
  <2>6. \A x : x \in Cells(A) <=> x \in RowOf(Points(L), y)
    BY <2>3, <2>5
  <2>7. QED
    BY <2>6
<1>11. QED
  BY <1>6, <1>7, <1>9, <1>10 DEF A, e

\* subtract_none_overlapping_band writes the columns of its band.
LEMMA OnlyFirstIs ==
  ASSUME NEW t, NEW b, NEW A, OneBand(A, t, b), NEW u \in 0..Rows, NEW v \in 0..Rows
  PROVE  /\ OneBand(OnlyFirst(A, u, v), u, v)
         /\ Len(OnlyFirst(A, u, v)) = Len(A) /\ DOMAIN OnlyFirst(A, u, v) = DOMAIN A
         /\ \A i \in DOMAIN A : /\ OnlyFirst(A, u, v)[i].left = A[i].left
                                /\ OnlyFirst(A, u, v)[i].right = A[i].right
         /\ Cells(OnlyFirst(A, u, v)) = Cells(A)
<1> DEFINE B == OnlyFirst(A, u, v)
           n == Len(A)
<1>1. A \in Seq(Boxes) /\ n \in Nat /\ DOMAIN A = 1..n
  BY DEF OneBand
<1>2. B = [i \in 1..n |-> Box(A[i].left, u, A[i].right, v)]
  BY <1>1 DEF OnlyFirst
<1> HIDE DEF B, n
<1>3. DOMAIN B = 1..n /\ \A i \in 1..n : B[i] = Box(A[i].left, u, A[i].right, v)
  BY <1>2
<1>4. \A i \in 1..n : /\ B[i].left = A[i].left /\ B[i].right = A[i].right
                      /\ B[i].top = u /\ B[i].bottom = v
  BY <1>3 DEF Box
<1>5. \A i \in 1..n : B[i] \in Boxes
  <2> TAKE i \in 1..n
  <2>1. A[i] \in Boxes
    BY <1>1
  <2>2. A[i].left \in 0..Columns /\ A[i].right \in 0..Columns
    BY <2>1 DEF Boxes
  <2>3. QED
    BY <1>3, <2>2 DEF Box, Boxes
<1>6. B \in Seq(Boxes) /\ Len(B) = n
  <2>1. B \in [1..n -> Boxes]
    BY <1>2, <1>5 DEF Box
  <2>2. QED
    BY <1>1, <2>1
<1>7. OneBand(B, u, v)
  BY <1>1, <1>3, <1>4, <1>6 DEF OneBand
<1>8. Cells(B) = Cells(A)
  BY <1>1, <1>3, <1>4 DEF Cells
<1>9. QED
  BY <1>1, <1>3, <1>4, <1>6, <1>7, <1>8 DEF B, n

-----------------------------------------------------------------------------
(* A band is merged with the one before it.                               *)

\* The bands at prev and cur touch, and have the same columns.
Similar(L, prev, cur) ==
  /\ BandEnd(L, cur) - cur = cur - prev
  /\ L[prev].bottom = L[cur].top
  /\ \A i \in 0..(BandEnd(L, cur) - cur - 1) : /\ L[prev + i].left = L[cur + i].left
                                               /\ L[prev + i].right = L[cur + i].right

\* region_union_similar_band: the band at prev goes down to where that at cur
\* ended, and what is behind that moves up.
Merged(L, prev, cur) ==
  [i \in 1..(cur - 1) |-> IF i < prev THEN L[i] ELSE [L[i] EXCEPT !.bottom = L[cur].bottom]]
    \o SubSeq(L, BandEnd(L, cur), Len(L))

\* Where the last band starts.
LastStart(L, cur) == CHOOSE i \in cur..Len(L) : /\ L[i].top = L[Len(L)].top
                                                /\ i > cur => L[i - 1].top # L[i].top

\* prev starts the band before the one that starts at cur, if there is one.
Neighbours(L, prev, cur) ==
  /\ cur \in DOMAIN L /\ StartsBand(L, cur)
  /\ \/ cur = 1 /\ prev = 1
     \/ prev \in 1..(cur - 1) /\ StartsBand(L, prev) /\ BandEnd(L, prev) = cur

\* What region_union_similar_band does, with the bands alike and otherwise.
LEMMA UnionSimilarBandIs ==
  ASSUME NEW L, NEW prev, NEW cur
  PROVE  /\ Similar(L, prev, cur) =>
              /\ UnionSimilarBand(L, prev, cur).rects = Merged(L, prev, cur)
              /\ BandEnd(L, cur) > Len(L) => UnionSimilarBand(L, prev, cur).start = prev
         /\ ~ Similar(L, prev, cur) =>
              /\ UnionSimilarBand(L, prev, cur).rects = L
              /\ UnionSimilarBand(L, prev, cur).start = LastStart(L, cur)
<1>1. ASSUME Similar(L, prev, cur)
      PROVE  UnionSimilarBand(L, prev, cur)
               = [rects |-> Merged(L, prev, cur),
                  start |-> IF BandEnd(L, cur) > Len(L) THEN prev ELSE LastStart(L, cur)]
  BY <1>1 DEF UnionSimilarBand, Similar, Merged, LastStart
<1>2. ASSUME ~ Similar(L, prev, cur)
      PROVE  UnionSimilarBand(L, prev, cur) = [rects |-> L, start |-> LastStart(L, cur)]
  BY <1>2 DEF UnionSimilarBand, Similar, LastStart
<1>3. QED
  BY <1>1, <1>2

\* Touching bands with the same columns are similar.
LEMMA SimilarBands ==
  ASSUME NEW L, InBands(L), NEW prev, NEW cur, Neighbours(L, prev, cur), cur # 1,
         L[prev].bottom = L[cur].top
  PROVE  Similar(L, prev, cur) <=> RowOf(Points(L), L[prev].top) = RowOf(Points(L), L[cur].top)
<1> DEFINE e == BandEnd(L, cur)
           A == Band(L, prev)
           B == Band(L, cur)
           t == L[cur].top
           b == L[cur].bottom
           C == OnlyFirst(A, t, b)
<1>1. L \in Seq(Boxes) /\ prev \in DOMAIN L /\ cur \in DOMAIN L /\ StartsBand(L, prev) /\ StartsBand(L, cur)
  BY DEF InBands, Neighbours
<1>2. BandEnd(L, prev) = cur /\ prev \in Int /\ cur \in Int /\ e \in Int /\ prev < cur /\ cur < e /\ e <= Len(L) + 1
  BY <1>1, BandEndIs DEF Neighbours
<1>3. /\ OneBand(A, L[prev].top, L[prev].bottom)
      /\ Len(A) = cur - prev /\ DOMAIN A = 1..(cur - prev)
      /\ \A k \in 1..(cur - prev) : A[k] = L[prev + k - 1]
      /\ \A y \in L[prev].top .. (L[prev].bottom - 1) : Cells(A) = RowOf(Points(L), y)
  BY <1>1, <1>2, BandIsOne
<1>4. /\ OneBand(B, t, b)
      /\ Len(B) = e - cur /\ DOMAIN B = 1..(e - cur)
      /\ \A k \in 1..(e - cur) : B[k] = L[cur + k - 1]
      /\ \A y \in t .. (b - 1) : Cells(B) = RowOf(Points(L), y)
  BY <1>1, BandIsOne
<1>5. t \in 0..Rows /\ b \in 0..Rows /\ t < b /\ t \in Int /\ b \in Int
  BY <1>1, ListIs, SizeAssumption
<1>6. Cells(A) = RowOf(Points(L), L[prev].top) /\ Cells(B) = RowOf(Points(L), t)
  <2>1. L[prev].top \in L[prev].top .. (L[prev].bottom - 1)
    BY <1>1, ListIs
  <2>2. t \in t .. (b - 1)
    BY <1>5
  <2>3. QED
    BY <1>3, <1>4, <2>1, <2>2
<1> HIDE DEF A, B, e, t, b
<1>7. /\ OneBand(C, t, b) /\ Len(C) = Len(A) /\ DOMAIN C = DOMAIN A
      /\ \A i \in DOMAIN A : C[i].left = A[i].left /\ C[i].right = A[i].right
      /\ Cells(C) = Cells(A)
  <2>1. OneBand(A, L[prev].top, L[prev].bottom) /\ t \in 0..Rows /\ b \in 0..Rows
    BY <1>3, <1>5
  <2>2. /\ OneBand(OnlyFirst(A, t, b), t, b)
        /\ Len(OnlyFirst(A, t, b)) = Len(A) /\ DOMAIN OnlyFirst(A, t, b) = DOMAIN A
        /\ \A i \in DOMAIN A : /\ OnlyFirst(A, t, b)[i].left = A[i].left
                               /\ OnlyFirst(A, t, b)[i].right = A[i].right
        /\ Cells(OnlyFirst(A, t, b)) = Cells(A)
    BY ONLY <2>1, OnlyFirstIs
  <2>3. QED
    BY <2>2
<1> HIDE DEF C
<1>8. ASSUME Cells(A) = Cells(B) PROVE Similar(L, prev, cur)
  <2>1. C = B
    BY <1>4, <1>5, <1>7, <1>8, SameCells
  <2>2. e - cur = cur - prev
    BY <1>3, <1>4, <1>7, <2>1
  <2>3. ASSUME NEW i \in 0..(e - cur - 1)
        PROVE  L[prev + i].left = L[cur + i].left /\ L[prev + i].right = L[cur + i].right
    <3> DEFINE k == i + 1
    <3>1. k \in 1..(e - cur) /\ k \in 1..(cur - prev) /\ prev + k - 1 = prev + i /\ cur + k - 1 = cur + i
      BY <1>2, <2>2
    <3> HIDE DEF k
    <3>2. A[k] = L[prev + i] /\ B[k] = L[cur + i]
      BY <1>3, <1>4, <3>1
    <3>3. B[k].left = A[k].left /\ B[k].right = A[k].right
      BY <1>3, <1>7, <2>1, <3>1
    <3>4. QED
      BY <3>2, <3>3
  <2>4. QED
    BY <2>2, <2>3 DEF Similar, e
<1>9. ASSUME Similar(L, prev, cur) PROVE Cells(A) = Cells(B)
  <2>1. /\ e - cur = cur - prev
        /\ \A i \in 0..(e - cur - 1) : L[prev + i].left = L[cur + i].left /\ L[prev + i].right = L[cur + i].right
    BY <1>9 DEF Similar, e
  <2>2. \A k \in 1..(e - cur) : A[k].left = B[k].left /\ A[k].right = B[k].right
    <3> TAKE k \in 1..(e - cur)
    <3> DEFINE i == k - 1
    <3>1. i \in 0..(e - cur - 1) /\ k \in 1..(cur - prev) /\ prev + k - 1 = prev + i /\ cur + k - 1 = cur + i
      BY <1>2, <2>1
    <3> HIDE DEF i
    <3>2. A[k] = L[prev + i] /\ B[k] = L[cur + i]
      BY <1>3, <1>4, <3>1
    <3>3. QED
      BY <2>1, <3>1, <3>2
  <2>3. DOMAIN A = DOMAIN B /\ DOMAIN A = 1..(e - cur)
    BY <1>3, <1>4, <2>1
  <2>4. QED
    BY <2>2, <2>3 DEF Cells
<1>10. QED
  BY <1>6, <1>8, <1>9 DEF t

\* What is in the merged list.
LEMMA MergedIs ==
  ASSUME NEW L, InBands(L), NEW prev, NEW cur, Neighbours(L, prev, cur), cur # 1
  PROVE  LET M == Merged(L, prev, cur)
             n == BandEnd(L, cur) - cur
         IN  /\ M \in Seq(Boxes) /\ Len(M) = Len(L) - n /\ DOMAIN M = 1..(Len(L) - n)
             /\ \A i \in 1..(prev - 1) : M[i] = L[i]
             /\ \A i \in prev..(cur - 1) : /\ M[i].left = L[i].left /\ M[i].right = L[i].right
                                           /\ M[i].top = L[i].top /\ M[i].bottom = L[cur].bottom
             /\ \A i \in cur..(Len(L) - n) : M[i] = L[i + n]
<1> DEFINE len == Len(L)
           e == BandEnd(L, cur)
           n == e - cur
           A == [i \in 1..(cur - 1) |-> IF i < prev THEN L[i] ELSE [L[i] EXCEPT !.bottom = L[cur].bottom]]
           B == SubSeq(L, e, len)
           M == Merged(L, prev, cur)
<1>1. L \in Seq(Boxes) /\ prev \in DOMAIN L /\ cur \in DOMAIN L
  BY DEF InBands, Neighbours
<1>2. /\ len \in Nat /\ DOMAIN L = 1..len /\ prev \in Int /\ cur \in Int /\ e \in Int
      /\ 1 <= prev /\ prev < cur /\ cur < e /\ e <= len + 1
  BY <1>1, BandEndIs DEF Neighbours
<1>3. \A i \in 1..len : L[i] \in Boxes
  BY <1>1, <1>2
<1>4. M = A \o B
  BY DEF Merged
<1> HIDE DEF len, e
<1>5. /\ A \in Seq(Boxes) /\ Len(A) = cur - 1
      /\ \A i \in 1..(prev - 1) : A[i] = L[i]
      /\ \A i \in prev..(cur - 1) : /\ A[i].left = L[i].left /\ A[i].right = L[i].right
                                    /\ A[i].top = L[i].top /\ A[i].bottom = L[cur].bottom
  <2> DEFINE low == [r \in Boxes |-> [r EXCEPT !.bottom = L[cur].bottom]]
  <2>1. \A i \in 1..(cur - 1) : i \in 1..len
    BY <1>2
  <2>2. L[cur].bottom \in 0..Rows
    BY <1>2, <1>3 DEF Boxes
  <2>3. \A r \in Boxes : /\ low[r] \in Boxes /\ low[r].left = r.left /\ low[r].right = r.right
                         /\ low[r].top = r.top /\ low[r].bottom = L[cur].bottom
    BY <2>2 DEF Boxes
  <2>4. \A i \in 1..(cur - 1) : i < prev => A[i] = L[i]
    OBVIOUS
  <2>5. \A i \in 1..(cur - 1) : ~ (i < prev) => A[i] = low[L[i]]
    BY <1>3, <2>1
  <2> HIDE DEF A, low
  <2>6. \A i \in 1..(prev - 1) : A[i] = L[i]
    <3>1. \A i \in 1..(prev - 1) : i \in 1..(cur - 1) /\ i < prev
      BY <1>2
    <3>2. QED
      BY <2>4, <3>1
  <2>7. \A i \in prev..(cur - 1) : /\ A[i].left = L[i].left /\ A[i].right = L[i].right
                                   /\ A[i].top = L[i].top /\ A[i].bottom = L[cur].bottom
                                   /\ A[i] \in Boxes
    <3>1. \A i \in prev..(cur - 1) : i \in 1..(cur - 1) /\ ~ (i < prev) /\ L[i] \in Boxes
      BY <1>2, <1>3, <2>1
    <3>2. \A i \in prev..(cur - 1) : A[i] = low[L[i]]
      BY <2>5, <3>1
    <3>3. QED
      BY <2>3, <3>1, <3>2
  <2>8. \A i \in 1..(cur - 1) : A[i] \in Boxes
    <3> TAKE i \in 1..(cur - 1)
    <3>1. i \in 1..(prev - 1) \/ i \in prev..(cur - 1)
      BY <1>2
    <3>2. QED
      BY <1>3, <2>1, <2>6, <2>7, <3>1
  <2>9. A \in [1..(cur - 1) -> Boxes]
    BY <2>8 DEF A
  <2>10. cur - 1 \in Nat
    BY <1>2
  <2>11. A \in Seq(Boxes) /\ Len(A) = cur - 1
    BY <2>9, <2>10
  <2>12. QED
    BY <2>6, <2>7, <2>11
<1>6. B \in Seq(Boxes) /\ Len(B) = len + 1 - e /\ \A i \in 1..(len + 1 - e) : B[i] = L[e + i - 1]
  <2>1. e \in Int /\ len \in Int /\ \A k \in e..len : L[k] \in Boxes
    BY <1>2, <1>3
  <2>2. /\ SubSeq(L, e, len) \in Seq(Boxes)
        /\ Len(SubSeq(L, e, len)) = IF e <= len THEN len - e + 1 ELSE 0
        /\ \A k \in 1 .. len - e + 1 : SubSeq(L, e, len)[k] = L[e + k - 1]
    BY ONLY <2>1, SubSeqProperties
  <2>3. len - e + 1 = len + 1 - e /\ (IF e <= len THEN len - e + 1 ELSE 0) = len + 1 - e
    BY <1>2
  <2>4. QED
    BY <2>2, <2>3
<1> HIDE DEF A, B, M
<1>7. /\ M \in Seq(Boxes) /\ Len(M) = Len(A) + Len(B) /\ DOMAIN M = 1..(Len(A) + Len(B))
      /\ \A i \in 1..Len(A) : M[i] = A[i]
      /\ \A i \in 1..Len(B) : M[Len(A) + i] = B[i]
  <2>1. A \in Seq(Boxes) /\ B \in Seq(Boxes)
    BY <1>5, <1>6
  <2>2. /\ A \o B \in Seq(Boxes) /\ Len(A \o B) = Len(A) + Len(B)
        /\ DOMAIN (A \o B) = 1..(Len(A) + Len(B))
        /\ \A i \in 1..Len(A) : (A \o B)[i] = A[i]
        /\ \A i \in 1..Len(B) : (A \o B)[Len(A) + i] = B[i]
    BY ONLY <2>1, ConcatIs
  <2>3. QED
    BY <1>4, <2>2
<1>8. Len(A) + Len(B) = len - n
  BY <1>2, <1>5, <1>6
<1>9. \A i \in 1..(prev - 1) : M[i] = L[i]
  BY <1>2, <1>5, <1>7
<1>10. \A i \in prev..(cur - 1) : /\ M[i].left = L[i].left /\ M[i].right = L[i].right
                                  /\ M[i].top = L[i].top /\ M[i].bottom = L[cur].bottom
  <2> TAKE i \in prev..(cur - 1)
  <2>1. M[i] = A[i]
    BY <1>2, <1>5, <1>7
  <2>2. QED
    BY <1>5, <2>1
<1>11. ASSUME NEW i \in cur..(len - n) PROVE M[i] = L[i + n]
  <2> DEFINE k == i - cur + 1
  <2>1. k \in 1..(len + 1 - e) /\ Len(A) + k = i /\ e + k - 1 = i + n
    BY <1>2, <1>5
  <2> HIDE DEF k
  <2>2. M[i] = B[k] /\ B[k] = L[i + n]
    BY <1>6, <1>7, <2>1
  <2>3. QED
    BY <2>2
<1>12. QED
  BY <1>7, <1>8, <1>9, <1>10, <1>11 DEF M, e, len

\* s is where the last band of a list starts.
LastBand(L, s) ==
  IF L = <<>> THEN s = 1
  ELSE s \in DOMAIN L /\ StartsBand(L, s) /\ BandEnd(L, s) = Len(L) + 1

\* Only the band at cur may be like the row above it.
ApartBut(L, cur) ==
  \A i \in DOMAIN L : L[i].top # L[cur].top =>
    RowOf(Points(L), L[i].top - 1) # RowOf(Points(L), L[i].top)

\* Merging leaves the points as they are, and no band that is like the row above.
LEMMA MergedRegular ==
  ASSUME NEW L, InBands(L), NEW prev, NEW cur, Neighbours(L, prev, cur), cur # 1,
         Similar(L, prev, cur), ApartBut(L, cur)
  PROVE  Regular(Merged(L, prev, cur)) /\ Points(Merged(L, prev, cur)) = Points(L)
<1> DEFINE M == Merged(L, prev, cur)
           len == Len(L)
           e == BandEnd(L, cur)
           n == e - cur
           b == L[cur].bottom
<1>1. /\ L \in Seq(Boxes) /\ prev \in DOMAIN L /\ cur \in DOMAIN L
      /\ StartsBand(L, prev) /\ StartsBand(L, cur) /\ BandEnd(L, prev) = cur
  BY DEF InBands, Neighbours
<1>2. /\ len \in Nat /\ DOMAIN L = 1..len /\ prev \in Int /\ cur \in Int /\ e \in Int
      /\ 1 <= prev /\ prev < cur /\ cur < e /\ e <= len + 1
  BY <1>1, BandEndIs DEF Neighbours
<1>3. /\ n = cur - prev /\ L[prev].bottom = L[cur].top
      /\ \A i \in 0..(n - 1) : L[prev + i].left = L[cur + i].left /\ L[prev + i].right = L[cur + i].right
  BY DEF Similar
<1>4. /\ M \in Seq(Boxes) /\ DOMAIN M = 1..(len - n)
      /\ \A i \in 1..(prev - 1) : M[i] = L[i]
      /\ \A i \in prev..(cur - 1) : /\ M[i].left = L[i].left /\ M[i].right = L[i].right
                                    /\ M[i].top = L[i].top /\ M[i].bottom = b
      /\ \A i \in cur..(len - n) : M[i] = L[i + n]
  BY MergedIs
<1>5. /\ \A j \in DOMAIN L : j < prev => L[j].bottom <= L[prev].top
      /\ \A j \in prev..(cur - 1) : L[j].top = L[prev].top /\ L[j].bottom = L[prev].bottom
  BY <1>1, BandIs
<1>6. /\ \A j \in cur..(e - 1) : L[j].top = L[cur].top /\ L[j].bottom = b
      /\ \A j \in DOMAIN L : e <= j => b <= L[j].top
  BY <1>1, BandIs
<1>7. \A j \in DOMAIN L : /\ L[j].left < L[j].right /\ L[j].top < L[j].bottom
                          /\ L[j].left \in Int /\ L[j].right \in Int
                          /\ L[j].top \in Int /\ L[j].bottom \in Int
  BY ListIs
<1>8. \A i, j \in DOMAIN L : i < j => Follows(L[i], L[j])
  BY DEF InBands
<1> HIDE DEF M, len, e, b
<1>9. L[prev].top < L[prev].bottom /\ L[cur].top < b /\ b \in Int /\ n \in Int /\ n > 0
      /\ L[prev].top \in Int /\ L[cur].top \in Int
  BY <1>1, <1>2, <1>7 DEF b
<1>10. \A i \in DOMAIN M : \/ i \in 1..(prev - 1) /\ i \in DOMAIN L
                           \/ i \in prev..(cur - 1) /\ i \in DOMAIN L
                           \/ i \in cur..(len - n) /\ i + n \in DOMAIN L /\ e <= i + n
  BY <1>2, <1>4
<1>11. \A i \in DOMAIN M : M[i].left < M[i].right /\ M[i].top < M[i].bottom
  <2> TAKE i \in DOMAIN M
  <2>1. CASE i \in 1..(prev - 1) /\ i \in DOMAIN L
    BY <1>4, <1>7, <2>1
  <2>2. CASE i \in prev..(cur - 1) /\ i \in DOMAIN L
    BY <1>3, <1>4, <1>5, <1>7, <1>9, <2>2
  <2>3. CASE i \in cur..(len - n) /\ i + n \in DOMAIN L
    BY <1>4, <1>7, <2>3
  <2>4. QED
    BY <1>10, <2>1, <2>2, <2>3
<1>12. ASSUME NEW i \in DOMAIN M, NEW j \in DOMAIN M, i < j PROVE Follows(M[i], M[j])
  <2>0. i \in Int /\ j \in Int
    BY <1>4, <1>2, <1>9
  <2>1. CASE i \in 1..(prev - 1) /\ i \in DOMAIN L
    <3>1. M[i] = L[i] /\ L[i].bottom <= L[prev].top
      BY <1>2, <1>4, <1>5, <2>1
    <3>2. CASE j \in 1..(prev - 1) /\ j \in DOMAIN L
      BY <1>4, <1>8, <1>12, <2>1, <3>1, <3>2
    <3>3. CASE j \in prev..(cur - 1) /\ j \in DOMAIN L
      <4>1. M[j].top = L[prev].top
        BY <1>4, <1>5, <3>3
      <4>2. QED
        BY <3>1, <4>1 DEF Follows
    <3>4. CASE j \in cur..(len - n) /\ j + n \in DOMAIN L
      <4>1. i < j + n /\ M[j] = L[j + n]
        BY <1>4, <1>9, <1>12, <2>0, <3>4
      <4>2. QED
        BY <1>8, <2>1, <3>1, <3>4, <4>1
    <3>5. QED
      BY <1>10, <3>2, <3>3, <3>4
  <2>2. CASE i \in prev..(cur - 1) /\ i \in DOMAIN L
    <3>1. M[i].top = L[prev].top /\ M[i].bottom = b /\ M[i].right = L[i].right
      BY <1>4, <1>5, <2>2
    <3>2. CASE j \in prev..(cur - 1) /\ j \in DOMAIN L
      <4>1. M[j].top = L[prev].top /\ M[j].bottom = b /\ M[j].left = L[j].left
        BY <1>4, <1>5, <3>2
      <4>2. Follows(L[i], L[j])
        BY <1>8, <1>12, <2>2, <3>2
      <4>3. L[j].top = L[prev].top /\ L[i].bottom = L[prev].bottom
        BY <1>5, <2>2, <3>2
      <4>4. L[i].right < L[j].left
        BY <1>9, <1>3, <4>2, <4>3 DEF Follows
      <4>5. QED
        BY <3>1, <4>1, <4>4 DEF Follows
    <3>3. CASE j \in cur..(len - n) /\ j + n \in DOMAIN L /\ e <= j + n
      <4>1. M[j] = L[j + n] /\ b <= L[j + n].top
        BY <1>4, <1>6, <3>3
      <4>2. QED
        BY <3>1, <4>1 DEF Follows
    <3>4. ~ (j \in 1..(prev - 1))
      BY <1>12, <2>0, <2>2, <1>2
    <3>5. QED
      BY <1>10, <3>2, <3>3, <3>4
  <2>3. CASE i \in cur..(len - n) /\ i + n \in DOMAIN L
    <3>1. j \in cur..(len - n) /\ j + n \in DOMAIN L
      BY <1>2, <1>10, <1>12, <2>0, <2>3
    <3>2. M[i] = L[i + n] /\ M[j] = L[j + n] /\ i + n < j + n
      BY <1>4, <1>9, <1>12, <2>0, <2>3, <3>1
    <3>3. QED
      BY <1>8, <2>3, <3>1, <3>2
  <2>4. QED
    BY <1>10, <2>1, <2>2, <2>3
<1>13. InBands(M)
  BY <1>4, <1>11, <1>12 DEF InBands
<1>14. \A x, y : <<x, y>> \in Points(M) <=> <<x, y>> \in Points(L)
  <2> TAKE x, y
  <2> DEFINE InM(i) == M[i].left <= x /\ x < M[i].right /\ M[i].top <= y /\ y < M[i].bottom
             InL(i) == L[i].left <= x /\ x < L[i].right /\ L[i].top <= y /\ y < L[i].bottom
  <2>1. <<x, y>> \in Points(M) <=> x \in Int /\ y \in Int /\ \E i \in DOMAIN M : InM(i)
    BY <1>4, InPoints
  <2>2. <<x, y>> \in Points(L) <=> x \in Int /\ y \in Int /\ \E i \in DOMAIN L : InL(i)
    BY <1>1, InPoints
  <2>3. ASSUME x \in Int, y \in Int, NEW i \in DOMAIN M, InM(i) PROVE \E j \in DOMAIN L : InL(j)
    <3>1. CASE i \in 1..(prev - 1) /\ i \in DOMAIN L
      BY <1>4, <2>3, <3>1
    <3>2. CASE i \in prev..(cur - 1) /\ i \in DOMAIN L
      <4>1. M[i].left = L[i].left /\ M[i].right = L[i].right /\ M[i].top = L[i].top /\ M[i].bottom = b
        BY <1>4, <3>2
      <4>2. CASE y < L[i].bottom
        BY <2>3, <3>2, <4>1, <4>2
      <4>3. CASE ~ (y < L[i].bottom)
        <5> DEFINE k == i - prev
                   j == cur + k
        <5>1. k \in 0..(n - 1) /\ prev + k = i /\ j \in cur..(e - 1) /\ j \in DOMAIN L
          BY <1>2, <1>3, <3>2
        <5>2. L[i].left = L[j].left /\ L[i].right = L[j].right
          BY <1>3, <5>1
        <5>3. L[j].top = L[cur].top /\ L[j].bottom = b /\ L[i].bottom = L[cur].top
          BY <1>3, <1>5, <1>6, <3>2, <5>1
        <5> HIDE DEF j, k
        <5>4. InL(j)
          BY <1>9, <2>3, <4>1, <4>3, <5>2, <5>3
        <5>5. QED
          BY <5>1, <5>4
      <4>4. QED
        BY <4>2, <4>3
    <3>3. CASE i \in cur..(len - n) /\ i + n \in DOMAIN L
      <4>1. M[i] = L[i + n]
        BY <1>4, <3>3
      <4>2. InL(i + n)
        BY <2>3, <4>1
      <4>3. QED
        BY <3>3, <4>2
    <3>4. QED
      BY <1>10, <3>1, <3>2, <3>3
  <2>4. ASSUME x \in Int, y \in Int, NEW j \in DOMAIN L, InL(j) PROVE \E i \in DOMAIN M : InM(i)
    <3>1. CASE j \in 1..(prev - 1)
      <4>1. j \in DOMAIN M /\ M[j] = L[j]
        BY <1>2, <1>3, <1>4, <3>1
      <4>2. QED
        BY <2>4, <4>1
    <3>2. CASE j \in prev..(cur - 1)
      <4>1. /\ j \in DOMAIN M /\ M[j].left = L[j].left /\ M[j].right = L[j].right
            /\ M[j].top = L[j].top /\ M[j].bottom = b
        BY <1>2, <1>4, <3>2
      <4>2. L[j].bottom = L[cur].top
        BY <1>3, <1>5, <3>2
      <4>3. y < b
        BY <1>9, <2>4, <4>2
      <4>4. InM(j)
        BY <2>4, <4>1, <4>3
      <4>5. QED
        BY <4>1, <4>4
    <3>3. CASE j \in cur..(e - 1)
      <4> DEFINE k == j - cur
                 i == prev + k
      <4>1. k \in 0..(n - 1) /\ cur + k = j /\ i \in prev..(cur - 1) /\ i \in DOMAIN M
        BY <1>2, <1>3, <1>4, <3>3
      <4>2. L[i].left = L[j].left /\ L[i].right = L[j].right
        BY <1>3, <4>1
      <4> HIDE DEF i, k
      <4>3. M[i].left = L[j].left /\ M[i].right = L[j].right /\ M[i].top = L[prev].top /\ M[i].bottom = b
        BY <1>4, <1>5, <4>1, <4>2
      <4>4. L[j].top = L[cur].top /\ L[j].bottom = b
        BY <1>6, <3>3
      <4>5. L[prev].top <= y /\ y < b
        BY <1>3, <1>9, <2>4, <4>4
      <4>6. InM(i)
        BY <2>4, <4>3, <4>5
      <4>7. QED
        BY <4>1, <4>6
    <3>4. CASE j \in e..len
      <4> DEFINE i == j - n
      <4>1. i \in cur..(len - n) /\ i + n = j /\ i \in DOMAIN M
        BY <1>2, <1>4, <3>4
      <4> HIDE DEF i
      <4>2. M[i] = L[j]
        BY <1>4, <4>1
      <4>3. QED
        BY <2>4, <4>1, <4>2
    <3>5. QED
      BY <1>2, <3>1, <3>2, <3>3, <3>4
  <2>5. QED
    BY <2>1, <2>2, <2>3, <2>4
<1>15. Points(M) = Points(L)
  <2>1. Points(M) \subseteq Int \X Int /\ Points(L) \subseteq Int \X Int
    BY <1>1, <1>4, PointsAre
  <2>2. QED
    BY <1>14, <2>1
<1>16. \A i \in DOMAIN M : \E j \in DOMAIN L : M[i].top = L[j].top /\ L[j].top # L[cur].top
  <2> TAKE i \in DOMAIN M
  <2>1. CASE i \in 1..(prev - 1) /\ i \in DOMAIN L
    <3>1. M[i].top = L[i].top /\ L[i].top < L[i].bottom /\ L[i].bottom <= L[prev].top
          /\ L[i].top \in Int /\ L[i].bottom \in Int
      BY <1>2, <1>4, <1>5, <1>7, <2>1
    <3>2. L[i].top # L[cur].top
      BY <1>3, <1>9, <3>1
    <3>3. QED
      BY <2>1, <3>1, <3>2
  <2>2. CASE i \in prev..(cur - 1) /\ i \in DOMAIN L
    <3>1. M[i].top = L[i].top /\ L[i].top = L[prev].top
      BY <1>4, <1>5, <2>2
    <3>2. L[i].top # L[cur].top
      BY <1>3, <1>9, <3>1
    <3>3. QED
      BY <2>2, <3>1, <3>2
  <2>3. CASE i \in cur..(len - n) /\ i + n \in DOMAIN L /\ e <= i + n
    <3>1. M[i] = L[i + n] /\ b <= L[i + n].top
      BY <1>4, <1>6, <2>3
    <3>2. L[i + n].top # L[cur].top
      BY <1>7, <1>9, <2>3, <3>1
    <3>3. QED
      BY <2>3, <3>1, <3>2
  <2>4. QED
    BY <1>10, <2>1, <2>2, <2>3
<1>17. Apart(M)
  BY <1>15, <1>16 DEF Apart, ApartBut
<1>18. QED
  BY <1>13, <1>15, <1>17 DEF Regular, M

\* region_union_similar_band keeps the points and makes the list regular.
LEMMA UnionRegular ==
  ASSUME NEW L, InBands(L), NEW prev, NEW cur, Neighbours(L, prev, cur), ApartBut(L, cur)
  PROVE  LET u == UnionSimilarBand(L, prev, cur)
         IN  /\ Regular(u.rects) /\ Points(u.rects) = Points(L) /\ Len(u.rects) <= Len(L)
             /\ BandEnd(L, cur) > Len(L) => LastBand(u.rects, u.start)
<1> DEFINE u == UnionSimilarBand(L, prev, cur)
           len == Len(L)
           e == BandEnd(L, cur)
<1>1. L \in Seq(Boxes) /\ cur \in DOMAIN L /\ StartsBand(L, cur)
  BY DEF InBands, Neighbours
<1>2. len \in Nat /\ DOMAIN L = 1..len /\ cur \in 1..len /\ e \in (cur + 1)..(len + 1)
  BY <1>1, BandEndIs
<1>3. CASE Similar(L, prev, cur)
  <2>1. cur # 1
    BY <1>2, <1>3 DEF Similar, Neighbours
  <2> DEFINE M == Merged(L, prev, cur)
             n == e - cur
  <2>2. u.rects = M /\ (e > len => u.start = prev)
    BY <1>3, UnionSimilarBandIs
  <2>3. Regular(M) /\ Points(M) = Points(L)
    BY <1>3, <2>1, MergedRegular
  <2>4. /\ M \in Seq(Boxes) /\ Len(M) = len - n /\ DOMAIN M = 1..(len - n)
        /\ \A i \in 1..(prev - 1) : M[i] = L[i]
        /\ \A i \in prev..(cur - 1) : M[i].top = L[i].top
    BY <2>1, MergedIs
  <2>5. prev \in 1..(cur - 1) /\ prev \in DOMAIN L /\ StartsBand(L, prev) /\ BandEnd(L, prev) = cur
    BY <1>1, <2>1 DEF Neighbours
  <2>6. ASSUME e > len PROVE LastBand(M, prev)
    <3>1. e = len + 1 /\ len - n = cur - 1
      BY <1>2, <2>6
    <3>2. \A k \in prev..(cur - 1) : L[k].top = L[prev].top
      BY <1>1, <2>5, BandEndIs
    <3> HIDE DEF M, len, e
    <3>3. prev \in DOMAIN M /\ Len(M) = cur - 1 /\ cur \in Int /\ prev \in Int
      BY <1>2, <2>4, <2>5, <3>1
    <3>4. StartsBand(M, prev)
      <4>1. SUFFICES ASSUME prev # 1 PROVE M[prev - 1].top # M[prev].top
        BY DEF StartsBand
      <4>2. prev - 1 \in 1..(prev - 1) /\ prev \in prev..(cur - 1)
        BY <2>5, <4>1
      <4>3. M[prev - 1].top = L[prev - 1].top /\ M[prev].top = L[prev].top
        BY <2>4, <4>2
      <4>4. QED
        BY <2>5, <4>1, <4>3 DEF StartsBand
    <3>5. BandEnd(M, prev) = cur
      <4>1. cur \in (prev + 1)..(Len(M) + 1)
        BY <1>2, <2>5, <3>3
      <4>2. \A k \in prev..(cur - 1) : M[k].top = M[prev].top
        BY <1>2, <2>4, <2>5, <3>2
      <4>3. ~ (cur <= Len(M))
        BY <3>3
      <4>4. QED
        BY ONLY <2>4, <3>3, <4>1, <4>2, <4>3, BandEndIsOnly
    <3>6. M # <<>>
      BY <3>3
    <3>7. QED
      BY <3>3, <3>4, <3>5, <3>6 DEF LastBand
  <2> HIDE DEF M, u
  <2>7. QED
    BY <1>2, <2>2, <2>3, <2>4, <2>6 DEF u, e, len
<1>4. CASE ~ Similar(L, prev, cur)
  <2>1. u.rects = L /\ u.start = LastStart(L, cur)
    BY <1>4, UnionSimilarBandIs
  <2>2. Apart(L)
    <3>1. SUFFICES ASSUME NEW i \in DOMAIN L, L[i].top = L[cur].top,
                          RowOf(Points(L), L[cur].top - 1) = RowOf(Points(L), L[cur].top)
                   PROVE  FALSE
      BY DEF Apart, ApartBut
    <3> DEFINE t == L[cur].top
    <3>2. t \in Int /\ L[cur].left \in Int /\ L[cur].left < L[cur].right /\ t < L[cur].bottom
      BY <1>1, ListIs
    <3>3. L[cur].left \in RowOf(Points(L), t)
      BY <1>1, <3>2, InRow
    <3>4. PICK j \in DOMAIN L : L[j].top <= t - 1 /\ t - 1 < L[j].bottom
      BY <1>1, <3>1, <3>2, <3>3, InRow
    <3>5. \A k \in DOMAIN L : L[k].top \in Int /\ L[k].bottom \in Int /\ L[k].top < L[k].bottom
      BY ListIs
    <3>6. j < cur
      <4>1. j \in Int /\ cur \in Int /\ j # cur
        BY <1>2, <3>2, <3>4
      <4>2. cur < j => Follows(L[cur], L[j])
        BY <1>1 DEF InBands
      <4>3. QED
        BY <1>1, <3>2, <3>4, <3>5, <4>1, <4>2 DEF Follows
    <3>7. /\ cur # 1 /\ prev \in 1..(cur - 1) /\ prev \in DOMAIN L
          /\ StartsBand(L, prev) /\ BandEnd(L, prev) = cur
      BY <1>2, <3>6 DEF Neighbours
    <3>8. L[j].bottom = t
      <4>1. L[j].bottom <= t
        BY <1>1, <3>6, BandIs
      <4>2. QED
        BY <3>2, <3>4, <3>5, <4>1
    <3>9. L[prev].top <= t - 1 /\ L[prev].bottom = t
      <4>1. /\ \A k \in DOMAIN L : k < prev => L[k].bottom <= L[prev].top
            /\ \A k \in prev..(cur - 1) : L[k].top = L[prev].top /\ L[k].bottom = L[prev].bottom
        BY <3>7, BandIs
      <4>2. L[prev].bottom <= t
        <5>1. \A k \in DOMAIN L : k < cur => L[k].bottom <= L[cur].top
          BY <1>1, BandIs
        <5>2. prev < cur
          BY <1>2, <3>7
        <5>3. QED
          BY <3>7, <5>1, <5>2
      <4>3. ~ (j < prev)
        BY <3>5, <3>7, <3>8, <4>1, <4>2, <3>2
      <4>4. j \in prev..(cur - 1)
        BY <1>2, <3>6, <3>7, <4>3
      <4>5. QED
        BY <3>4, <3>8, <4>1, <4>4
    <3>10. RowOf(Points(L), t - 1) = RowOf(Points(L), L[prev].top)
      <4>1. t - 1 \in L[prev].top .. (L[prev].bottom - 1)
        BY <3>2, <3>5, <3>7, <3>9
      <4>2. QED
        BY <3>7, <4>1, RowsAlike
    <3>11. QED
      BY <1>4, <3>1, <3>7, <3>9, <3>10, SimilarBands
  <2>3. ASSUME e > len PROVE LastBand(L, LastStart(L, cur))
    <3>1. e = len + 1
      BY <1>2, <2>3
    <3>2. \A k \in cur..len : L[k].top = L[cur].top
      BY <1>1, <3>1, BandEndIs
    <3>3. LastStart(L, cur) = cur
      <4> DEFINE Is(i) == L[i].top = L[len].top /\ (i > cur => L[i - 1].top # L[i].top)
      <4>1. cur \in cur..len /\ Is(cur)
        BY <1>2, <3>2
      <4>2. \A i \in cur..len : Is(i) => i = cur
        <5> SUFFICES ASSUME NEW i \in cur..len, i # cur PROVE ~ Is(i)
          OBVIOUS
        <5>1. i > cur /\ i - 1 \in cur..len
          BY <1>2
        <5>2. QED
          BY <3>2, <5>1
      <4>3. LastStart(L, cur) = CHOOSE i \in cur..len : Is(i)
        BY DEF LastStart
      <4> HIDE DEF Is
      <4>4. QED
        BY <4>1, <4>2, <4>3
    <3>4. L # <<>>
      BY <1>1
    <3>5. QED
      BY <1>1, <3>1, <3>3, <3>4 DEF LastBand
  <2> HIDE DEF u
  <2>4. Len(L) <= Len(L)
    BY <1>2
  <2>5. QED
    BY <2>1, <2>2, <2>3, <2>4 DEF Regular, u, e, len
<1>5. QED
  BY <1>3, <1>4

-----------------------------------------------------------------------------
(* A band is added to the new region.                                     *)

\* MEMCHECK leaves a place for each rectangle.
LEMMA GrownIs ==
  ASSUME NEW have \in Nat, NEW use \in Nat, NEW k \in Nat, have > 0, use <= have
  PROVE  Grown(have, use, k) \in Nat /\ Grown(have, use, k) > 0 /\ use + k <= Grown(have, use, k)
<1> DEFINE P == [n \in 0..k |-> {h \in Nat : h > 0 /\ use + n <= h}]
           grow(h, n) == IF use + n - 1 >= h - 1 THEN 2 * h ELSE h
           step == [n \in 1..k |-> [h \in Nat |-> grow(h, n)]]
           Eq(f) == [n \in 0..k |->
                       IF n = 0 THEN have
                       ELSE IF use + n - 1 >= f[n - 1] - 1 THEN 2 * f[n - 1] ELSE f[n - 1]]
           g == CHOOSE f : f = Eq(f)
<1>1. Grown(have, use, k) = g[k]
  BY DEF Grown
<1>2. have \in P[0]
  BY SMTT(30)
<1>3. ASSUME NEW n \in 1..k, NEW h \in P[n - 1] PROVE grow(h, n) \in P[n]
  <2>1. n - 1 \in 0..k /\ n \in 0..k
    OBVIOUS
  <2>2. h \in Nat /\ h > 0 /\ use + (n - 1) <= h
    BY <2>1
  <2>3. grow(h, n) \in Nat /\ grow(h, n) > 0 /\ use + n <= grow(h, n)
    BY <2>2
  <2> HIDE DEF grow
  <2>4. QED
    BY <2>1, <2>3
<1>4. \A n \in 1..k : \A h \in P[n - 1] : step[n][h] = grow(h, n)
  <2>1. \A n \in 1..k : n - 1 \in 0..k
    OBVIOUS
  <2>2. \A n \in 1..k : \A h \in P[n - 1] : h \in Nat
    BY <2>1
  <2> HIDE DEF P, grow
  <2>3. QED
    BY <2>2
<1> HIDE DEF step
<1>5. PICK f : IsCourse(f, k, have, step) /\ \A n \in 0..k : f[n] \in P[n]
  <2> HIDE DEF P, grow
  <2>1. \A n \in 1..k : \A h \in P[n - 1] : step[n][h] \in P[n]
    BY <1>3, <1>4
  <2>2. QED
    BY ONLY <1>2, <2>1, k \in Nat, RoundsExist
<1>6. f = Eq(f)
  <2>1. f = [n \in 0..k |-> IF n = 0 THEN have ELSE step[n][f[n - 1]]]
    BY <1>5 DEF IsCourse
  <2>2. \A n \in 0..k : n # 0 => step[n][f[n - 1]] = grow(f[n - 1], n)
    <3> HIDE DEF P, grow
    <3>1. \A n \in 0..k : n # 0 => n \in 1..k /\ n - 1 \in 0..k
      OBVIOUS
    <3>2. QED
      BY <1>4, <1>5, <3>1
  <2>3. QED
    BY <2>1, <2>2
<1>7. g = Eq(g)
  BY <1>6
<1> HIDE DEF g, P
<1>8. g[0] = have /\ \A n \in 1..k : g[n] = grow(g[n - 1], n)
  BY <1>7
<1>9. g[k] \in P[k]
  <2> HIDE DEF grow
  <2> DEFINE S == {n \in 0..k : g[n] \in P[n]}
  <2>1. 0 \in S /\ \A n \in 1..k : n - 1 \in S => n \in S
    BY <1>2, <1>3, <1>8
  <2> HIDE DEF S
  <2>2. k \in S
    BY <2>1, UpTo
  <2>3. QED
    BY <2>2 DEF S
<1>10. k \in 0..k
  OBVIOUS
<1>11. g[k] \in Nat /\ g[k] > 0 /\ use + k <= g[k]
  BY <1>9, <1>10 DEF P
<1>12. QED
  BY <1>1, <1>11

\* AddBand puts a regular list below a regular list.
LEMMA AddBandIs ==
  ASSUME NEW R, Regular(R), NEW A, Regular(A),
         \A i \in DOMAIN R, j \in DOMAIN A : R[i].bottom <= A[j].top,
         NEW prev, LastBand(R, prev),
         NEW have \in Nat, have > 0, Len(R) <= have
  PROVE  LET after == AddBand([rects |-> R, prev |-> prev, have |-> have], A)
         IN  /\ after = [rects |-> after.rects, prev |-> after.prev, have |-> after.have]
             /\ Regular(after.rects) /\ Points(after.rects) = Points(R) \cup Points(A)
             /\ after.have \in Nat /\ after.have > 0 /\ Len(after.rects) <= after.have
             /\ (\A i \in DOMAIN A : A[i].top = A[1].top) => LastBand(after.rects, after.prev)
<1> DEFINE before == [rects |-> R, prev |-> prev, have |-> have]
           after == AddBand(before, A)
           L == R \o A
           r == Len(R)
           a == Len(A)
           cur == r + 1
           u == UnionSimilarBand(L, prev, cur)
           grown == Grown(have, r, a)
<1>1. /\ InBands(R) /\ R \in Seq(Boxes) /\ Apart(R) /\ r \in Nat /\ DOMAIN R = 1..r
      /\ InBands(A) /\ A \in Seq(Boxes) /\ Apart(A) /\ a \in Nat /\ DOMAIN A = 1..a
  BY DEF Regular, InBands
<1>2. CASE A = <<>>
  <2>1. after = before
    BY <1>2 DEF AddBand
  <2>2. Points(A) = {}
    BY <1>2 DEF Points
  <2>3. QED
    BY <2>1, <2>2
<1>3. CASE A # <<>>
  <2>1. after = [rects |-> u.rects, prev |-> u.start, have |-> grown]
    BY <1>3 DEF AddBand
  <2>2. grown \in Nat /\ grown > 0 /\ r + a <= grown
    BY <1>1, GrownIs
  <2>3. a > 0
    BY <1>1, <1>3
  <2>4. InBands(L) /\ Points(L) = Points(R) \cup Points(A)
    BY <1>1, ConcatInBands, ConcatPoints
  <2>5. /\ L \in Seq(Boxes) /\ Len(L) = r + a /\ DOMAIN L = 1..(r + a)
        /\ \A i \in 1..r : L[i] = R[i]
        /\ \A i \in 1..a : L[r + i] = A[i]
        /\ \A i \in 1..(r + a) : i \in 1..r \/ (i - r \in 1..a /\ L[i] = A[i - r])
    BY <1>1, ConcatIs
  <2>6. \A i \in DOMAIN R : R[i].top \in Int /\ R[i].bottom \in Int /\ R[i].top < R[i].bottom
    BY <1>1, ListIs
  <2>7. \A i \in DOMAIN A : A[i].top \in Int /\ A[1].top <= A[i].top
    <3> TAKE i \in DOMAIN A
    <3>1. 1 \in DOMAIN A /\ i \in Int
      BY <1>1, <2>3
    <3>2. A[i].top \in Int /\ A[1].top \in Int /\ A[1].bottom \in Int /\ A[1].top < A[1].bottom
      BY <1>1, <3>1, ListIs
    <3>3. i = 1 \/ Follows(A[1], A[i])
      BY <1>1, <3>1 DEF InBands
    <3>4. QED
      BY <3>2, <3>3 DEF Follows
  <2> HIDE DEF after, L, u, grown, r, a
  <2>8. cur \in DOMAIN L /\ L[cur] = A[1] /\ 1 \in DOMAIN A /\ cur \in Int
    BY <1>1, <2>3, <2>5
  <2>9. StartsBand(L, cur)
    <3>1. SUFFICES ASSUME cur # 1 PROVE L[cur - 1].top # L[cur].top
      BY DEF StartsBand
    <3>2. cur - 1 = r /\ r \in 1..r
      BY <1>1, <3>1
    <3>3. L[cur - 1] = R[r] /\ R[r].bottom <= A[1].top /\ r \in DOMAIN R
      BY <1>1, <2>5, <2>8, <3>2
    <3>4. QED
      BY <2>6, <2>7, <2>8, <3>3
  <2>10. Neighbours(L, prev, cur)
    <3>1. CASE R = <<>>
      <4>1. r = 0
        BY <3>1 DEF r
      <4>2. prev = 1
        BY <3>1 DEF LastBand
      <4>3. QED
        BY <2>8, <2>9, <4>1, <4>2 DEF Neighbours
    <3>2. CASE R # <<>>
      <4>1. prev \in 1..r /\ StartsBand(R, prev) /\ BandEnd(R, prev) = cur
        BY <1>1, <3>2 DEF LastBand, r
      <4>2. prev \in Int /\ prev \in 1..(cur - 1) /\ prev \in DOMAIN L /\ prev \in DOMAIN R
        BY <1>1, <2>5, <4>1
      <4>3. StartsBand(L, prev)
        <5>1. SUFFICES ASSUME prev # 1 PROVE L[prev - 1].top # L[prev].top
          BY DEF StartsBand
        <5>2. prev - 1 \in 1..r /\ prev \in 1..r
          BY <1>1, <4>1, <4>2, <5>1
        <5>3. L[prev - 1] = R[prev - 1] /\ L[prev] = R[prev]
          BY <2>5, <5>2
        <5>4. QED
          BY <4>1, <5>1, <5>3 DEF StartsBand
      <4>4. BandEnd(L, prev) = cur
        <5>1. \A k \in prev..(cur - 1) : R[k].top = R[prev].top
          BY <1>1, <4>1, <4>2, BandEndIs
        <5>2. \A k \in prev..(cur - 1) : L[k].top = L[prev].top
          BY <1>1, <2>5, <4>1, <4>2, <5>1
        <5>3. L[cur].top # L[prev].top
          <6>1. R[prev].bottom <= A[1].top /\ L[prev] = R[prev]
            BY <2>5, <2>8, <4>1, <4>2
          <6>2. QED
            BY <2>6, <2>7, <2>8, <4>2, <6>1
        <5>4. cur \in (prev + 1)..(Len(L) + 1)
          BY <1>1, <2>3, <2>5, <4>2
        <5> HIDE DEF cur
        <5>5. QED
          BY ONLY <2>5, <4>2, <5>2, <5>3, <5>4, BandEndIsOnly
      <4>5. QED
        BY <2>8, <2>9, <4>2, <4>3, <4>4 DEF Neighbours
    <3>3. QED
      BY <3>1, <3>2
  <2>11. ApartBut(L, cur)
    <3> DEFINE t == A[1].top
    <3>1. \A y \in Int : y < t => RowOf(Points(L), y) = RowOf(Points(R), y)
      <4> SUFFICES ASSUME NEW y \in Int, y < t
                   PROVE  RowOf(Points(L), y) = RowOf(Points(R), y)
        OBVIOUS
      <4>1. \A x : x \notin RowOf(Points(A), y)
        BY <1>1, <2>7, <2>8, InRow
      <4>2. \A x : <<x, y>> \in Points(A) => x \in RowOf(Points(A), y)
        BY <1>1, PointsAre DEF RowOf
      <4>3. QED
        BY <2>4, <4>1, <4>2 DEF RowOf
    <3>2. \A y \in Int : t <= y => RowOf(Points(L), y) = RowOf(Points(A), y)
      <4> SUFFICES ASSUME NEW y \in Int, t <= y
                   PROVE  RowOf(Points(L), y) = RowOf(Points(A), y)
        OBVIOUS
      <4>1. \A i \in DOMAIN R : R[i].bottom <= t
        BY <2>8
      <4>2. \A x : x \notin RowOf(Points(R), y)
        BY <1>1, <2>6, <2>7, <2>8, <4>1, InRow
      <4>3. \A x : <<x, y>> \in Points(R) => x \in RowOf(Points(R), y)
        BY <1>1, PointsAre DEF RowOf
      <4>4. QED
        BY <2>4, <4>2, <4>3 DEF RowOf
    <3>3. SUFFICES ASSUME NEW i \in DOMAIN L, L[i].top # t
                   PROVE  RowOf(Points(L), L[i].top - 1) # RowOf(Points(L), L[i].top)
      BY <2>8 DEF ApartBut
    <3>4. CASE i \in 1..r
      <4>1. i \in DOMAIN R /\ L[i] = R[i] /\ R[i].bottom <= t
        BY <1>1, <2>5, <2>8, <3>4
      <4>2. R[i].top \in Int /\ R[i].top - 1 \in Int /\ R[i].top < t /\ R[i].top - 1 < t
        BY <2>6, <2>7, <2>8, <4>1
      <4>3. RowOf(Points(R), R[i].top - 1) # RowOf(Points(R), R[i].top)
        BY <1>1, <4>1 DEF Apart
      <4>4. QED
        BY <3>1, <4>1, <4>2, <4>3
    <3>5. CASE i - r \in 1..a /\ L[i] = A[i - r]
      <4> DEFINE k == i - r
      <4>1. k \in DOMAIN A /\ L[i] = A[k]
        BY <1>1, <3>5
      <4> HIDE DEF k
      <4>2. A[k].top \in Int /\ A[k].top - 1 \in Int /\ t <= A[k].top - 1 /\ t <= A[k].top
        BY <2>7, <2>8, <3>3, <4>1
      <4>3. RowOf(Points(A), A[k].top - 1) # RowOf(Points(A), A[k].top)
        BY <1>1, <4>1 DEF Apart
      <4>4. QED
        BY <3>2, <4>1, <4>2, <4>3
    <3>6. QED
      BY <2>5, <3>4, <3>5
  <2>12. /\ Regular(u.rects) /\ Points(u.rects) = Points(L) /\ Len(u.rects) <= Len(L)
         /\ BandEnd(L, cur) > Len(L) => LastBand(u.rects, u.start)
    <3> HIDE DEF cur
    <3>1. QED
      BY <2>4, <2>10, <2>11, UnionRegular DEF u
  <2>13. ASSUME \A i \in DOMAIN A : A[i].top = A[1].top PROVE BandEnd(L, cur) > Len(L)
    <3> DEFINE e == BandEnd(L, cur)
    <3>1. e \in (cur + 1)..(Len(L) + 1) /\ (e <= Len(L) => L[e].top # L[cur].top)
      BY <2>5, <2>8, BandEndIs
    <3> HIDE DEF e
    <3>2. SUFFICES ASSUME e <= Len(L) PROVE FALSE
      BY <1>1, <2>5, <3>1 DEF e
    <3>3. e - r \in DOMAIN A /\ L[e] = A[e - r]
      BY <1>1, <2>5, <3>1, <3>2
    <3>4. QED
      BY <2>8, <2>13, <3>1, <3>2, <3>3
  <2>14. Len(u.rects) \in Nat
    BY <2>12 DEF Regular, InBands
  <2>15. /\ after.rects = u.rects /\ after.prev = u.start /\ after.have = grown
         /\ after = [rects |-> after.rects, prev |-> after.prev, have |-> after.have]
    BY <2>1
  <2>16. Len(after.rects) <= after.have
    BY <1>1, <2>2, <2>5, <2>12, <2>14, <2>15
  <2>17. QED
    BY <2>2, <2>4, <2>12, <2>13, <2>15, <2>16 DEF after
<1>4. QED
  BY <1>2, <1>3

-----------------------------------------------------------------------------
(* The loops over the rectangles of two bands.                            *)

\* A loop whose rounds lead on, by a size that decreases, writes what can be put
\* together of its rounds: P holds what may be written from a place on.
LEMMA WrittenFromIs ==
  ASSUME NEW turn, NEW size, NEW m \in Nat,
         \A p \in DOMAIN turn : size[p] \in 0..m,
         \A p \in DOMAIN turn :
           turn[p].next # p => turn[p].next \in DOMAIN turn /\ size[turn[p].next] < size[p],
         NEW G, G \subseteq DOMAIN turn, \A p \in G : turn[p].next \in G,
         NEW P,
         \A p \in G : turn[p].next = p => <<>> \in P[p],
         \A p \in G : turn[p].next # p => \A s \in P[turn[p].next] : turn[p].pieces \o s \in P[p],
         NEW place \in G
  PROVE  WrittenFrom(turn, place) \in P[place]
<1> DEFINE D == DOMAIN turn
           next(p) == turn[p].next
           put(p, s) == turn[p].pieces \o s
           Eq(f) == [p \in D |-> IF next(p) = p THEN <<>> ELSE put(p, f[next(p)])]
           from == CHOOSE f : f = Eq(f)
<1>1. WrittenFrom(turn, place) = from[place]
  BY DEF WrittenFrom
<1>2. /\ \A p \in D : size[p] \in 0..m
      /\ \A p \in D : next(p) # p => next(p) \in D /\ size[next(p)] < size[p]
      /\ G \subseteq D /\ \A p \in G : next(p) \in G
      /\ \A p \in G : next(p) = p => <<>> \in P[p]
      /\ \A p \in G : next(p) # p => \A s \in P[next(p)] : put(p, s) \in P[p]
  OBVIOUS
<1> HIDE DEF D, next, put
<1> DEFINE Upto(f, k) ==
             \A p \in D : size[p] <= k => f[p] = IF next(p) = p THEN <<>> ELSE put(p, f[next(p)])
<1>3. \E f : Upto(f, m)
  <2> DEFINE S == {k \in 0..m : \E f : Upto(f, k)}
  <2>1. 0 \in S
    <3> DEFINE f == [p \in D |-> <<>>]
    <3>1. Upto(f, 0)
      <4> SUFFICES ASSUME NEW p \in D, size[p] <= 0
                   PROVE  f[p] = IF next(p) = p THEN <<>> ELSE put(p, f[next(p)])
        OBVIOUS
      <4>1. next(p) = p
        BY <1>2
      <4>2. QED
        BY <4>1
    <3>2. QED
      BY <3>1
  <2>2. ASSUME NEW k \in 1..m, k - 1 \in S PROVE k \in S
    <3>1. PICK f : Upto(f, k - 1)
      BY <2>2
    <3> DEFINE g == [p \in D |-> IF size[p] <= k - 1 THEN f[p]
                                 ELSE IF next(p) = p THEN <<>> ELSE put(p, f[next(p)])]
    <3>2. \A p \in D : g[p] = IF size[p] <= k - 1 THEN f[p]
                              ELSE IF next(p) = p THEN <<>> ELSE put(p, f[next(p)])
      OBVIOUS
    <3> HIDE DEF g
    <3>3. \A p \in D : size[p] <= k => g[p] = IF next(p) = p THEN <<>> ELSE put(p, g[next(p)])
      <4> SUFFICES ASSUME NEW p \in D, size[p] <= k
                   PROVE  g[p] = IF next(p) = p THEN <<>> ELSE put(p, g[next(p)])
        OBVIOUS
      <4>1. g[p] = IF next(p) = p THEN <<>> ELSE put(p, f[next(p)])
        BY <3>1, <3>2
      <4>2. next(p) # p => g[next(p)] = f[next(p)]
        <5> SUFFICES ASSUME next(p) # p PROVE g[next(p)] = f[next(p)]
          OBVIOUS
        <5>1. next(p) \in D /\ size[next(p)] < size[p] /\ size[p] \in Int /\ size[next(p)] \in Int
          BY <1>2
        <5>2. size[next(p)] <= k - 1
          BY <5>1
        <5>3. QED
          BY <3>2, <5>1, <5>2
      <4>3. QED
        BY <4>1, <4>2
    <3>4. QED
      BY <3>3
  <2> HIDE DEF S
  <2>3. m \in S
    BY ONLY <2>1, <2>2, m \in Nat, UpTo
  <2>4. QED
    BY <2>3 DEF S
<1>4. PICK f : Upto(f, m)
  BY <1>3
<1> DEFINE g == [p \in D |-> f[p]]
<1>5. g = Eq(g)
  <2>1. \A p \in D : f[p] = IF next(p) = p THEN <<>> ELSE put(p, g[next(p)])
    <3> TAKE p \in D
    <3>1. f[p] = IF next(p) = p THEN <<>> ELSE put(p, f[next(p)])
      BY <1>2, <1>4
    <3>2. next(p) # p => g[next(p)] = f[next(p)]
      BY <1>2
    <3> HIDE DEF g
    <3>3. QED
      BY <3>1, <3>2
  <2>2. QED
    BY <2>1
<1> HIDE DEF g
<1>6. WrittenFrom(turn, place) = from[place]
  BY <1>1 DEF D, next, put
<1>7. from = Eq(from)
  BY <1>5
<1> HIDE DEF from
<1>8. \A p \in D : from[p] = IF next(p) = p THEN <<>> ELSE put(p, from[next(p)])
  BY <1>7
<1>9. \A p \in G : from[p] \in P[p]
  <2> DEFINE S == {k \in 0..m : \A p \in G : size[p] <= k => from[p] \in P[p]}
  <2>1. 0 \in S
    <3> SUFFICES ASSUME NEW p \in G, size[p] <= 0 PROVE from[p] \in P[p]
      OBVIOUS
    <3>1. next(p) = p /\ p \in D
      BY <1>2
    <3>2. QED
      BY <1>2, <1>8, <3>1
  <2>2. ASSUME NEW k \in 1..m, k - 1 \in S PROVE k \in S
    <3> SUFFICES ASSUME NEW p \in G, size[p] <= k PROVE from[p] \in P[p]
      OBVIOUS
    <3>1. p \in D /\ next(p) \in G
      BY <1>2
    <3>2. CASE next(p) = p
      BY <1>2, <1>8, <3>1, <3>2
    <3>3. CASE next(p) # p
      <4>1. next(p) \in D /\ size[next(p)] < size[p] /\ size[p] \in Int /\ size[next(p)] \in Int
        BY <1>2, <3>1, <3>3
      <4>2. size[next(p)] <= k - 1
        BY <4>1
      <4>3. from[next(p)] \in P[next(p)]
        BY <2>2, <3>1, <4>2
      <4>4. from[p] = put(p, from[next(p)])
        BY <1>8, <3>1, <3>3
      <4>5. put(p, from[next(p)]) \in P[p]
        BY <1>2, <3>3, <4>3
      <4>6. QED
        BY <4>4, <4>5
    <3>4. QED
      BY <3>2, <3>3
  <2> HIDE DEF S
  <2>3. m \in S
    BY ONLY <2>1, <2>2, m \in Nat, UpTo
  <2>4. QED
    BY <1>2, <2>3 DEF S
<1>10. QED
  BY <1>6, <1>9

\* A rectangle to the left of a band.
LEMMA PieceAndBand ==
  ASSUME NEW t \in 0..Rows, NEW b \in 0..Rows, NEW A, OneBand(A, t, b),
         NEW l \in 0..Columns, NEW r \in 0..Columns, l < r, \A x \in Cells(A) : r < x
  PROVE  /\ OneBand(<<Box(l, t, r, b)>> \o A, t, b)
         /\ \A x \in Int : x \in Cells(<<Box(l, t, r, b)>> \o A) <=> (l <= x /\ x < r) \/ x \in Cells(A)
<1> DEFINE B == <<Box(l, t, r, b)>>
           C == B \o A
           n == Len(A)
<1>1. A \in Seq(Boxes) /\ n \in Nat /\ DOMAIN A = 1..n
  BY DEF OneBand
<1>2. Box(l, t, r, b) \in Boxes
  BY DEF Box, Boxes
<1>3. B \in Seq(Boxes) /\ Len(B) = 1 /\ B[1] = Box(l, t, r, b)
  BY <1>2
<1>4. /\ C \in Seq(Boxes)
      /\ DOMAIN C = 1..(1 + n)
      /\ \A i \in 1..1 : C[i] = B[i]
      /\ \A i \in 1..n : C[1 + i] = A[i]
  <2>1. /\ B \o A \in Seq(Boxes)
        /\ DOMAIN (B \o A) = 1..(Len(B) + Len(A))
        /\ \A i \in 1..Len(B) : (B \o A)[i] = B[i]
        /\ \A i \in 1..Len(A) : (B \o A)[Len(B) + i] = A[i]
    BY ONLY <1>1, <1>3, ConcatIs
  <2> HIDE DEF B
  <2>2. QED
    BY <1>3, <2>1
<1> HIDE DEF C, B, n
<1>5. C[1].left = l /\ C[1].right = r /\ C[1].top = t /\ C[1].bottom = b
  <2>1. C[1] = Box(l, t, r, b)
    BY <1>3, <1>4
  <2>2. QED
    BY <2>1 DEF Box
<1>6. \A i \in 1..(1 + n) : i = 1 \/ (i - 1 \in 1..n /\ C[i] = A[i - 1])
  <2> TAKE i \in 1..(1 + n)
  <2>1. i # 1 => i - 1 \in 1..n /\ 1 + (i - 1) = i
    BY <1>1
  <2>2. QED
    BY <1>4, <2>1
<1>7. \A i \in 1..n : /\ A[i].top = t /\ A[i].bottom = b /\ A[i].left < A[i].right
                      /\ A[i].left \in Int /\ A[i].right \in Int
  <2>1. \A i \in 1..n : A[i] \in Boxes
    BY <1>1
  <2>2. QED
    BY <1>1, <2>1, BoxIs DEF OneBand
<1>8. \A i \in 1..n : r < A[i].left
  <2> TAKE i \in 1..n
  <2>1. A[i].left \in Int /\ i \in DOMAIN A /\ A[i].left <= A[i].left /\ A[i].left < A[i].right
    BY <1>1, <1>7
  <2>2. A[i].left \in Cells(A)
    BY <2>1 DEF Cells
  <2>3. QED
    BY <2>2
<1>9. \A i \in 1..(1 + n) : C[i].top = t /\ C[i].bottom = b /\ C[i].left < C[i].right
  BY <1>5, <1>6, <1>7
<1>10. \A i, j \in 1..(1 + n) : i < j => C[i].right < C[j].left
  <2> SUFFICES ASSUME NEW i \in 1..(1 + n), NEW j \in 1..(1 + n), i < j
               PROVE  C[i].right < C[j].left
    OBVIOUS
  <2>1. j - 1 \in 1..n /\ C[j] = A[j - 1]
    BY <1>1, <1>6
  <2>2. CASE i = 1
    BY <1>5, <1>8, <2>1, <2>2
  <2>3. CASE i # 1
    <3>1. i - 1 \in 1..n /\ C[i] = A[i - 1] /\ i - 1 < j - 1
      BY <1>1, <1>6, <2>3
    <3>2. A[i - 1].right < A[j - 1].left
      BY <1>1, <2>1, <3>1 DEF OneBand
    <3>3. QED
      BY <2>1, <3>1, <3>2
  <2>4. QED
    BY <2>2, <2>3
<1>11. OneBand(C, t, b)
  BY <1>4, <1>9, <1>10 DEF OneBand
<1>12. ASSUME NEW x \in Int PROVE x \in Cells(C) <=> (l <= x /\ x < r) \/ x \in Cells(A)
  <2>1. x \in Cells(C) <=> \E i \in 1..(1 + n) : C[i].left <= x /\ x < C[i].right
    BY <1>4 DEF Cells
  <2>2. x \in Cells(A) <=> \E i \in 1..n : A[i].left <= x /\ x < A[i].right
    BY <1>1 DEF Cells
  <2>3. 1 \in 1..(1 + n) /\ \A i \in 1..n : 1 + i \in 1..(1 + n)
    BY <1>1
  <2>4. QED
    BY <1>4, <1>5, <1>6, <2>1, <2>2, <2>3
<1>13. QED
  BY <1>11, <1>12 DEF B, C

\* No rectangle, and then a list.
LEMMA NothingAndBand ==
  ASSUME NEW S, NEW A \in Seq(S)
  PROVE  <<>> \o A = A
BY ConcatEmptySeq

\* The empty list is a band, without columns.
LEMMA NoCells ==
  ASSUME NEW t, NEW b
  PROVE  OneBand(<<>>, t, b) /\ Cells(<<>>) = {}
<1>1. <<>> \in Seq(Boxes) /\ DOMAIN <<>> = {}
  OBVIOUS
<1>2. QED
  BY <1>1 DEF OneBand, Cells

\* What subtract_overlapping_band does in a round.
LEMMA SubtractTurnIs ==
  ASSUME NEW band1 \in Seq(Boxes), NEW band2 \in Seq(Boxes), NEW top, NEW bottom,
         \A k \in DOMAIN band2 : band2[k].left < band2[k].right,
         NEW p \in SubtractPlaces(band1, band2)
  PROVE  LET turn == SubtractTurns(band1, band2, top, bottom)[p]
             r1 == band1[p.i]
             r2 == band2[p.j]
             next1 == Reached(p.i + 1, p.j, LeftEdge(band1, p.i + 1))
             after2 == IF r2.right >= r1.right THEN next1 ELSE Reached(p.i, p.j + 1, r2.right)
             piece(right) == <<Box(p.left, top, right, bottom)>>
         IN  /\ p.i > Len(band1) => turn.pieces = <<>> /\ turn.next = p
             /\ p.i <= Len(band1) /\ p.j > Len(band2) =>
                  turn.pieces = piece(r1.right) /\ turn.next = next1
             /\ p.i <= Len(band1) /\ p.j <= Len(band2) =>
                  /\ r2.right <= p.left =>
                       turn.pieces = <<>> /\ turn.next = Reached(p.i, p.j + 1, p.left)
                  /\ p.left < r2.right /\ r2.left <= p.left =>
                       turn.pieces = <<>> /\ turn.next = after2
                  /\ p.left < r2.right /\ p.left < r2.left /\ r2.left < r1.right =>
                       turn.pieces = piece(r2.left) /\ turn.next = after2
                  /\ p.left < r2.right /\ p.left < r2.left /\ r1.right <= r2.left =>
                       (p.left < r1.right => turn.pieces = piece(r1.right)) /\ turn.next = next1
<1> DEFINE T == SubtractTurns(band1, band2, top, bottom)
           n1 == Len(band1)
           n2 == Len(band2)
           r1 == band1[p.i]
           r2 == band2[p.j]
           next1 == Reached(p.i + 1, p.j, LeftEdge(band1, p.i + 1))
           after2 == IF r2.right >= r1.right THEN next1 ELSE Reached(p.i, p.j + 1, r2.right)
           piece(right) == <<Box(p.left, top, right, bottom)>>
           meeting ==
             CASE r2.right <= p.left -> Turn(<<>>, Reached(p.i, p.j + 1, p.left))
               [] r2.right > p.left /\ r2.left <= p.left -> Turn(<<>>, after2)
               [] r2.left > p.left /\ r2.left < r1.right -> Turn(piece(r2.left), after2)
               [] OTHER -> Turn(IF r1.right > p.left THEN piece(r1.right) ELSE <<>>, next1)
<1>1. T[p] = CASE p.i > n1 -> Turn(<<>>, p)
               [] p.i <= n1 /\ p.j > n2 -> Turn(piece(r1.right), next1)
               [] OTHER -> meeting
  BY DEF SubtractTurns
<1>2. p.i \in 1..(n1 + 1) /\ p.j \in 1..(n2 + 1) /\ p.left \in Int /\ n1 \in Nat /\ n2 \in Nat
  BY DEF SubtractPlaces
<1>3. \A pieces, next : Turn(pieces, next).pieces = pieces /\ Turn(pieces, next).next = next
  BY DEF Turn
<1>4. p.i <= n1 => r1.left \in Int /\ r1.right \in Int
  <2>1. p.i <= n1 => r1 \in Boxes
    BY <1>2
  <2>2. QED
    BY <2>1, BoxIs
<1>5. p.j <= n2 => r2.left \in Int /\ r2.right \in Int /\ r2.left < r2.right
  <2>1. p.j <= n2 => r2 \in Boxes /\ r2.left < r2.right
    BY <1>2
  <2>2. QED
    BY <2>1, BoxIs
<1> HIDE DEF T, n1, n2, r1, r2, next1, after2, piece
<1>6. CASE p.i > n1
  <2>1. T[p] = Turn(<<>>, p)
    BY <1>1, <1>2, <1>6
  <2>2. QED
    BY <1>2, <1>3, <1>6, <2>1 DEF T, n1
<1>7. CASE p.i <= n1 /\ p.j > n2
  <2>1. T[p] = Turn(piece(r1.right), next1)
    BY <1>1, <1>2, <1>7
  <2>2. T[p].pieces = piece(r1.right) /\ T[p].next = next1
    BY <1>3, <2>1
  <2>3. QED
    BY <1>2, <1>7, <2>2 DEF T, n1, n2, r1, next1, piece
<1>8. CASE p.i <= n1 /\ p.j <= n2
  <2>1. T[p] = meeting
    <3> HIDE DEF meeting
    <3>1. QED
      BY <1>1, <1>2, <1>8
  <2>2. r2.right <= p.left => T[p].pieces = <<>> /\ T[p].next = Reached(p.i, p.j + 1, p.left)
    BY <1>2, <1>3, <1>5, <1>8, <2>1
  <2>3. p.left < r2.right /\ r2.left <= p.left => T[p].pieces = <<>> /\ T[p].next = after2
    BY <1>2, <1>3, <1>5, <1>8, <2>1
  <2>4. p.left < r2.right /\ p.left < r2.left /\ r2.left < r1.right =>
          T[p].pieces = piece(r2.left) /\ T[p].next = after2
    BY <1>2, <1>3, <1>5, <1>8, <2>1
  <2>5. p.left < r2.right /\ p.left < r2.left /\ r1.right <= r2.left =>
          (p.left < r1.right => T[p].pieces = piece(r1.right)) /\ T[p].next = next1
    BY <1>2, <1>3, <1>4, <1>5, <1>8, <2>1
  <2>6. QED
    BY <1>2, <1>8, <2>2, <2>3, <2>4, <2>5 DEF T, n1, n2, r1, r2, next1, after2, piece
<1>9. QED
  BY <1>2, <1>6, <1>7, <1>8

\* What a band's boxes are, one by one.
LEMMA OneBandIs ==
  ASSUME NEW t, NEW b, NEW A, OneBand(A, t, b)
  PROVE  /\ A \in Seq(Boxes) /\ Len(A) \in Nat /\ DOMAIN A = 1..Len(A)
         /\ \A k \in 1..Len(A) : /\ A[k].left \in 0..Columns /\ A[k].right \in 0..Columns
                                 /\ A[k].left < A[k].right
         /\ \A j, k \in 1..Len(A) : j < k => A[j].right < A[k].left
         /\ \A x : x \in Cells(A) <=> x \in Int /\ \E k \in 1..Len(A) : A[k].left <= x /\ x < A[k].right
<1>1. A \in Seq(Boxes) /\ Len(A) \in Nat /\ DOMAIN A = 1..Len(A)
  BY DEF OneBand
<1>2. \A k \in 1..Len(A) : A[k] \in Boxes
  BY <1>1
<1>3. \A k \in 1..Len(A) : A[k].left \in 0..Columns /\ A[k].right \in 0..Columns
  BY <1>2 DEF Boxes
<1>4. QED
  BY <1>1, <1>3 DEF OneBand, Cells

\* What is left of the first band at a place of the loop, and the places reached.
LeftAt(band1, p, x) ==
  /\ p.i <= Len(band1)
  /\ \/ p.left <= x /\ x < band1[p.i].right
     \/ \E k \in (p.i + 1)..Len(band1) : band1[k].left <= x /\ x < band1[k].right

\* The places the loop of subtract_overlapping_band comes by: left is in the current
\* rectangle of the first band, and behind those of the second that were passed.
ReachedPlaces(band1, band2) ==
  {p \in SubtractPlaces(band1, band2) :
     p.i <= Len(band1) => /\ band1[p.i].left <= p.left /\ p.left < band1[p.i].right
                          /\ \A k \in 1..(p.j - 1) : band2[k].right <= p.left}

\* On to the next rectangle of the first band.
LEMMA NextOfFirst ==
  ASSUME NEW t1, NEW b1, NEW band1, OneBand(band1, t1, b1),
         NEW t2, NEW b2, NEW band2, OneBand(band2, t2, b2),
         NEW p \in ReachedPlaces(band1, band2), p.i <= Len(band1)
  PROVE  LET q == Reached(p.i + 1, p.j, LeftEdge(band1, p.i + 1))
         IN  /\ q \in ReachedPlaces(band1, band2) /\ q.i = p.i + 1 /\ q.j = p.j
             /\ \A x \in Int : /\ LeftAt(band1, p, x) <=> (p.left <= x /\ x < band1[p.i].right)
                                                         \/ LeftAt(band1, q, x)
                               /\ LeftAt(band1, q, x) => band1[p.i].right < x
<1> DEFINE n1 == Len(band1)
           n2 == Len(band2)
           e == LeftEdge(band1, p.i + 1)
           q == Reached(p.i + 1, p.j, e)
<1>1. /\ n1 \in Nat
      /\ \A k \in 1..n1 : /\ band1[k].left \in 0..Columns /\ band1[k].right \in 0..Columns
                          /\ band1[k].left < band1[k].right
      /\ \A j, k \in 1..n1 : j < k => band1[j].right < band1[k].left
  BY OneBandIs
<1>2. /\ n2 \in Nat
      /\ \A k \in 1..n2 : band2[k].right \in 0..Columns
  BY OneBandIs
<1>3. /\ p.i \in 1..(n1 + 1) /\ p.j \in 1..(n2 + 1) /\ p.left \in 0..Columns
      /\ p.i <= n1
      /\ band1[p.i].left <= p.left /\ p.left < band1[p.i].right
      /\ \A k \in 1..(p.j - 1) : band2[k].right <= p.left
  BY DEF ReachedPlaces, SubtractPlaces
<1>4. p.i \in 1..n1
  BY <1>1, <1>3
<1>5. q.i = p.i + 1 /\ q.j = p.j /\ q.left = e /\ q = [i |-> p.i + 1, j |-> p.j, left |-> e]
  BY DEF Reached
<1>6. /\ p.i + 1 <= n1 => e = band1[p.i + 1].left /\ p.i + 1 \in 1..n1 /\ band1[p.i].right < e
      /\ e \in 0..Columns
  <2>1. p.i + 1 <= n1 => e = band1[p.i + 1].left /\ p.i + 1 \in 1..n1 /\ p.i < p.i + 1
    BY <1>1, <1>3 DEF LeftEdge
  <2>2. ~ p.i + 1 <= n1 => e = 0
    BY DEF LeftEdge
  <2>3. 0 \in 0..Columns
    BY SizeAssumption
  <2> HIDE DEF e, n1
  <2>4. QED
    BY <1>1, <1>4, <2>1, <2>2, <2>3
<1> HIDE DEF q, e, n1, n2
<1>7. q \in SubtractPlaces(band1, band2)
  <2>1. p.i + 1 \in 1..(n1 + 1)
    BY <1>1, <1>4
  <2>2. QED
    BY <1>3, <1>5, <1>6, <2>1 DEF SubtractPlaces, n1, n2
<1>8. q \in ReachedPlaces(band1, band2)
  <2>1. p.i + 1 <= n1 => e < band1[p.i + 1].right
    BY <1>1, <1>6
  <2>2. p.i + 1 <= n1 => \A k \in 1..(p.j - 1) : band2[k].right <= e
    <3> SUFFICES ASSUME p.i + 1 <= n1, NEW k \in 1..(p.j - 1) PROVE band2[k].right <= e
      OBVIOUS
    <3>1. band2[k].right <= p.left /\ band2[k].right \in Int
      BY <1>2, <1>3
    <3>2. p.left < band1[p.i].right /\ band1[p.i].right < e /\ band1[p.i].right \in Int
      BY <1>1, <1>3, <1>4, <1>6
    <3>3. QED
      BY <1>3, <1>6, <3>1, <3>2
  <2>3. p.i + 1 <= n1 => band1[p.i + 1].left <= e
    BY <1>6
  <2>4. QED
    BY <1>5, <1>7, <2>1, <2>2, <2>3 DEF ReachedPlaces, n1
<1>9. ASSUME NEW x \in Int
      PROVE  /\ LeftAt(band1, q, x) <=> \E k \in (p.i + 1)..n1 : band1[k].left <= x /\ x < band1[k].right
             /\ LeftAt(band1, q, x) => band1[p.i].right < x
  <2>1. LeftAt(band1, q, x) <=>
          /\ p.i + 1 <= n1
          /\ \/ band1[p.i + 1].left <= x /\ x < band1[p.i + 1].right
             \/ \E k \in (p.i + 2)..n1 : band1[k].left <= x /\ x < band1[k].right
    <3>1. (p.i + 1) + 1 = p.i + 2
      BY <1>3
    <3>2. QED
      BY <1>5, <1>6, <3>1 DEF LeftAt, n1
  <2>2. \A k \in (p.i + 1)..n1 : k = p.i + 1 \/ k \in (p.i + 2)..n1
    BY <1>1, <1>3
  <2>3. \A k \in (p.i + 2)..n1 : p.i + 1 <= n1 /\ k \in (p.i + 1)..n1
    BY <1>1, <1>3
  <2>4. p.i + 1 <= n1 => p.i + 1 \in (p.i + 1)..n1
    BY <1>1, <1>3
  <2>5. LeftAt(band1, q, x) <=> \E k \in (p.i + 1)..n1 : band1[k].left <= x /\ x < band1[k].right
    BY <2>1, <2>2, <2>3, <2>4, <1>1, <1>3
  <2>6. \A k \in (p.i + 1)..n1 : k \in 1..n1 /\ band1[p.i].right < band1[k].left
    <3> TAKE k \in (p.i + 1)..n1
    <3>1. k \in 1..n1 /\ p.i < k
      BY <1>1, <1>4
    <3>2. QED
      BY <1>1, <1>4, <3>1
  <2>7. LeftAt(band1, q, x) => band1[p.i].right < x
    BY <1>1, <1>4, <2>5, <2>6
  <2>8. QED
    BY <2>5, <2>7
<1>10. \A x \in Int : LeftAt(band1, p, x) <=>
                        \/ p.left <= x /\ x < band1[p.i].right
                        \/ \E k \in (p.i + 1)..n1 : band1[k].left <= x /\ x < band1[k].right
  BY <1>3 DEF LeftAt, n1
<1>11. QED
  BY <1>5, <1>8, <1>9, <1>10 DEF q, e, n1

\* On to the next rectangle of the second band.
LEMMA NextOfSecond ==
  ASSUME NEW t1, NEW b1, NEW band1, OneBand(band1, t1, b1),
         NEW t2, NEW b2, NEW band2, OneBand(band2, t2, b2),
         NEW p \in ReachedPlaces(band1, band2), p.i <= Len(band1), p.j <= Len(band2),
         NEW e \in 0..Columns, p.left <= e, band2[p.j].right <= e, e < band1[p.i].right
  PROVE  LET q == Reached(p.i, p.j + 1, e)
         IN  /\ q \in ReachedPlaces(band1, band2) /\ q.i = p.i /\ q.j = p.j + 1
             /\ \A x \in Int : /\ LeftAt(band1, p, x) <=> (p.left <= x /\ x < e) \/ LeftAt(band1, q, x)
                               /\ LeftAt(band1, q, x) => e <= x
<1> DEFINE n1 == Len(band1)
           n2 == Len(band2)
           q == Reached(p.i, p.j + 1, e)
<1>1. /\ n1 \in Nat
      /\ \A k \in 1..n1 : /\ band1[k].left \in 0..Columns /\ band1[k].right \in 0..Columns
                          /\ band1[k].left < band1[k].right
      /\ \A j, k \in 1..n1 : j < k => band1[j].right < band1[k].left
  BY OneBandIs
<1>2. /\ n2 \in Nat
      /\ \A k \in 1..n2 : band2[k].right \in 0..Columns
  BY OneBandIs
<1>3. /\ p.i \in 1..(n1 + 1) /\ p.j \in 1..(n2 + 1) /\ p.left \in 0..Columns
      /\ p.i <= n1 /\ p.j <= n2
      /\ band1[p.i].left <= p.left /\ p.left < band1[p.i].right
      /\ \A k \in 1..(p.j - 1) : band2[k].right <= p.left
  BY DEF ReachedPlaces, SubtractPlaces
<1>4. p.i \in 1..n1 /\ p.j \in 1..n2
  BY <1>1, <1>2, <1>3
<1>5. q.i = p.i /\ q.j = p.j + 1 /\ q.left = e /\ q = [i |-> p.i, j |-> p.j + 1, left |-> e]
  BY DEF Reached
<1> HIDE DEF q, n1, n2
<1>7. q \in SubtractPlaces(band1, band2)
  <2>1. p.j + 1 \in 1..(n2 + 1)
    BY <1>2, <1>4
  <2>2. QED
    BY <1>3, <1>5, <2>1 DEF SubtractPlaces, n1, n2
<1>8. q \in ReachedPlaces(band1, band2)
  <2>1. band1[p.i].left <= e
    BY <1>1, <1>3, <1>4
  <2>2. \A k \in 1..p.j : band2[k].right <= e
    <3> TAKE k \in 1..p.j
    <3>1. k = p.j \/ k \in 1..(p.j - 1)
      BY <1>3
    <3>2. k \in 1..(p.j - 1) => band2[k].right <= p.left /\ band2[k].right \in Int
      BY <1>2, <1>3
    <3>3. QED
      BY <1>3, <3>1, <3>2
  <2>3. /\ band1[q.i].left <= q.left /\ q.left < band1[q.i].right
        /\ \A k \in 1..(q.j - 1) : band2[k].right <= q.left
    <3>1. q.i = p.i /\ q.j = p.j + 1 /\ q.left = e
      BY <1>5
    <3>2. \A k \in 1..(q.j - 1) : band2[k].right <= q.left
      <4>1. q.j - 1 = p.j
        BY <1>3, <3>1
      <4>2. QED
        BY <2>2, <3>1, <4>1
    <3>3. band1[q.i].left <= q.left /\ q.left < band1[q.i].right
      BY <2>1, <3>1
    <3>4. QED
      BY <3>2, <3>3
  <2> HIDE DEF ReachedPlaces
  <2>4. QED
    BY <1>7, <2>3 DEF ReachedPlaces
<1>9. ASSUME NEW x \in Int
      PROVE  /\ LeftAt(band1, p, x) <=> (p.left <= x /\ x < e) \/ LeftAt(band1, q, x)
             /\ LeftAt(band1, q, x) => e <= x
  <2> DEFINE later == \E k \in (p.i + 1)..n1 : band1[k].left <= x /\ x < band1[k].right
  <2>1. LeftAt(band1, q, x) <=> (e <= x /\ x < band1[p.i].right) \/ later
    BY <1>3, <1>5 DEF LeftAt, n1
  <2>2. LeftAt(band1, p, x) <=> (p.left <= x /\ x < band1[p.i].right) \/ later
    BY <1>3, <1>5 DEF LeftAt, n1
  <2>3. \A k \in (p.i + 1)..n1 : k \in 1..n1 /\ band1[p.i].right < band1[k].left
    BY <1>1, <1>4
  <2>4. later => band1[p.i].right < x
    BY <1>1, <1>4, <2>3
  <2> HIDE DEF later
  <2>5. band1[p.i].right \in Int
    BY <1>1, <1>4
  <2>6. QED
    BY <1>3, <2>1, <2>2, <2>4, <2>5
<1>10. QED
  BY <1>5, <1>8, <1>9 DEF q

\* A round writes the columns from left to e, and takes away those from e to f.
TakesTo(band1, band2, p, q, e, f) ==
  /\ p.left <= e /\ e <= f
  /\ \A x \in Int :
       /\ LeftAt(band1, p, x) <=> (p.left <= x /\ x < f) \/ LeftAt(band1, q, x)
       /\ LeftAt(band1, q, x) => f <= x
       /\ p.left < e /\ e = f => ~ (LeftAt(band1, q, x) /\ x = e)
       /\ p.left <= x /\ x < e => x \notin Cells(band2)
       /\ e <= x /\ x < f => x \in Cells(band2)

\* A round of subtract_overlapping_band goes on by one rectangle of a band, and
\* takes from the first band what it passes.
LEMMA SubtractTakes ==
  ASSUME NEW t1, NEW b1, NEW band1, OneBand(band1, t1, b1),
         NEW t2, NEW b2, NEW band2, OneBand(band2, t2, b2), NEW top, NEW bottom,
         NEW p \in ReachedPlaces(band1, band2), p.i <= Len(band1)
  PROVE  LET turn == SubtractTurns(band1, band2, top, bottom)[p]
         IN  /\ turn.next \in ReachedPlaces(band1, band2)
             /\ \/ turn.next.i = p.i + 1 /\ turn.next.j = p.j
                \/ turn.next.i = p.i /\ turn.next.j = p.j + 1
             /\ \E e \in 0..Columns, f \in 0..Columns :
                  /\ turn.pieces = IF p.left < e THEN <<Box(p.left, top, e, bottom)>> ELSE <<>>
                  /\ TakesTo(band1, band2, p, turn.next, e, f)
<1> DEFINE turn == SubtractTurns(band1, band2, top, bottom)[p]
           n1 == Len(band1)
           n2 == Len(band2)
           r1 == band1[p.i]
           r2 == band2[p.j]
           next1 == Reached(p.i + 1, p.j, LeftEdge(band1, p.i + 1))
           after2 == IF r2.right >= r1.right THEN next1 ELSE Reached(p.i, p.j + 1, r2.right)
           piece(right) == <<Box(p.left, top, right, bottom)>>
           Writes(e) == IF p.left < e THEN piece(e) ELSE <<>>
           C2 == Cells(band2)
<1>1. /\ band1 \in Seq(Boxes) /\ n1 \in Nat
      /\ \A k \in 1..n1 : band1[k].left \in 0..Columns /\ band1[k].right \in 0..Columns
  BY OneBandIs
<1>2. /\ band2 \in Seq(Boxes) /\ n2 \in Nat /\ DOMAIN band2 = 1..n2
      /\ \A k \in 1..n2 : /\ band2[k].left \in 0..Columns /\ band2[k].right \in 0..Columns
                          /\ band2[k].left < band2[k].right
      /\ \A j, k \in 1..n2 : j < k => band2[j].right < band2[k].left
      /\ \A x : x \in C2 <=> x \in Int /\ \E k \in 1..n2 : band2[k].left <= x /\ x < band2[k].right
  BY OneBandIs
<1>3. /\ p \in SubtractPlaces(band1, band2)
      /\ p.i \in 1..(n1 + 1) /\ p.j \in 1..(n2 + 1) /\ p.left \in 0..Columns
      /\ p.i <= n1
      /\ r1.left <= p.left /\ p.left < r1.right
      /\ \A k \in 1..(p.j - 1) : band2[k].right <= p.left
  BY DEF ReachedPlaces, SubtractPlaces
<1>4. p.i \in 1..n1 /\ r1.left \in 0..Columns /\ r1.right \in 0..Columns
  BY <1>1, <1>3
<1>5. p.j <= n2 => /\ p.j \in 1..n2 /\ r2.left \in 0..Columns /\ r2.right \in 0..Columns
                   /\ r2.left < r2.right
  BY <1>2, <1>3
<1>6. /\ p.j > n2 => turn.pieces = piece(r1.right) /\ turn.next = next1
      /\ p.j <= n2 =>
           /\ r2.right <= p.left =>
                turn.pieces = <<>> /\ turn.next = Reached(p.i, p.j + 1, p.left)
           /\ p.left < r2.right /\ r2.left <= p.left =>
                turn.pieces = <<>> /\ turn.next = after2
           /\ p.left < r2.right /\ p.left < r2.left /\ r2.left < r1.right =>
                turn.pieces = piece(r2.left) /\ turn.next = after2
           /\ p.left < r2.right /\ p.left < r2.left /\ r1.right <= r2.left /\ p.left < r1.right =>
                turn.pieces = piece(r1.right) /\ turn.next = next1
  <2>1. /\ band1 \in Seq(Boxes) /\ band2 \in Seq(Boxes) /\ p \in SubtractPlaces(band1, band2)
        /\ \A k \in DOMAIN band2 : band2[k].left < band2[k].right
    BY <1>1, <1>2, <1>3
  <2>2. /\ p.i <= n1 /\ p.j > n2 => turn.pieces = piece(r1.right) /\ turn.next = next1
        /\ p.i <= n1 /\ p.j <= n2 =>
             /\ r2.right <= p.left =>
                  turn.pieces = <<>> /\ turn.next = Reached(p.i, p.j + 1, p.left)
             /\ p.left < r2.right /\ r2.left <= p.left =>
                  turn.pieces = <<>> /\ turn.next = after2
             /\ p.left < r2.right /\ p.left < r2.left /\ r2.left < r1.right =>
                  turn.pieces = piece(r2.left) /\ turn.next = after2
             /\ p.left < r2.right /\ p.left < r2.left /\ r1.right <= r2.left =>
                  (p.left < r1.right => turn.pieces = piece(r1.right)) /\ turn.next = next1
    BY ONLY <2>1, SubtractTurnIs
  <2> HIDE DEF turn, n1, n2, r1, r2, next1, after2, piece
  <2>3. QED
    BY <1>3, <2>2
<1>7. /\ next1 \in ReachedPlaces(band1, band2) /\ next1.i = p.i + 1 /\ next1.j = p.j
      /\ \A x \in Int : /\ LeftAt(band1, p, x) <=> (p.left <= x /\ x < r1.right)
                                                  \/ LeftAt(band1, next1, x)
                        /\ LeftAt(band1, next1, x) => r1.right < x
  BY <1>3, NextOfFirst
<1>8. ASSUME NEW e \in 0..Columns, p.j <= n2, p.left <= e, r2.right <= e, e < r1.right
      PROVE  LET q == Reached(p.i, p.j + 1, e)
             IN  /\ q \in ReachedPlaces(band1, band2) /\ q.i = p.i /\ q.j = p.j + 1
                 /\ \A x \in Int :
                      /\ LeftAt(band1, p, x) <=> (p.left <= x /\ x < e) \/ LeftAt(band1, q, x)
                      /\ LeftAt(band1, q, x) => e <= x
  BY <1>3, <1>8, NextOfSecond
<1>9. \A k \in 1..n2 : k < p.j => band2[k].right <= p.left
  BY <1>3
<1> HIDE DEF turn, n1, n2, r1, r2, next1, piece, C2
<1>10. p.j <= n2 => \A k \in 1..n2 : k > p.j => r2.right < band2[k].left
  BY <1>2, <1>5 DEF r2
\* Where the second band has no columns, and where it has.
<1>11. ASSUME NEW x \in Int, p.left <= x, p.j <= n2 => x < r2.left PROVE x \notin C2
  <2> SUFFICES ASSUME NEW k \in 1..n2, band2[k].left <= x, x < band2[k].right PROVE FALSE
    BY <1>2
  <2>1. band2[k].left \in Int /\ band2[k].right \in Int
    BY <1>2
  <2>2. ~ k < p.j
    BY <1>3, <1>9, <1>11, <2>1
  <2>3. p.j <= n2
    BY <1>2, <1>3, <2>2
  <2>4. k = p.j \/ k > p.j
    BY <1>3, <2>2
  <2>5. QED
    BY <1>5, <1>10, <1>11, <2>1, <2>3, <2>4 DEF r2
<1>12. ASSUME NEW x \in Int, p.j <= n2, r2.left <= x, x < r2.right PROVE x \in C2
  BY <1>2, <1>5, <1>12 DEF r2
<1> DEFINE Goal(q, e, f) ==
             /\ q \in ReachedPlaces(band1, band2)
             /\ (q.i = p.i + 1 /\ q.j = p.j) \/ (q.i = p.i /\ q.j = p.j + 1)
             /\ e \in 0..Columns /\ f \in 0..Columns
             /\ TakesTo(band1, band2, p, q, e, f)
<1>13. ASSUME NEW e \in 0..Columns, NEW f \in 0..Columns, turn.pieces = Writes(e), Goal(turn.next, e, f)
       PROVE  /\ turn.next \in ReachedPlaces(band1, band2)
              /\ \/ turn.next.i = p.i + 1 /\ turn.next.j = p.j
                 \/ turn.next.i = p.i /\ turn.next.j = p.j + 1
              /\ \E a \in 0..Columns, c \in 0..Columns :
                   /\ turn.pieces = Writes(a)
                   /\ TakesTo(band1, band2, p, turn.next, a, c)
  BY <1>13
<1>14. ASSUME p.j <= n2 => r1.right <= r2.left
       PROVE  Goal(next1, r1.right, r1.right)
  <2>1. TakesTo(band1, band2, p, next1, r1.right, r1.right)
    BY <1>3, <1>4, <1>5, <1>7, <1>11, <1>14 DEF TakesTo, C2
  <2>2. QED
    BY <1>4, <1>7, <2>1
<1>15. ASSUME p.j <= n2, NEW e \in 0..Columns, p.left <= e, r2.left <= e, e < r1.right,
              r1.right <= r2.right, p.left < e => e = r2.left
       PROVE  Goal(next1, e, r1.right)
  <2>1. TakesTo(band1, band2, p, next1, e, r1.right)
    BY <1>3, <1>4, <1>5, <1>7, <1>11, <1>12, <1>15 DEF TakesTo, C2
  <2>2. QED
    BY <1>4, <1>7, <2>1
<1>16. ASSUME p.j <= n2, NEW e \in 0..Columns, p.left <= e, r2.left <= e, e < r2.right,
              r2.right < r1.right, p.left < e => e = r2.left
       PROVE  Goal(Reached(p.i, p.j + 1, r2.right), e, r2.right)
  <2> DEFINE q == Reached(p.i, p.j + 1, r2.right)
  <2>1. /\ q \in ReachedPlaces(band1, band2) /\ q.i = p.i /\ q.j = p.j + 1
        /\ \A x \in Int : /\ LeftAt(band1, p, x) <=> (p.left <= x /\ x < r2.right) \/ LeftAt(band1, q, x)
                          /\ LeftAt(band1, q, x) => r2.right <= x
    BY <1>3, <1>5, <1>8, <1>16
  <2> HIDE DEF q
  <2>2. TakesTo(band1, band2, p, q, e, r2.right)
    BY <1>3, <1>4, <1>5, <1>11, <1>12, <1>16, <2>1 DEF TakesTo, C2
  <2>3. QED
    BY <1>5, <1>16, <2>1, <2>2 DEF q
<1>17. ASSUME p.j <= n2, r2.right <= p.left
       PROVE  Goal(Reached(p.i, p.j + 1, p.left), p.left, p.left)
  <2> DEFINE q == Reached(p.i, p.j + 1, p.left)
  <2>1. /\ q \in ReachedPlaces(band1, band2) /\ q.i = p.i /\ q.j = p.j + 1
        /\ \A x \in Int : /\ LeftAt(band1, p, x) <=> (p.left <= x /\ x < p.left) \/ LeftAt(band1, q, x)
                          /\ LeftAt(band1, q, x) => p.left <= x
    BY <1>3, <1>8, <1>17
  <2> HIDE DEF q
  <2>2. TakesTo(band1, band2, p, q, p.left, p.left)
    BY <1>3, <2>1 DEF TakesTo
  <2>3. QED
    BY <1>3, <2>1, <2>2 DEF q
<1> HIDE DEF Goal, Writes
<1>18. /\ Writes(p.left) = <<>>
       /\ \A e \in 0..Columns : p.left < e => Writes(e) = piece(e)
  BY <1>3 DEF Writes
<1>19. \E e \in 0..Columns, f \in 0..Columns : turn.pieces = Writes(e) /\ Goal(turn.next, e, f)
  <2>1. CASE p.j > n2
    BY <1>2, <1>3, <1>4, <1>6, <1>14, <1>18, <2>1
  <2>2. CASE p.j <= n2 /\ r2.right <= p.left
    BY <1>3, <1>6, <1>17, <1>18, <2>2
  <2>3. CASE p.j <= n2 /\ p.left < r2.right /\ r2.left <= p.left
    <3>1. turn.pieces = Writes(p.left) /\ turn.next = after2
      BY <1>6, <1>18, <2>3
    <3>2. CASE r2.right >= r1.right
      BY <1>3, <1>4, <1>5, <1>15, <2>3, <3>1, <3>2
    <3>3. CASE ~ r2.right >= r1.right
      BY <1>3, <1>4, <1>5, <1>16, <2>3, <3>1, <3>3
    <3>4. QED
      BY <3>2, <3>3
  <2>4. CASE p.j <= n2 /\ p.left < r2.right /\ p.left < r2.left /\ r2.left < r1.right
    <3>1. turn.pieces = Writes(r2.left) /\ turn.next = after2
      BY <1>5, <1>6, <1>18, <2>4
    <3>2. CASE r2.right >= r1.right
      BY <1>3, <1>4, <1>5, <1>15, <2>4, <3>1, <3>2
    <3>3. CASE ~ r2.right >= r1.right
      BY <1>3, <1>4, <1>5, <1>16, <2>4, <3>1, <3>3
    <3>4. QED
      BY <3>2, <3>3
  <2>5. CASE p.j <= n2 /\ p.left < r2.right /\ p.left < r2.left /\ r1.right <= r2.left
    BY <1>3, <1>4, <1>6, <1>14, <1>18, <2>5
  <2>6. QED
    BY <1>2, <1>3, <1>4, <1>5, <2>1, <2>2, <2>3, <2>4, <2>5
<1>20. QED
  BY <1>13, <1>19 DEF turn, Writes, piece

\* What is left of the first band from a place on, without the second.
LEMMA SubtractGoesOn ==
  ASSUME NEW t1, NEW b1, NEW band1, OneBand(band1, t1, b1),
         NEW t2, NEW b2, NEW band2, OneBand(band2, t2, b2),
         NEW top \in 0..Rows, NEW bottom \in 0..Rows,
         NEW p \in ReachedPlaces(band1, band2), NEW q, NEW pieces,
         NEW e \in 0..Columns, NEW f \in 0..Columns,
         pieces = IF p.left < e THEN <<Box(p.left, top, e, bottom)>> ELSE <<>>,
         TakesTo(band1, band2, p, q, e, f),
         NEW s, OneBand(s, top, bottom),
         \A x \in Int : x \in Cells(s) <=> LeftAt(band1, q, x) /\ x \notin Cells(band2)
  PROVE  /\ OneBand(pieces \o s, top, bottom)
         /\ \A x \in Int : x \in Cells(pieces \o s) <=> LeftAt(band1, p, x) /\ x \notin Cells(band2)
<1>1. p.left \in 0..Columns
  BY DEF ReachedPlaces, SubtractPlaces
<1>2. s \in Seq(Boxes) /\ Cells(s) \subseteq Int
  BY DEF OneBand, Cells
<1>3. CASE ~ p.left < e
  <2>1. pieces \o s = s
    BY <1>2, <1>3, NothingAndBand
  <2>2. \A x \in Int : x \in Cells(s) <=> LeftAt(band1, p, x) /\ x \notin Cells(band2)
    BY <1>1, <1>3 DEF TakesTo
  <2>3. QED
    BY <2>1, <2>2
<1>4. CASE p.left < e
  <2> DEFINE whole == <<Box(p.left, top, e, bottom)>> \o s
  <2>1. pieces \o s = whole
    BY <1>4
  <2>2. \A x \in Cells(s) : e < x
    BY <1>1, <1>2, <1>4 DEF TakesTo
  <2>3. /\ OneBand(whole, top, bottom)
        /\ \A x \in Int : x \in Cells(whole) <=> (p.left <= x /\ x < e) \/ x \in Cells(s)
    BY <1>1, <1>4, <2>2, PieceAndBand
  <2> HIDE DEF whole
  <2>4. \A x \in Int : x \in Cells(whole) <=> LeftAt(band1, p, x) /\ x \notin Cells(band2)
    BY <1>1, <1>4, <2>3 DEF TakesTo
  <2>5. QED
    BY <2>1, <2>3, <2>4
<1>5. QED
  BY <1>3, <1>4

\* Every round leads on.
LEMMA SubtractLeadsOn ==
  ASSUME NEW t1, NEW b1, NEW band1, OneBand(band1, t1, b1),
         NEW t2, NEW b2, NEW band2, OneBand(band2, t2, b2), NEW top, NEW bottom,
         NEW p \in SubtractPlaces(band1, band2), p.i <= Len(band1)
  PROVE  LET next == SubtractTurns(band1, band2, top, bottom)[p].next
         IN  /\ next \in SubtractPlaces(band1, band2)
             /\ (next.i = p.i + 1 /\ next.j = p.j) \/ (next.i = p.i /\ next.j = p.j + 1)
<1> DEFINE turn == SubtractTurns(band1, band2, top, bottom)[p]
           n1 == Len(band1)
           n2 == Len(band2)
           r1 == band1[p.i]
           r2 == band2[p.j]
           next1 == Reached(p.i + 1, p.j, LeftEdge(band1, p.i + 1))
           after2 == IF r2.right >= r1.right THEN next1 ELSE Reached(p.i, p.j + 1, r2.right)
           piece(right) == <<Box(p.left, top, right, bottom)>>
           D == SubtractPlaces(band1, band2)
           Leads(q) == q \in D /\ ((q.i = p.i + 1 /\ q.j = p.j) \/ (q.i = p.i /\ q.j = p.j + 1))
<1>1. /\ band1 \in Seq(Boxes) /\ n1 \in Nat
      /\ \A k \in 1..n1 : band1[k].left \in 0..Columns /\ band1[k].right \in 0..Columns
  BY OneBandIs
<1>2. /\ band2 \in Seq(Boxes) /\ n2 \in Nat
      /\ \A k \in 1..n2 : /\ band2[k].left \in 0..Columns /\ band2[k].right \in 0..Columns
                          /\ band2[k].left < band2[k].right
      /\ \A k \in DOMAIN band2 : band2[k].left < band2[k].right
  BY OneBandIs
<1>3. p.i \in 1..(n1 + 1) /\ p.j \in 1..(n2 + 1) /\ p.left \in 0..Columns /\ p.i <= n1
  BY DEF SubtractPlaces
<1>4. p.i \in 1..n1 /\ r1.left \in Int /\ r1.right \in Int
  BY <1>1, <1>3
<1>5. p.j <= n2 => p.j \in 1..n2 /\ r2.left \in 0..Columns /\ r2.right \in 0..Columns
  BY <1>2, <1>3
<1>6. /\ p.i <= n1 /\ p.j > n2 => turn.pieces = piece(r1.right) /\ turn.next = next1
      /\ p.i <= n1 /\ p.j <= n2 =>
           /\ r2.right <= p.left =>
                turn.pieces = <<>> /\ turn.next = Reached(p.i, p.j + 1, p.left)
           /\ p.left < r2.right /\ r2.left <= p.left =>
                turn.pieces = <<>> /\ turn.next = after2
           /\ p.left < r2.right /\ p.left < r2.left /\ r2.left < r1.right =>
                turn.pieces = piece(r2.left) /\ turn.next = after2
           /\ p.left < r2.right /\ p.left < r2.left /\ r1.right <= r2.left =>
                (p.left < r1.right => turn.pieces = piece(r1.right)) /\ turn.next = next1
  BY ONLY <1>1, <1>2, p \in SubtractPlaces(band1, band2), SubtractTurnIs
<1>7. Leads(next1)
  <2>1. p.i + 1 \in 1..(n1 + 1) /\ LeftEdge(band1, p.i + 1) \in 0..Columns
    BY <1>1, <1>4, SizeAssumption DEF LeftEdge
  <2>2. QED
    BY <1>3, <2>1 DEF Reached, SubtractPlaces
<1>8. \A e \in 0..Columns : p.j <= n2 => Leads(Reached(p.i, p.j + 1, e))
  <2>1. p.j <= n2 => p.j + 1 \in 1..(n2 + 1)
    BY <1>2, <1>3
  <2>2. QED
    BY <1>3, <2>1 DEF Reached, SubtractPlaces
<1> HIDE DEF turn, n1, n2, r1, r2, next1, piece, D, Leads
<1>9. p.j <= n2 => Leads(after2)
  BY <1>5, <1>7, <1>8
<1> HIDE DEF after2
<1>10. Leads(turn.next)
  BY <1>2, <1>3, <1>4, <1>5, <1>6, <1>7, <1>8, <1>9
<1>11. QED
  BY <1>10 DEF Leads, turn, D

\* subtract_overlapping_band leaves one band, with the columns of the first that
\* are not in the second.
LEMMA SubtractIs ==
  ASSUME NEW t1, NEW b1, NEW band1, OneBand(band1, t1, b1), band1 # <<>>,
         NEW t2, NEW b2, NEW band2, OneBand(band2, t2, b2),
         NEW top \in 0..Rows, NEW bottom \in 0..Rows
  PROVE  /\ OneBand(SubtractBands(band1, band2, top, bottom), top, bottom)
         /\ Cells(SubtractBands(band1, band2, top, bottom)) = Cells(band1) \ Cells(band2)
<1> DEFINE turn == SubtractTurns(band1, band2, top, bottom)
           n1 == Len(band1)
           n2 == Len(band2)
           D == SubtractPlaces(band1, band2)
           G == ReachedPlaces(band1, band2)
           size == [p \in D |-> (n1 + 1 - p.i) + (n2 + 1 - p.j)]
           Writes(s, p) ==
             /\ OneBand(s, top, bottom)
             /\ \A x \in Int : x \in Cells(s) <=> LeftAt(band1, p, x) /\ x \notin Cells(band2)
           P == [p \in D |-> {s \in Seq(Boxes) : Writes(s, p)}]
           start == Reached(1, 1, band1[1].left)
           all == WrittenFrom(turn, start)
<1>1. /\ band1 \in Seq(Boxes) /\ n1 \in Nat
      /\ \A k \in 1..n1 : /\ band1[k].left \in 0..Columns /\ band1[k].right \in 0..Columns
                          /\ band1[k].left < band1[k].right
      /\ \A x : x \in Cells(band1) <=> x \in Int /\ \E k \in 1..n1 : band1[k].left <= x /\ x < band1[k].right
  BY OneBandIs
<1>2. /\ band2 \in Seq(Boxes) /\ n2 \in Nat
      /\ \A k \in DOMAIN band2 : band2[k].left < band2[k].right
  BY OneBandIs
<1>3. n1 >= 1
  BY <1>1
<1>4. DOMAIN turn = D
  BY DEF SubtractTurns
<1>5. /\ G \subseteq D
      /\ \A p \in D : p.i \in 1..(n1 + 1) /\ p.j \in 1..(n2 + 1)
  BY DEF ReachedPlaces, SubtractPlaces
<1>6. \A p \in D : p.i > n1 => turn[p].pieces = <<>> /\ turn[p].next = p
  <2> TAKE p \in D
  <2>1. p.i > Len(band1) => /\ SubtractTurns(band1, band2, top, bottom)[p].pieces = <<>>
                            /\ SubtractTurns(band1, band2, top, bottom)[p].next = p
    BY ONLY <1>1, <1>2, p \in D, SubtractTurnIs
  <2>2. QED
    BY <2>1
<1>7. \A p \in G : p.i <= n1 =>
        /\ turn[p].next \in G
        /\ (turn[p].next.i = p.i + 1 /\ turn[p].next.j = p.j) \/ (turn[p].next.i = p.i /\ turn[p].next.j = p.j + 1)
        /\ \E e \in 0..Columns, f \in 0..Columns :
             /\ turn[p].pieces = IF p.left < e THEN <<Box(p.left, top, e, bottom)>> ELSE <<>>
             /\ TakesTo(band1, band2, p, turn[p].next, e, f)
  BY SubtractTakes
<1>71. \A p \in D : p.i <= n1 =>
        /\ turn[p].next \in D
        /\ (turn[p].next.i = p.i + 1 /\ turn[p].next.j = p.j) \/ (turn[p].next.i = p.i /\ turn[p].next.j = p.j + 1)
  BY SubtractLeadsOn
<1> HIDE DEF turn, n1, n2, D, G, Writes
<1>8. \A p \in D : size[p] = (n1 + 1 - p.i) + (n2 + 1 - p.j)
  OBVIOUS
<1>9. start \in G
  <2>1. 1 \in 1..n1
    BY <1>1, <1>3
  <2>2. start.i = 1 /\ start.j = 1 /\ start.left = band1[1].left
    BY DEF Reached
  <2>3. start \in SubtractPlaces(band1, band2)
    <3>1. 1 \in 1..(n1 + 1) /\ 1 \in 1..(n2 + 1) /\ band1[1].left \in 0..Columns
      BY <1>1, <1>2, <2>1
    <3>2. QED
      BY <3>1 DEF Reached, SubtractPlaces, n1, n2
  <2> HIDE DEF start
  <2>4. QED
    BY <1>1, <2>1, <2>2, <2>3 DEF G, ReachedPlaces
<1> HIDE DEF size
<1>10. \A p \in D : size[p] \in 0..(n1 + n2)
  <2> TAKE p \in D
  <2>1. p.i \in 1..(n1 + 1) /\ p.j \in 1..(n2 + 1)
    BY <1>5
  <2>2. size[p] = (n1 + 1 - p.i) + (n2 + 1 - p.j) /\ n1 \in Nat /\ n2 \in Nat
    BY <1>1, <1>2, <1>8
  <2>3. QED
    BY <2>1, <2>2
<1>11. \A p \in D : turn[p].next # p => turn[p].next \in D /\ size[turn[p].next] < size[p]
  <2> SUFFICES ASSUME NEW p \in D, turn[p].next # p
               PROVE  turn[p].next \in D /\ size[turn[p].next] < size[p]
    OBVIOUS
  <2> DEFINE q == turn[p].next
  <2>1. p.i \in 1..(n1 + 1) /\ p.j \in 1..(n2 + 1) /\ p.i <= n1
    BY <1>1, <1>5, <1>6
  <2>2. q \in D /\ ((q.i = p.i + 1 /\ q.j = p.j) \/ (q.i = p.i /\ q.j = p.j + 1))
    BY <1>71, <2>1
  <2> HIDE DEF q
  <2>3. /\ size[p] = (n1 + 1 - p.i) + (n2 + 1 - p.j) /\ n1 \in Nat /\ n2 \in Nat
        /\ size[q] = (n1 + 1 - q.i) + (n2 + 1 - q.j)
    BY <1>1, <1>2, <1>8, <2>2
  <2>4. size[q] < size[p]
    <3>1. CASE q.i = p.i + 1 /\ q.j = p.j
      BY <2>1, <2>3, <3>1
    <3>2. CASE q.i = p.i /\ q.j = p.j + 1
      BY <2>1, <2>3, <3>2
    <3>3. QED
      BY <2>2, <3>1, <3>2
  <2>5. QED
    BY <2>2, <2>4 DEF q
<1>12. \A p \in G : turn[p].next \in G /\ (turn[p].next = p <=> ~ p.i <= n1)
  BY <1>1, <1>5, <1>6, <1>7
<1>13. \A p \in D : \A s : s \in P[p] <=> s \in Seq(Boxes) /\ Writes(s, p)
  OBVIOUS
<1> HIDE DEF P
<1>14. \A p \in G : turn[p].next = p => <<>> \in P[p]
  <2> SUFFICES ASSUME NEW p \in G, turn[p].next = p PROVE <<>> \in P[p]
    OBVIOUS
  <2>1. \A x \in Int : ~ LeftAt(band1, p, x)
    BY <1>12 DEF LeftAt, n1
  <2>2. Writes(<<>>, p)
    BY <2>1, NoCells DEF Writes
  <2>3. <<>> \in Seq(Boxes) /\ p \in D
    BY <1>5
  <2>4. QED
    BY <1>13, <2>2, <2>3
<1>15. ASSUME NEW p \in G, turn[p].next # p, NEW s \in P[turn[p].next]
       PROVE  turn[p].pieces \o s \in P[p]
  <2> DEFINE q == turn[p].next
             pieces == turn[p].pieces
  <2>1. p.i <= n1 /\ q \in G /\ p \in D /\ q \in D
    BY <1>5, <1>12, <1>15
  <2>2. s \in Seq(Boxes) /\ Writes(s, q)
    BY <1>13, <1>15, <2>1
  <2>3. PICK e \in 0..Columns, f \in 0..Columns :
               /\ pieces = IF p.left < e THEN <<Box(p.left, top, e, bottom)>> ELSE <<>>
               /\ TakesTo(band1, band2, p, q, e, f)
    BY <1>7, <1>15, <2>1
  <2> HIDE DEF q, pieces
  <2>4. /\ OneBand(pieces \o s, top, bottom)
        /\ \A x \in Int : x \in Cells(pieces \o s) <=> LeftAt(band1, p, x) /\ x \notin Cells(band2)
    <3>1. /\ OneBand(s, top, bottom)
          /\ \A x \in Int : x \in Cells(s) <=> LeftAt(band1, q, x) /\ x \notin Cells(band2)
      BY <2>2 DEF Writes
    <3>2. p \in ReachedPlaces(band1, band2) /\ top \in 0..Rows /\ bottom \in 0..Rows
          /\ OneBand(band1, t1, b1) /\ OneBand(band2, t2, b2)
      BY <1>15 DEF G
    <3>3. QED
      BY ONLY <2>3, <3>1, <3>2, SubtractGoesOn
  <2> DEFINE new_s == pieces \o s
  <2>5. new_s \in Seq(Boxes) /\ Writes(new_s, p)
    BY <2>4 DEF Writes, OneBand
  <2> HIDE DEF new_s
  <2>6. new_s \in P[p]
    BY <1>13, <2>1, <2>5
  <2>7. QED
    BY <2>6 DEF new_s, pieces
<1>16. all \in P[start]
  <2> HIDE DEF start
  <2>1. /\ n1 + n2 \in Nat
        /\ \A p \in DOMAIN turn : size[p] \in 0..(n1 + n2)
        /\ \A p \in DOMAIN turn :
             turn[p].next # p => turn[p].next \in DOMAIN turn /\ size[turn[p].next] < size[p]
        /\ G \subseteq DOMAIN turn /\ \A p \in G : turn[p].next \in G
    BY <1>1, <1>2, <1>4, <1>5, <1>10, <1>11, <1>12
  <2>2. QED
    BY ONLY <1>9, <1>14, <1>15, <2>1, WrittenFromIs
<1>17. Writes(all, start)
  BY <1>5, <1>9, <1>13, <1>16
<1>18. \A x \in Int : LeftAt(band1, start, x) <=> x \in Cells(band1)
  <2>1. start.i = 1 /\ start.left = band1[1].left
    BY DEF Reached
  <2>2. \A x : LeftAt(band1, start, x) <=>
                 \/ band1[1].left <= x /\ x < band1[1].right
                 \/ \E k \in 2..n1 : band1[k].left <= x /\ x < band1[k].right
    BY <1>1, <1>3, <2>1 DEF LeftAt, n1
  <2>3. 1 \in 1..n1 /\ \A k \in 1..n1 : k = 1 \/ k \in 2..n1
    BY <1>1, <1>3
  <2>4. \A k \in 2..n1 : k \in 1..n1
    BY <1>1
  <2> HIDE DEF start
  <2>5. QED
    BY <1>1, <2>2, <2>3, <2>4
<1>19. SubtractBands(band1, band2, top, bottom) = all
  BY DEF SubtractBands, turn
<1> HIDE DEF all, start
<1>20. OneBand(all, top, bottom) /\ Cells(all) = Cells(band1) \ Cells(band2)
  <2>1. OneBand(all, top, bottom) /\ \A x \in Int : x \in Cells(all) <=> x \in Cells(band1) /\ x \notin Cells(band2)
    BY <1>17, <1>18 DEF Writes
  <2>2. Cells(all) \subseteq Int /\ Cells(band1) \subseteq Int
    BY DEF Cells
  <2>3. QED
    BY <2>1, <2>2
<1>21. QED
  BY <1>19, <1>20

\* The places of the loop of intersect_overlapping_band.
IntersectPlaces(band1, band2) == [i : 1..(Len(band1) + 1), j : 1..(Len(band2) + 1)]

\* What the bands have in common at a place of the loop.
BothAt(band1, band2, p, x) ==
  /\ \E k \in p.i .. Len(band1) : band1[k].left <= x /\ x < band1[k].right
  /\ \E k \in p.j .. Len(band2) : band2[k].left <= x /\ x < band2[k].right

\* A round writes what its two rectangles have in common.
LEMMA IntersectTakes ==
  ASSUME NEW t1, NEW b1, NEW band1, OneBand(band1, t1, b1),
         NEW t2, NEW b2, NEW band2, OneBand(band2, t2, b2), NEW top, NEW bottom,
         NEW p \in IntersectPlaces(band1, band2), p.i <= Len(band1), p.j <= Len(band2)
  PROVE  LET turn == IntersectTurns(band1, band2, top, bottom)[p]
             q == turn.next
             left == Greater(band1[p.i].left, band2[p.j].left)
             right == Lesser(band1[p.i].right, band2[p.j].right)
         IN  /\ q \in IntersectPlaces(band1, band2)
             /\ \/ q.i = p.i + 1 /\ (q.j = p.j \/ q.j = p.j + 1)
                \/ q.i = p.i /\ q.j = p.j + 1
             /\ left \in 0..Columns /\ right \in 0..Columns
             /\ turn.pieces = IF left < right THEN <<Box(left, top, right, bottom)>> ELSE <<>>
             /\ \A x \in Int :
                  /\ BothAt(band1, band2, p, x) <=> (left <= x /\ x < right) \/ BothAt(band1, band2, q, x)
                  /\ BothAt(band1, band2, q, x) => right < x
<1> DEFINE turn == IntersectTurns(band1, band2, top, bottom)[p]
           n1 == Len(band1)
           n2 == Len(band2)
           r1 == band1[p.i]
           r2 == band2[p.j]
           left == Greater(r1.left, r2.left)
           right == Lesser(r1.right, r2.right)
           q == [i |-> IF r1.right <= r2.right THEN p.i + 1 ELSE p.i,
                 j |-> IF r2.right <= r1.right THEN p.j + 1 ELSE p.j]
           pieces == IF left < right THEN <<Box(left, top, right, bottom)>> ELSE <<>>
           In1(k, x) == band1[k].left <= x /\ x < band1[k].right
           In2(k, x) == band2[k].left <= x /\ x < band2[k].right
<1>1. /\ n1 \in Nat
      /\ \A k \in 1..n1 : /\ band1[k].left \in 0..Columns /\ band1[k].right \in 0..Columns
                          /\ band1[k].left < band1[k].right
      /\ \A j, k \in 1..n1 : j < k => band1[j].right < band1[k].left
  BY OneBandIs
<1>2. /\ n2 \in Nat
      /\ \A k \in 1..n2 : /\ band2[k].left \in 0..Columns /\ band2[k].right \in 0..Columns
                          /\ band2[k].left < band2[k].right
      /\ \A j, k \in 1..n2 : j < k => band2[j].right < band2[k].left
  BY OneBandIs
<1>3. p.i \in 1..(n1 + 1) /\ p.j \in 1..(n2 + 1) /\ p.i <= n1 /\ p.j <= n2
  BY DEF IntersectPlaces
<1>4. p.i \in 1..n1 /\ p.j \in 1..n2
  BY <1>1, <1>2, <1>3
<1>5. /\ r1.left \in 0..Columns /\ r1.right \in 0..Columns /\ r1.left < r1.right
      /\ r2.left \in 0..Columns /\ r2.right \in 0..Columns /\ r2.left < r2.right
  BY <1>1, <1>2, <1>4
<1>6. turn = Turn(pieces, q)
  <2>1. p \in [i : 1..(Len(band1) + 1), j : 1..(Len(band2) + 1)]
    BY DEF IntersectPlaces
  <2>2. ~ (p.i > n1 \/ p.j > n2)
    BY <1>1, <1>2, <1>3
  <2>3. turn = IF p.i > n1 \/ p.j > n2 THEN Turn(<<>>, p) ELSE Turn(pieces, q)
    BY ONLY <2>1 DEF IntersectTurns
  <2> HIDE DEF turn, pieces, q
  <2>4. QED
    BY <2>2, <2>3
<1>7. turn.pieces = pieces /\ turn.next = q
  BY <1>6 DEF Turn
<1>8. /\ r1.right <= r2.right => q.i = p.i + 1
      /\ ~ r1.right <= r2.right => q.i = p.i
      /\ r2.right <= r1.right => q.j = p.j + 1
      /\ ~ r2.right <= r1.right => q.j = p.j
      /\ q = [i |-> q.i, j |-> q.j]
  OBVIOUS
<1> HIDE DEF turn, n1, n2, r1, r2, q, pieces, left, right
<1>9. /\ q.i \in 1..(n1 + 1) /\ q.j \in 1..(n2 + 1)
      /\ (q.i = p.i + 1 /\ (q.j = p.j \/ q.j = p.j + 1)) \/ (q.i = p.i /\ q.j = p.j + 1)
  <2>1. p.i + 1 \in 1..(n1 + 1) /\ p.j + 1 \in 1..(n2 + 1)
    BY <1>1, <1>2, <1>4
  <2>2. r1.right <= r2.right \/ r2.right <= r1.right
    BY <1>5
  <2>3. /\ (q.i = p.i + 1 /\ (q.j = p.j \/ q.j = p.j + 1)) \/ (q.i = p.i /\ q.j = p.j + 1)
        /\ q.i = p.i \/ q.i = p.i + 1
        /\ q.j = p.j \/ q.j = p.j + 1
    BY <1>8, <2>2
  <2>4. q.i \in 1..(n1 + 1) /\ q.j \in 1..(n2 + 1)
    BY <1>3, <2>1, <2>3
  <2>5. QED
    BY <2>3, <2>4
<1>10. q \in IntersectPlaces(band1, band2)
  BY <1>8, <1>9 DEF IntersectPlaces, n1, n2
<1>11. /\ left \in 0..Columns /\ right \in 0..Columns
       /\ \A x \in Int : left <= x /\ x < right <=>
            (r1.left <= x /\ x < r1.right) /\ (r2.left <= x /\ x < r2.right)
  BY <1>5 DEF left, right, Greater, Lesser
<1>12. right <= r1.right /\ right <= r2.right
       /\ (r1.right <= r2.right => right = r1.right) /\ (r2.right <= r1.right => right = r2.right)
  BY <1>5 DEF right, Lesser
<1>13. \A k \in p.i .. n1 : k \in 1..n1 /\ (k = p.i \/ (k \in (p.i + 1)..n1 /\ r1.right < band1[k].left))
  <2> TAKE k \in p.i .. n1
  <2>1. k \in 1..n1 /\ (k = p.i \/ (k \in (p.i + 1)..n1 /\ p.i < k))
    BY <1>1, <1>4
  <2>2. QED
    BY <1>1, <1>4, <2>1 DEF r1
<1>14. \A k \in p.j .. n2 : k \in 1..n2 /\ (k = p.j \/ (k \in (p.j + 1)..n2 /\ r2.right < band2[k].left))
  <2> TAKE k \in p.j .. n2
  <2>1. k \in 1..n2 /\ (k = p.j \/ (k \in (p.j + 1)..n2 /\ p.j < k))
    BY <1>2, <1>4
  <2>2. QED
    BY <1>2, <1>4, <2>1 DEF r2
<1>15. /\ p.i \in p.i .. n1 /\ p.j \in p.j .. n2
       /\ \A k \in (p.i + 1)..n1 : k \in p.i .. n1 /\ k # p.i
       /\ \A k \in (p.j + 1)..n2 : k \in p.j .. n2 /\ k # p.j
  BY <1>1, <1>2, <1>4
<1>16. ASSUME NEW x \in Int
       PROVE  /\ BothAt(band1, band2, p, x) <=> (left <= x /\ x < right) \/ BothAt(band1, band2, q, x)
              /\ BothAt(band1, band2, q, x) => right < x
  <2> DEFINE first1 == r1.left <= x /\ x < r1.right
             first2 == r2.left <= x /\ x < r2.right
             later1 == \E k \in (p.i + 1)..n1 : In1(k, x)
             later2 == \E k \in (p.j + 1)..n2 : In2(k, x)
             all1 == \E k \in p.i .. n1 : In1(k, x)
             all2 == \E k \in p.j .. n2 : In2(k, x)
  <2>1. /\ all1 <=> first1 \/ later1
        /\ later1 => r1.right < x
    <3>1. all1 <=> first1 \/ later1
      BY <1>13, <1>15 DEF r1
    <3>2. \A k \in (p.i + 1)..n1 : band1[k].left \in Int /\ r1.right < band1[k].left
      BY <1>1, <1>13, <1>15
    <3>3. later1 => r1.right < x
      BY <1>5, <3>2
    <3>4. QED
      BY <3>1, <3>3
  <2>2. /\ all2 <=> first2 \/ later2
        /\ later2 => r2.right < x
    <3>1. all2 <=> first2 \/ later2
      BY <1>14, <1>15 DEF r2
    <3>2. \A k \in (p.j + 1)..n2 : band2[k].left \in Int /\ r2.right < band2[k].left
      BY <1>2, <1>14, <1>15
    <3>3. later2 => r2.right < x
      BY <1>5, <3>2
    <3>4. QED
      BY <3>1, <3>3
  <2>3. BothAt(band1, band2, p, x) <=> all1 /\ all2
    BY DEF BothAt, n1, n2
  <2>4. /\ r1.right <= r2.right /\ r2.right <= r1.right =>
             (BothAt(band1, band2, q, x) <=> later1 /\ later2)
        /\ r1.right <= r2.right /\ ~ r2.right <= r1.right =>
             (BothAt(band1, band2, q, x) <=> later1 /\ all2)
        /\ ~ r1.right <= r2.right /\ r2.right <= r1.right =>
             (BothAt(band1, band2, q, x) <=> all1 /\ later2)
    BY <1>8 DEF BothAt, n1, n2
  <2>5. left <= x /\ x < right <=> first1 /\ first2
    BY <1>11
  <2> HIDE DEF later1, later2, all1, all2
  <2>6. CASE r1.right <= r2.right /\ r2.right <= r1.right
    BY <1>5, <1>11, <1>12, <2>1, <2>2, <2>3, <2>4, <2>5, <2>6
  <2>7. CASE r1.right <= r2.right /\ ~ r2.right <= r1.right
    BY <1>5, <1>11, <1>12, <2>1, <2>2, <2>3, <2>4, <2>5, <2>7
  <2>8. CASE ~ r1.right <= r2.right /\ r2.right <= r1.right
    BY <1>5, <1>11, <1>12, <2>1, <2>2, <2>3, <2>4, <2>5, <2>8
  <2>9. QED
    BY <1>5, <2>6, <2>7, <2>8
<1> DEFINE Goal(next, written) ==
             /\ next \in IntersectPlaces(band1, band2)
             /\ \/ next.i = p.i + 1 /\ (next.j = p.j \/ next.j = p.j + 1)
                \/ next.i = p.i /\ next.j = p.j + 1
             /\ left \in 0..Columns /\ right \in 0..Columns
             /\ written = IF left < right THEN <<Box(left, top, right, bottom)>> ELSE <<>>
             /\ \A x \in Int :
                  /\ BothAt(band1, band2, p, x) <=> (left <= x /\ x < right) \/ BothAt(band1, band2, next, x)
                  /\ BothAt(band1, band2, next, x) => right < x
<1>17. Goal(q, pieces)
  BY <1>9, <1>10, <1>11, <1>16 DEF pieces
<1> HIDE DEF Goal
<1>18. Goal(turn.next, turn.pieces)
  BY <1>7, <1>17
<1>19. QED
  BY <1>18 DEF Goal, turn, left, right, r1, r2

\* intersect_overlapping_band leaves one band, with the columns of both.
LEMMA IntersectIs ==
  ASSUME NEW t1, NEW b1, NEW band1, OneBand(band1, t1, b1),
         NEW t2, NEW b2, NEW band2, OneBand(band2, t2, b2),
         NEW top \in 0..Rows, NEW bottom \in 0..Rows
  PROVE  /\ OneBand(IntersectBands(band1, band2, top, bottom), top, bottom)
         /\ Cells(IntersectBands(band1, band2, top, bottom)) = Cells(band1) \cap Cells(band2)
<1> DEFINE turn == IntersectTurns(band1, band2, top, bottom)
           n1 == Len(band1)
           n2 == Len(band2)
           D == IntersectPlaces(band1, band2)
           size == [p \in D |-> (n1 + 1 - p.i) + (n2 + 1 - p.j)]
           Writes(s, p) ==
             /\ OneBand(s, top, bottom)
             /\ \A x \in Int : x \in Cells(s) <=> BothAt(band1, band2, p, x)
           P == [p \in D |-> {s \in Seq(Boxes) : Writes(s, p)}]
           start == [i |-> 1, j |-> 1]
           all == WrittenFrom(turn, start)
           left(p) == Greater(band1[p.i].left, band2[p.j].left)
           right(p) == Lesser(band1[p.i].right, band2[p.j].right)
           ended(p) == p.i > n1 \/ p.j > n2
<1>1. /\ n1 \in Nat
      /\ \A x : x \in Cells(band1) <=> x \in Int /\ \E k \in 1..n1 : band1[k].left <= x /\ x < band1[k].right
  BY OneBandIs
<1>2. /\ n2 \in Nat
      /\ \A x : x \in Cells(band2) <=> x \in Int /\ \E k \in 1..n2 : band2[k].left <= x /\ x < band2[k].right
  BY OneBandIs
<1>3. DOMAIN turn = D
  BY DEF IntersectTurns, IntersectPlaces
<1>4. \A p \in D : p.i \in 1..(n1 + 1) /\ p.j \in 1..(n2 + 1)
  BY DEF IntersectPlaces
<1>5. \A p \in D : ended(p) => turn[p].pieces = <<>> /\ turn[p].next = p
  BY DEF IntersectTurns, IntersectPlaces, Turn
<1>6. \A p \in D : ~ ended(p) => p.i <= Len(band1) /\ p.j <= Len(band2)
  BY <1>1, <1>2, <1>4
<1>7. \A p \in D : ~ ended(p) =>
        /\ turn[p].next \in D
        /\ \/ turn[p].next.i = p.i + 1 /\ (turn[p].next.j = p.j \/ turn[p].next.j = p.j + 1)
           \/ turn[p].next.i = p.i /\ turn[p].next.j = p.j + 1
        /\ left(p) \in 0..Columns /\ right(p) \in 0..Columns
        /\ turn[p].pieces = IF left(p) < right(p) THEN <<Box(left(p), top, right(p), bottom)>> ELSE <<>>
        /\ \A x \in Int :
             /\ BothAt(band1, band2, p, x) <=>
                  (left(p) <= x /\ x < right(p)) \/ BothAt(band1, band2, turn[p].next, x)
             /\ BothAt(band1, band2, turn[p].next, x) => right(p) < x
  <2> SUFFICES ASSUME NEW p \in IntersectPlaces(band1, band2), ~ ended(p)
               PROVE  /\ turn[p].next \in D
                      /\ \/ turn[p].next.i = p.i + 1 /\ (turn[p].next.j = p.j \/ turn[p].next.j = p.j + 1)
                         \/ turn[p].next.i = p.i /\ turn[p].next.j = p.j + 1
                      /\ left(p) \in 0..Columns /\ right(p) \in 0..Columns
                      /\ turn[p].pieces = IF left(p) < right(p)
                                          THEN <<Box(left(p), top, right(p), bottom)>> ELSE <<>>
                      /\ \A x \in Int :
                           /\ BothAt(band1, band2, p, x) <=>
                                (left(p) <= x /\ x < right(p)) \/ BothAt(band1, band2, turn[p].next, x)
                           /\ BothAt(band1, band2, turn[p].next, x) => right(p) < x
    OBVIOUS
  <2>1. p.i <= Len(band1) /\ p.j <= Len(band2)
    BY <1>6
  <2>2. OneBand(band1, t1, b1) /\ OneBand(band2, t2, b2)
    OBVIOUS
  <2>3. QED
    BY ONLY <2>1, <2>2, p \in IntersectPlaces(band1, band2), IntersectTakes
<1> HIDE DEF turn, n1, n2, D, Writes, left, right
<1>8. \A p \in D : size[p] = (n1 + 1 - p.i) + (n2 + 1 - p.j)
  OBVIOUS
<1>9. start \in D
  <2>1. 1 \in 1..(n1 + 1) /\ 1 \in 1..(n2 + 1)
    BY <1>1, <1>2
  <2>2. QED
    BY <2>1 DEF D, IntersectPlaces, n1, n2
<1> HIDE DEF size
<1>10. \A p \in D : size[p] \in 0..(n1 + n2)
  <2> TAKE p \in D
  <2>1. p.i \in 1..(n1 + 1) /\ p.j \in 1..(n2 + 1)
    BY <1>4
  <2>2. size[p] = (n1 + 1 - p.i) + (n2 + 1 - p.j) /\ n1 \in Nat /\ n2 \in Nat
    BY <1>1, <1>2, <1>8
  <2>3. QED
    BY <2>1, <2>2
<1>11. \A p \in D : turn[p].next # p => turn[p].next \in D /\ size[turn[p].next] < size[p]
  <2> SUFFICES ASSUME NEW p \in D, turn[p].next # p
               PROVE  turn[p].next \in D /\ size[turn[p].next] < size[p]
    OBVIOUS
  <2> DEFINE q == turn[p].next
  <2>1. p.i \in 1..(n1 + 1) /\ p.j \in 1..(n2 + 1)
    BY <1>4
  <2>2. q \in D /\ ((q.i = p.i + 1 /\ (q.j = p.j \/ q.j = p.j + 1)) \/ (q.i = p.i /\ q.j = p.j + 1))
    BY <1>5, <1>7
  <2> HIDE DEF q
  <2>3. /\ size[p] = (n1 + 1 - p.i) + (n2 + 1 - p.j) /\ n1 \in Nat /\ n2 \in Nat
        /\ size[q] = (n1 + 1 - q.i) + (n2 + 1 - q.j)
    BY <1>1, <1>2, <1>8, <2>2
  <2>4. size[q] < size[p]
    <3>1. CASE q.i = p.i + 1 /\ q.j = p.j
      BY <2>1, <2>3, <3>1
    <3>2. CASE q.i = p.i /\ q.j = p.j + 1
      BY <2>1, <2>3, <3>2
    <3>3. CASE q.i = p.i + 1 /\ q.j = p.j + 1
      BY <2>1, <2>3, <3>3
    <3>4. QED
      BY <2>2, <3>1, <3>2, <3>3
  <2>5. QED
    BY <2>2, <2>4 DEF q
<1>12. \A p \in D : turn[p].next \in D /\ (turn[p].next = p <=> ended(p))
  <2> TAKE p \in D
  <2>1. CASE ended(p)
    BY <1>5, <2>1
  <2>2. CASE ~ ended(p)
    <3>1. p.i \in Int /\ p.j \in Int
      BY <1>4
    <3>2. /\ turn[p].next \in D
          /\ turn[p].next.i = p.i + 1 \/ turn[p].next.j = p.j + 1
      BY <1>7, <2>2
    <3>3. turn[p].next # p
      BY <3>1, <3>2
    <3>4. QED
      BY <2>2, <3>2, <3>3
  <2>3. QED
    BY <2>1, <2>2
<1>13. \A p \in D : \A s : s \in P[p] <=> s \in Seq(Boxes) /\ Writes(s, p)
  OBVIOUS
<1> HIDE DEF P
<1>14. \A p \in D : turn[p].next = p => <<>> \in P[p]
  <2> SUFFICES ASSUME NEW p \in D, turn[p].next = p PROVE <<>> \in P[p]
    OBVIOUS
  <2>1. \A x \in Int : ~ BothAt(band1, band2, p, x)
    <3>1. p.i \in Int /\ p.j \in Int /\ (p.i > n1 \/ p.j > n2)
      BY <1>4, <1>12
    <3>2. p.i .. n1 = {} \/ p.j .. n2 = {}
      BY <1>1, <1>2, <3>1
    <3>3. QED
      BY <3>2 DEF BothAt, n1, n2
  <2>2. Writes(<<>>, p)
    BY <2>1, NoCells DEF Writes
  <2>3. <<>> \in Seq(Boxes)
    OBVIOUS
  <2>4. QED
    BY <1>13, <2>2, <2>3
<1>15. ASSUME NEW p \in D, turn[p].next # p, NEW s \in P[turn[p].next]
       PROVE  turn[p].pieces \o s \in P[p]
  <2> DEFINE q == turn[p].next
             pieces == turn[p].pieces
             l == left(p)
             r == right(p)
             whole == <<Box(l, top, r, bottom)>> \o s
  <2>1. q \in D /\ ~ ended(p)
    BY <1>12, <1>15
  <2>2. s \in Seq(Boxes) /\ Writes(s, q)
    BY <1>13, <1>15, <2>1
  <2>3. /\ l \in 0..Columns /\ r \in 0..Columns
        /\ pieces = IF l < r THEN <<Box(l, top, r, bottom)>> ELSE <<>>
        /\ \A x \in Int :
             /\ BothAt(band1, band2, p, x) <=> (l <= x /\ x < r) \/ BothAt(band1, band2, q, x)
             /\ BothAt(band1, band2, q, x) => r < x
    BY <1>7, <1>15, <2>1
  <2>4. /\ OneBand(s, top, bottom)
        /\ \A x \in Int : x \in Cells(s) <=> BothAt(band1, band2, q, x)
        /\ Cells(s) \subseteq Int
    BY <2>2 DEF Writes, Cells
  <2> HIDE DEF q, pieces, l, r
  <2>5. CASE ~ l < r
    <3>1. pieces \o s = s
      BY <2>2, <2>3, <2>5, NothingAndBand
    <3>2. \A x \in Int : x \in Cells(s) <=> BothAt(band1, band2, p, x)
      BY <2>3, <2>4, <2>5
    <3>3. s \in P[p]
      BY <1>13, <2>2, <2>4, <3>2 DEF Writes
    <3>4. QED
      BY <3>1, <3>3 DEF pieces
  <2>6. CASE l < r
    <3>1. pieces \o s = whole
      BY <2>3, <2>6
    <3>2. \A x \in Cells(s) : r < x
      BY <2>3, <2>4
    <3>3. /\ OneBand(whole, top, bottom)
          /\ \A x \in Int : x \in Cells(whole) <=> (l <= x /\ x < r) \/ x \in Cells(s)
      BY <2>3, <2>4, <2>6, <3>2, PieceAndBand
    <3> HIDE DEF whole
    <3>4. \A x \in Int : x \in Cells(whole) <=> BothAt(band1, band2, p, x)
      BY <2>3, <2>4, <3>3
    <3>5. whole \in P[p]
      BY <1>13, <3>3, <3>4 DEF Writes, OneBand
    <3>6. QED
      BY <3>1, <3>5 DEF pieces
  <2>7. QED
    BY <2>5, <2>6
<1>16. all \in P[start]
  <2> HIDE DEF start
  <2>1. /\ n1 + n2 \in Nat
        /\ \A p \in DOMAIN turn : size[p] \in 0..(n1 + n2)
        /\ \A p \in DOMAIN turn :
             turn[p].next # p => turn[p].next \in DOMAIN turn /\ size[turn[p].next] < size[p]
        /\ D \subseteq DOMAIN turn /\ \A p \in D : turn[p].next \in D
    BY <1>1, <1>2, <1>3, <1>10, <1>11, <1>12
  <2>2. QED
    BY ONLY <1>9, <1>14, <1>15, <2>1, WrittenFromIs
<1>17. Writes(all, start)
  BY <1>9, <1>13, <1>16
<1>18. \A x \in Int : BothAt(band1, band2, start, x) <=> x \in Cells(band1) /\ x \in Cells(band2)
  BY <1>1, <1>2 DEF BothAt, n1, n2
<1>19. IntersectBands(band1, band2, top, bottom) = all
  BY DEF IntersectBands, turn
<1> HIDE DEF all, start
<1>20. OneBand(all, top, bottom) /\ Cells(all) = Cells(band1) \cap Cells(band2)
  <2>1. OneBand(all, top, bottom) /\ \A x \in Int : x \in Cells(all) <=> x \in Cells(band1) /\ x \in Cells(band2)
    BY <1>17, <1>18 DEF Writes
  <2>2. Cells(all) \subseteq Int /\ Cells(band1) \subseteq Int
    BY DEF Cells
  <2>3. QED
    BY <2>1, <2>2
<1>21. QED
  BY <1>19, <1>20

-----------------------------------------------------------------------------
(* The rounds of region_operation.                                        *)

\* The boxes before s end above y, the others end below.
Swept(rects, s, y) ==
  /\ s \in 1..(Len(rects) + 1)
  /\ \A i \in DOMAIN rects : IF i < s THEN rects[i].bottom <= y ELSE y < rects[i].bottom

\* A new region that is being put together, down to y.
Built(made, y) ==
  /\ made = [rects |-> made.rects, prev |-> made.prev, have |-> made.have]
  /\ Regular(made.rects) /\ LastBand(made.rects, made.prev)
  /\ made.have \in Nat /\ made.have > 0 /\ Len(made.rects) <= made.have
  /\ \A p \in Points(made.rects) : p[2] < y

\* A box ends where its points do.
LEMMA BottomsAre ==
  ASSUME NEW R, InBands(R), NEW y \in Int, \A p \in Points(R) : p[2] < y, NEW i \in DOMAIN R
  PROVE  R[i].bottom <= y
<1> DEFINE x == R[i].left
           z == R[i].bottom - 1
<1>1. /\ R[i].left \in Int /\ R[i].bottom \in Int /\ R[i].top \in Int /\ R \in Seq(Boxes)
      /\ R[i].left < R[i].right /\ R[i].top < R[i].bottom
  BY ListIs DEF InBands
<1>2. x \in Int /\ z \in Int /\ R[i].left <= x /\ x < R[i].right /\ R[i].top <= z /\ z < R[i].bottom
  BY <1>1
<1>3. R[i].bottom = z + 1
  BY <1>1
<1> HIDE DEF x, z
<1>4. <<x, z>> \in Points(R)
  BY <1>1, <1>2, InPoints
<1>5. <<x, z>>[2] < y
  BY <1>4
<1>6. QED
  BY <1>2, <1>3, <1>5

\* A part of a band is added below.
LEMMA PartIsAdded ==
  ASSUME NEW made, NEW y \in Int, Built(made, y),
         NEW u \in Int, NEW v \in Int, y <= u, u <= v, NEW A, OneBand(A, u, v), A # <<>> => u < v
  PROVE  /\ Built(AddBand(made, A), v)
         /\ Points(AddBand(made, A).rects) = Points(made.rects) \cup Points(A)
<1> DEFINE R == made.rects
           prev == made.prev
           have == made.have
           after == AddBand(made, A)
<1>1. /\ made = [rects |-> R, prev |-> prev, have |-> have]
      /\ Regular(R) /\ LastBand(R, prev)
      /\ have \in Nat /\ have > 0 /\ Len(R) <= have
      /\ \A p \in Points(R) : p[2] < y
      /\ InBands(R)
  BY DEF Built, Regular
<1>2. R \in Seq(Boxes)
  BY <1>1 DEF InBands
<1>3. \A p \in Points(R) : p[2] < v
  <2> TAKE p \in Points(R)
  <2>1. p[2] \in Int
    BY <1>2, PointsAre
  <2>2. QED
    BY <1>1, <2>1
<1>4. CASE A = <<>>
  <2>1. after = made /\ Points(A) = {}
    BY <1>4 DEF AddBand, Points
  <2>2. Built(made, v)
    BY <1>1, <1>3 DEF Built
  <2>3. QED
    BY <2>1, <2>2
<1>5. CASE A # <<>>
  <2>1. Regular(A)
    BY <1>5, OneBandIsRegular
  <2>2. \A i \in DOMAIN A : A[i].top = u
    BY DEF OneBand
  <2>3. \A i \in DOMAIN A : A[i].top = A[1].top
    <3>1. A \in Seq(Boxes)
      BY DEF OneBand
    <3>2. Len(A) \in Nat /\ DOMAIN A = 1..Len(A) /\ Len(A) # 0
      BY <1>5, <3>1, EmptySeq
    <3>3. 1 \in DOMAIN A
      BY <3>2
    <3>4. A[1].top = u
      BY <2>2, <3>3
    <3>5. QED
      BY <2>2, <3>4
  <2>4. \A i \in DOMAIN R, j \in DOMAIN A : R[i].bottom <= A[j].top
    <3> TAKE i \in DOMAIN R, j \in DOMAIN A
    <3>1. R[i].bottom <= y /\ R[i].bottom \in Int
      BY <1>1, BottomsAre, ListIs
    <3>2. A[j].top = u
      BY <2>2
    <3>3. QED
      BY ONLY <3>1, <3>2, y <= u, y \in Int, u \in Int
  <2> HIDE DEF R, prev, have, after
  <2>5. LET after0 == AddBand([rects |-> R, prev |-> prev, have |-> have], A)
        IN  /\ after0 = [rects |-> after0.rects, prev |-> after0.prev, have |-> after0.have]
            /\ Regular(after0.rects) /\ Points(after0.rects) = Points(R) \cup Points(A)
            /\ after0.have \in Nat /\ after0.have > 0 /\ Len(after0.rects) <= after0.have
            /\ (\A i \in DOMAIN A : A[i].top = A[1].top) => LastBand(after0.rects, after0.prev)
    BY ONLY <1>1, <2>1, <2>4, AddBandIs
  <2>6. after = AddBand([rects |-> R, prev |-> prev, have |-> have], A)
    BY <1>1 DEF after
  <2>7. /\ after = [rects |-> after.rects, prev |-> after.prev, have |-> after.have]
        /\ Regular(after.rects) /\ Points(after.rects) = Points(R) \cup Points(A)
        /\ after.have \in Nat /\ after.have > 0 /\ Len(after.rects) <= after.have
        /\ LastBand(after.rects, after.prev)
    BY <2>3, <2>5, <2>6
  <2>8. \A p \in Points(A) : p[2] < v
    <3> TAKE p \in Points(A)
    <3>1. p \in (0..(Columns - 1)) \X (0..(Rows - 1))
      BY PointsAre DEF OneBand
    <3>2. p = <<p[1], p[2]>>
      BY <3>1
    <3>3. <<p[1], p[2]>> \in Points(A) <=> p[1] \in Cells(A) /\ p[2] \in Int /\ u <= p[2] /\ p[2] < v
      BY OneBandPoints
    <3>4. QED
      BY <3>2, <3>3
  <2>9. Built(after, v)
    BY <1>3, <2>7, <2>8 DEF Built
  <2>10. QED
    BY <2>7, <2>9 DEF after, R
<1>6. QED
  BY <1>4, <1>5

\* The points of a region down to where a band that is not swept ends.
LEMMA PointsOfBand ==
  ASSUME NEW S, InBands(S), NEW s \in DOMAIN S, StartsBand(S, s), NEW y \in Int, Swept(S, s, y),
         NEW x, NEW z \in Int, y <= z, z < S[s].bottom
  PROVE  <<x, z>> \in Points(S) <=> S[s].top <= z /\ x \in Cells(Band(S, s))
<1>1. S \in Seq(Boxes)
  BY DEF InBands
<1>2. S[s].top \in Int /\ S[s].bottom \in Int
  BY ListIs
<1>3. CASE S[s].top <= z
  <2>1. z \in S[s].top .. (S[s].bottom - 1)
    BY <1>2, <1>3
  <2>2. Cells(Band(S, s)) = RowOf(Points(S), z)
    BY <2>1, BandIsOne
  <2>3. <<x, z>> \in Points(S) <=> x \in RowOf(Points(S), z)
    BY <1>1, InPoints, InRow
  <2>4. QED
    BY <1>3, <2>2, <2>3
<1>4. CASE ~ S[s].top <= z
  <2>1. ASSUME NEW i \in DOMAIN S, S[i].top <= z, z < S[i].bottom PROVE FALSE
    <3>1. i \in Int /\ s \in Int /\ S[i].top \in Int /\ S[i].bottom \in Int
      BY ListIs
    <3>2. ~ i < s
      BY <2>1, <3>1 DEF Swept
    <3>3. i = s \/ Follows(S[s], S[i])
      BY <3>1, <3>2 DEF InBands
    <3>4. S[s].top < S[s].bottom
      BY DEF InBands
    <3>5. QED
      BY <1>2, <1>4, <2>1, <3>1, <3>3, <3>4 DEF Follows
  <2>2. QED
    BY <1>1, <1>4, <2>1, InPoints
<1>5. QED
  BY <1>3, <1>4

\* On to the next band where one has ended.
LEMMA SweptOn ==
  ASSUME NEW S, InBands(S), NEW s \in DOMAIN S, StartsBand(S, s), NEW y \in Int, Swept(S, s, y),
         NEW b \in Int, y <= b, b <= S[s].bottom, NEW next,
         next = IF S[s].bottom = b THEN BandEnd(S, s) ELSE s
  PROVE  /\ Swept(S, next, b) /\ next \in Nat
         /\ next <= Len(S) => /\ next \in DOMAIN S /\ StartsBand(S, next)
                              /\ S[s].bottom = b => b <= S[next].top
<1>1. S \in Seq(Boxes)
  BY DEF InBands
<1>2. /\ Len(S) \in Nat /\ DOMAIN S = 1..Len(S) /\ s \in 1..Len(S)
      /\ \A i \in DOMAIN S : S[i].bottom \in Int /\ S[i].top \in Int /\ S[i].top < S[i].bottom
  BY ListIs
<1>3. /\ \A j \in DOMAIN S : j < s => S[j].bottom <= S[s].top
      /\ \A j \in s..(BandEnd(S, s) - 1) : S[j].top = S[s].top /\ S[j].bottom = S[s].bottom
      /\ \A j \in DOMAIN S : BandEnd(S, s) <= j => S[s].bottom <= S[j].top
  BY BandIs
<1>4. /\ BandEnd(S, s) \in (s + 1)..(Len(S) + 1)
      /\ BandEnd(S, s) <= Len(S) => S[BandEnd(S, s)].top # S[s].top
  BY <1>1, BandEndIs
<1> DEFINE e == BandEnd(S, s)
<1> HIDE DEF e
<1>5. CASE S[s].bottom = b
  <2>1. next = e
    BY <1>5 DEF e
  <2>2. ASSUME NEW i \in DOMAIN S
        PROVE  IF i < e THEN S[i].bottom <= b ELSE b < S[i].bottom
    <3>1. CASE i < s
      BY <1>2, <1>3, <1>4, <1>5, <3>1 DEF e
    <3>2. CASE ~ i < s /\ i < e
      <4>1. i \in s..(e - 1)
        BY <1>2, <1>4, <3>2 DEF e
      <4>2. QED
        BY <1>2, <1>3, <1>5, <3>2, <4>1 DEF e
    <3>3. CASE ~ i < e
      BY <1>2, <1>3, <1>4, <1>5, <3>3 DEF e
    <3>4. QED
      BY <3>1, <3>2, <3>3
  <2>3. Swept(S, e, b)
    BY <1>2, <1>4, <2>2 DEF e, Swept
  <2>4. ASSUME e <= Len(S) PROVE e \in DOMAIN S /\ StartsBand(S, e) /\ b <= S[e].top
    <3>1. e \in DOMAIN S /\ S[e].top # S[s].top /\ b <= S[e].top
      BY <1>2, <1>3, <1>4, <1>5, <2>4 DEF e
    <3>2. e - 1 \in s..(e - 1)
      BY <1>2, <1>4 DEF e
    <3>3. S[e - 1].top = S[s].top
      BY <1>3, <3>2 DEF e
    <3>4. QED
      BY <3>1, <3>3 DEF StartsBand
  <2>5. e \in Nat
    BY <1>2, <1>4 DEF e
  <2>6. QED
    BY <2>1, <2>3, <2>4, <2>5
<1>6. CASE S[s].bottom # b
  <2>1. next = s
    BY <1>6
  <2>2. ASSUME NEW i \in DOMAIN S
        PROVE  IF i < s THEN S[i].bottom <= b ELSE b < S[i].bottom
    <3>1. CASE i < s
      BY <1>2, <3>1 DEF Swept
    <3>2. CASE ~ i < s /\ i < e
      <4>1. i \in s..(e - 1)
        BY <1>2, <1>4, <3>2 DEF e
      <4>2. S[i].bottom = S[s].bottom
        BY <1>3, <4>1 DEF e
      <4>3. QED
        BY <1>2, <1>6, <3>2, <4>2
    <3>3. CASE ~ i < e
      <4>1. ~ i < s /\ S[s].bottom <= S[i].top
        BY <1>2, <1>3, <1>4, <3>3 DEF e
      <4>2. QED
        BY <1>2, <1>6, <4>1
    <3>4. QED
      BY <3>1, <3>2, <3>3
  <2>3. Swept(S, s, b)
    BY <1>2, <2>2 DEF Swept
  <2>4. QED
    BY <1>2, <1>6, <2>1, <2>3
<1>7. QED
  BY <1>5, <1>6

-----------------------------------------------------------------------------
(* The inductive invariant.                                               *)

\* Where the sweep is.  In both regions the boxes before the cursor end above
\* overlap_bot and the others below it; the cursors are at the starts of bands, one
\* of which has not been entered yet; and one region is used up in the rest.
Sweep ==
  /\ overlap_bot \in 0..Rows
  /\ Swept(reg1, at1, overlap_bot) /\ Swept(reg2, at2, overlap_bot)
  /\ pc = "bands" =>
       /\ at1 \in DOMAIN reg1 /\ at2 \in DOMAIN reg2
       /\ StartsBand(reg1, at1) /\ StartsBand(reg2, at2)
       /\ overlap_bot <= reg1[at1].top \/ overlap_bot <= reg2[at2].top
  /\ pc = "rest" => at1 > Len(reg1) \/ at2 > Len(reg2)

\* The new region has what the result should have above overlap_bot, in regular
\* form, in an array that is large enough.
Collected ==
  /\ Built([rects |-> new, prev |-> prevBand, have |-> rects_have], overlap_bot)
  /\ Points(new) = {p \in Result : p[2] < overlap_bot}

\* The inductive invariant of region_operation.
RegionInv ==
  /\ op \in {"init", "subtract", "intersect"}
  /\ pc \in {"call", "bands", "rest", "done"}
  /\ Regular(reg1) /\ reg1 # <<>> /\ Regular(reg2) /\ reg2 # <<>>
  /\ pc = "call" => new = <<>> /\ at1 = 1 /\ at2 = 1 /\ prevBand = 1
  /\ pc \in {"bands", "rest"} => op # "init" /\ Sweep /\ Collected
  /\ pc = "done" => Len(new) <= rects_have
  /\ pc = "done" /\ op # "init" =>
       /\ new = Banded(Result)
       /\ extents = IF new = <<>> THEN EmptyBox ELSE BoxAround(Points(new))

\* The empty list is regular.
LEMMA NoBoxes == Regular(<<>>) /\ Points(<<>>) = {}
<1>1. <<>> \in Seq(Boxes) /\ DOMAIN <<>> = {}
  OBVIOUS
<1>2. QED
  BY <1>1 DEF Regular, InBands, Apart, Points

\* Operands are regular lists of points of the screen.
LEMMA RegionInit == Init => RegionInv
<1> SUFFICES ASSUME Init PROVE RegionInv
  OBVIOUS
<1>1. \A S \in Operands1 \cup Operands2 : Regular(Banded(S)) /\ Banded(S) # <<>>
  <2> TAKE S \in Operands1 \cup Operands2
  <2>1. S # {} /\ S \subseteq (0..(Columns - 1)) \X (0..(Rows - 1))
    BY ScreenAssumption
  <2>2. Regular(Banded(S)) /\ Points(Banded(S)) = S
    BY <2>1, BandedIsRegular
  <2>3. QED
    BY <2>1, <2>2, NoBoxes
<1>2. Regular(reg1) /\ reg1 # <<>> /\ Regular(reg2) /\ reg2 # <<>>
  BY <1>1 DEF Init
<1>3. /\ op \in {"init", "subtract", "intersect"} /\ pc = "call"
      /\ new = <<>> /\ at1 = 1 /\ at2 = 1 /\ prevBand = 1
  BY DEF Init
<1>4. QED
  BY <1>2, <1>3 DEF RegionInv

\* What the invariant says of the operands.
LEMMA OperandsAre ==
  ASSUME RegionInv
  PROVE  /\ InBands(reg1) /\ reg1 \in Seq(Boxes) /\ Len(reg1) \in Nat /\ Len(reg1) > 0
         /\ DOMAIN reg1 = 1..Len(reg1)
         /\ InBands(reg2) /\ reg2 \in Seq(Boxes) /\ Len(reg2) \in Nat /\ Len(reg2) > 0
         /\ DOMAIN reg2 = 1..Len(reg2)
         /\ Points(reg1) \subseteq (0..(Columns - 1)) \X (0..(Rows - 1))
         /\ Points(reg2) \subseteq (0..(Columns - 1)) \X (0..(Rows - 1))
<1>1. InBands(reg1) /\ reg1 \in Seq(Boxes) /\ InBands(reg2) /\ reg2 \in Seq(Boxes)
  BY DEF RegionInv, Regular, InBands
<1>2. reg1 # <<>> /\ reg2 # <<>>
  BY DEF RegionInv
<1>3. /\ Points(reg1) \subseteq (0..(Columns - 1)) \X (0..(Rows - 1))
      /\ Points(reg2) \subseteq (0..(Columns - 1)) \X (0..(Rows - 1))
  BY <1>1, PointsAre
<1>4. QED
  BY <1>1, <1>2, <1>3

\* The result, when it is finished.
LEMMA FinishedIs ==
  ASSUME NEW N, Regular(N), Points(N) = Result
  PROVE  N = Banded(Result) /\ ExtentsOf(N) = IF N = <<>> THEN EmptyBox ELSE BoxAround(Points(N))
<1>1. N = Banded(Result)
  BY RegularIsBanded
<1>2. N # <<>> => ExtentsOf(N) = BoxAround(Points(N))
  BY ExtentsAre DEF Regular
<1>3. N = <<>> => ExtentsOf(N) = EmptyBox
  BY DEF ExtentsOf
<1>4. QED
  BY <1>1, <1>2, <1>3

\* init_region leaves no operation under way.
LEMMA InitRegionKeeps == RegionInv /\ InitRegion => RegionInv'
<1> SUFFICES ASSUME RegionInv, InitRegion PROVE RegionInv'
  OBVIOUS
<1>1. op' = "init" /\ pc' = "done" /\ reg1' = reg1 /\ reg2' = reg2 /\ new' = <<>> /\ rects_have' = 1
  BY DEF InitRegion
<1>2. Len(<<>>) <= 1
  OBVIOUS
<1>3. QED
  BY <1>1, <1>2 DEF RegionInv

\* Regions whose extents are apart: the first is the result, or nothing is.
LEMMA RejectKeeps == RegionInv /\ Reject => RegionInv'
<1> SUFFICES ASSUME RegionInv, Reject PROVE RegionInv'
  OBVIOUS
<1>1. /\ op' = op /\ op \in {"subtract", "intersect"} /\ pc' = "done" /\ reg1' = reg1 /\ reg2' = reg2
      /\ new' = IF op = "subtract" THEN reg1 ELSE <<>>
      /\ extents' = ExtentsOf(new')
      /\ rects_have' = Len(reg1)
  BY DEF Reject, RegionInv
<1>2. Points(reg1) \cap Points(reg2) = {}
  BY OperandsAre, ExtentsMeet DEF Reject
<1>3. Regular(new') /\ Points(new') = Result
  <2>1. CASE op = "subtract"
    BY <1>1, <1>2, <2>1 DEF Result, RegionInv
  <2>2. CASE op # "subtract"
    BY <1>1, <1>2, <2>2, NoBoxes DEF Result
  <2>3. QED
    BY <2>1, <2>2
<1>4. Result' = Result
  BY <1>1 DEF Result
<1>5. Len(new') <= rects_have'
  <2>1. Len(<<>>) = 0 /\ Len(reg1) \in Nat
    BY OperandsAre
  <2>2. QED
    BY <1>1, <2>1
<1>6. new' = Banded(Result) /\ extents' = IF new' = <<>> THEN EmptyBox ELSE BoxAround(Points(new'))
  BY <1>1, <1>3, FinishedIs
<1>7. QED
  BY <1>1, <1>4, <1>5, <1>6 DEF RegionInv

\* The sweep starts above the upper region, with nothing collected.
LEMMA EnterKeeps == RegionInv /\ Enter => RegionInv'
<1> SUFFICES ASSUME RegionInv, Enter PROVE RegionInv'
  OBVIOUS
<1> DEFINE y == Lesser(reg1[1].top, reg2[1].top)
           have == 2 * Len(reg2)
           empty == [rects |-> <<>>, prev |-> 1, have |-> have]
<1>1. /\ op' = op /\ op # "init" /\ pc' = "bands" /\ reg1' = reg1 /\ reg2' = reg2
      /\ new' = <<>> /\ at1' = 1 /\ at2' = 1 /\ prevBand' = 1
      /\ overlap_bot' = y /\ rects_have' = have
  BY DEF Enter, RegionInv
<1>2. /\ InBands(reg1) /\ Len(reg1) \in Nat /\ Len(reg1) > 0 /\ DOMAIN reg1 = 1..Len(reg1)
      /\ InBands(reg2) /\ Len(reg2) \in Nat /\ Len(reg2) > 0 /\ DOMAIN reg2 = 1..Len(reg2)
      /\ Points(reg1) \subseteq (0..(Columns - 1)) \X (0..(Rows - 1))
      /\ reg1 \in Seq(Boxes)
  BY OperandsAre
<1>3. ASSUME NEW S, InBands(S), Len(S) > 0
      PROVE  /\ 1 \in DOMAIN S /\ S[1].top \in 0..Rows
             /\ \A i \in DOMAIN S : S[i].top \in Int /\ S[i].bottom \in Int /\ S[1].top <= S[i].top
                                    /\ S[i].top < S[i].bottom
  <2>1. S \in Seq(Boxes)
    BY <1>3 DEF InBands
  <2>2. 1 \in DOMAIN S
    BY <1>3, <2>1
  <2>3. \A i \in DOMAIN S : /\ S[i].top \in Nat /\ S[i].bottom \in Nat /\ S[i].top < S[i].bottom
                            /\ S[i].top <= Rows /\ i \in Nat /\ 1 <= i
    BY <1>3, ListIs
  <2>4. \A i \in DOMAIN S : S[1].top <= S[i].top
    <3> TAKE i \in DOMAIN S
    <3>1. i = 1 \/ Follows(S[1], S[i])
      BY <1>3, <2>2, <2>3 DEF InBands
    <3>2. QED
      BY <2>2, <2>3, <3>1 DEF Follows
  <2>5. Rows \in Nat
    BY SizeAssumption
  <2>6. QED
    BY <2>2, <2>3, <2>4, <2>5
<1>4. /\ reg1[1].top \in 0..Rows /\ reg2[1].top \in 0..Rows /\ 1 \in DOMAIN reg1 /\ 1 \in DOMAIN reg2
      /\ \A i \in DOMAIN reg1 : /\ reg1[i].top \in Int /\ reg1[i].bottom \in Int
                                /\ reg1[1].top <= reg1[i].top /\ reg1[i].top < reg1[i].bottom
      /\ \A i \in DOMAIN reg2 : /\ reg2[i].top \in Int /\ reg2[i].bottom \in Int
                                /\ reg2[1].top <= reg2[i].top /\ reg2[i].top < reg2[i].bottom
  BY <1>2, <1>3
<1>5. y \in 0..Rows /\ y <= reg1[1].top /\ y <= reg2[1].top /\ (y = reg1[1].top \/ y = reg2[1].top)
  BY <1>4 DEF Lesser
<1>6. have \in Nat /\ have > 0
  BY <1>2
<1> HIDE DEF y, have
<1>7. Swept(reg1, 1, y) /\ Swept(reg2, 1, y)
  <2>1. 1 \in 1..(Len(reg1) + 1) /\ 1 \in 1..(Len(reg2) + 1)
    BY <1>2
  <2>2. \A i \in DOMAIN reg1 : ~ i < 1 /\ y < reg1[i].bottom
    BY <1>2, <1>4, <1>5
  <2>3. \A i \in DOMAIN reg2 : ~ i < 1 /\ y < reg2[i].bottom
    BY <1>2, <1>4, <1>5
  <2>4. QED
    BY <2>1, <2>2, <2>3 DEF Swept
<1>8. Built(empty, y)
  <2>1. empty.rects = <<>> /\ empty.prev = 1 /\ empty.have = have
    OBVIOUS
  <2>2. LastBand(<<>>, 1) /\ Len(<<>>) = 0
    BY DEF LastBand
  <2>3. QED
    BY <1>6, <2>1, <2>2, NoBoxes DEF Built
<1>9. \A p \in Result : ~ p[2] < y
  <2> TAKE p \in Result
  <2>1. p \in Points(reg1)
    BY DEF Result
  <2>2. p = <<p[1], p[2]>> /\ p[2] \in Int
    BY <1>2, <2>1
  <2>3. PICK i \in DOMAIN reg1 : reg1[i].top <= p[2]
    BY <1>2, <2>1, <2>2, InPoints
  <2>4. QED
    BY <1>4, <1>5, <2>2, <2>3
<1>10. Result' = Result
  BY <1>1 DEF Result
<1>11. Sweep'
  BY <1>1, <1>4, <1>5, <1>7 DEF Sweep, StartsBand
<1>12. Collected'
  <2>1. Points(<<>>) = {p \in Result : p[2] < y}
    BY <1>9, NoBoxes
  <2>2. QED
    BY <1>1, <1>8, <1>10, <2>1 DEF Collected
<1>13. QED
  BY <1>1, <1>11, <1>12 DEF RegionInv

-----------------------------------------------------------------------------
(* A round of the sweep.                                                  *)

\* Down to where the first of two bands ends, the result has what the first
\* region has alone, and what they have together, in the two parts of a round.
LEMMA BandRoundAdds ==
  ASSUME RegionInv, pc = "bands"
  PROVE  LET r1 == reg1[at1]
             r2 == reg2[at2]
             top == Greater(r1.top, overlap_bot)
             bot == Lesser(r1.bottom, r2.top)
             overlap_top == Greater(r1.top, r2.top)
             bottom == Lesser(r1.bottom, r2.bottom)
             before == [rects |-> new, prev |-> prevBand, have |-> rects_have]
             single == AddBand(before,
                         IF op = "subtract" /\ r1.top < r2.top /\ top # bot
                         THEN OnlyFirst(Band(reg1, at1), top, bot) ELSE <<>>)
             both == AddBand(single,
                       IF bottom > overlap_top
                       THEN OverlapBands(Band(reg1, at1), Band(reg2, at2), overlap_top, bottom)
                       ELSE <<>>)
         IN  /\ bottom \in 0..Rows /\ overlap_bot <= bottom
             /\ bottom <= r1.bottom /\ bottom <= r2.bottom /\ (bottom = r1.bottom \/ bottom = r2.bottom)
             /\ Built(both, bottom)
             /\ Points(both.rects) = {p \in Result : p[2] < bottom}
<1> DEFINE r1 == reg1[at1]
           r2 == reg2[at2]
           y == overlap_bot
           top == Greater(r1.top, y)
           bot == Lesser(r1.bottom, r2.top)
           overlap_top == Greater(r1.top, r2.top)
           bottom == Lesser(r1.bottom, r2.bottom)
           before == [rects |-> new, prev |-> prevBand, have |-> rects_have]
           B1 == Band(reg1, at1)
           B2 == Band(reg2, at2)
           A1 == IF op = "subtract" /\ r1.top < r2.top /\ top # bot
                 THEN OnlyFirst(B1, top, bot) ELSE <<>>
           A2 == IF bottom > overlap_top THEN OverlapBands(B1, B2, overlap_top, bottom) ELSE <<>>
           single == AddBand(before, A1)
           both == AddBand(single, A2)
<1>1. /\ op \in {"subtract", "intersect"}
      /\ y \in 0..Rows /\ y \in Int
      /\ Swept(reg1, at1, y) /\ Swept(reg2, at2, y)
      /\ at1 \in DOMAIN reg1 /\ at2 \in DOMAIN reg2
      /\ StartsBand(reg1, at1) /\ StartsBand(reg2, at2)
      /\ y <= r1.top \/ y <= r2.top
      /\ Built(before, y)
      /\ Points(new) = {p \in Result : p[2] < y}
  BY SizeAssumption DEF RegionInv, Sweep, Collected
<1>2. /\ InBands(reg1) /\ InBands(reg2)
      /\ Points(reg1) \subseteq (0..(Columns - 1)) \X (0..(Rows - 1))
      /\ Points(reg2) \subseteq (0..(Columns - 1)) \X (0..(Rows - 1))
  BY OperandsAre
<1>3. /\ r1.top \in 0..Rows /\ r1.bottom \in 0..Rows /\ r1.top < r1.bottom
      /\ r2.top \in 0..Rows /\ r2.bottom \in 0..Rows /\ r2.top < r2.bottom
  BY <1>1, <1>2, ListIs, SizeAssumption
<1>4. y < r1.bottom /\ y < r2.bottom
  BY <1>1 DEF Swept
<1>5. OneBand(B1, r1.top, r1.bottom) /\ OneBand(B2, r2.top, r2.bottom)
  BY <1>1, <1>2, BandIsOne
<1>6. B1 # <<>>
  <2>1. Len(B1) = BandEnd(reg1, at1) - at1
    BY <1>1, <1>2, BandIsOne
  <2>2. BandEnd(reg1, at1) \in (at1 + 1)..(Len(reg1) + 1) /\ at1 \in Int /\ Len(reg1) \in Int
    BY <1>1, OperandsAre, BandEndIs
  <2>3. Len(B1) > 0
    BY <2>1, <2>2
  <2>4. Len(<<>>) = 0
    OBVIOUS
  <2>5. QED
    BY <2>3, <2>4
<1>7. \A x : \A z \in Int : y <= z /\ z < r1.bottom =>
        (<<x, z>> \in Points(reg1) <=> r1.top <= z /\ x \in Cells(B1))
  BY <1>1, <1>2, PointsOfBand
<1>8. \A x : \A z \in Int : y <= z /\ z < r2.bottom =>
        (<<x, z>> \in Points(reg2) <=> r2.top <= z /\ x \in Cells(B2))
  BY <1>1, <1>2, PointsOfBand
<1> HIDE DEF r1, r2, y, B1, B2, before
<1>9. /\ bottom \in 0..Rows /\ y < bottom
      /\ bottom <= r1.bottom /\ bottom <= r2.bottom /\ (bottom = r1.bottom \/ bottom = r2.bottom)
  BY <1>1, <1>3, <1>4 DEF Lesser
<1>10. /\ overlap_top \in 0..Rows /\ top \in 0..Rows /\ bot \in 0..Rows
       /\ y <= overlap_top /\ y <= top /\ r1.top <= top /\ (top = y \/ top = r1.top)
       /\ r1.top <= overlap_top /\ r2.top <= overlap_top
       /\ overlap_top = r1.top \/ overlap_top = r2.top
       /\ bot <= r1.bottom /\ bot <= r2.top /\ (bot = r1.bottom \/ bot = r2.top)
  BY <1>1, <1>3 DEF Lesser, Greater
<1> HIDE DEF top, bot, overlap_top, bottom
\* The part of the band that only the first region has.
<1>11. OneBand(A1, top, bot) /\ (A1 # <<>> => top < bot)
  <2>1. CASE op = "subtract" /\ r1.top < r2.top /\ top # bot
    <3>1. A1 = OnlyFirst(B1, top, bot)
      BY <2>1
    <3>2. top < bot
      BY <1>1, <1>3, <1>4, <1>10, <2>1
    <3>3. OneBand(OnlyFirst(B1, top, bot), top, bot)
      BY <1>5, <1>10, OnlyFirstIs
    <3>4. QED
      BY <3>1, <3>2, <3>3
  <2>2. CASE ~ (op = "subtract" /\ r1.top < r2.top /\ top # bot)
    <3>1. A1 = <<>>
      BY <2>2
    <3>2. QED
      BY <3>1, NoCells
  <2>3. QED
    BY <2>1, <2>2
<1>12. \A x : \A z \in Int :
         <<x, z>> \in Points(A1) <=>
           op = "subtract" /\ y <= z /\ z < bottom /\ r1.top <= z /\ x \in Cells(B1) /\ ~ r2.top <= z
  <2> SUFFICES ASSUME NEW x, NEW z \in Int
               PROVE  <<x, z>> \in Points(A1) <=>
                        op = "subtract" /\ y <= z /\ z < bottom /\ r1.top <= z /\ x \in Cells(B1) /\ ~ r2.top <= z
    OBVIOUS
  <2>1. <<x, z>> \in Points(A1) <=> x \in Cells(A1) /\ top <= z /\ z < bot
    <3>1. top \in Int /\ bot \in Int
      BY <1>10
    <3>2. QED
      BY <1>11, <3>1, OneBandPoints
  <2>2. CASE op = "subtract" /\ r1.top < r2.top /\ top # bot
    <3>1. A1 = OnlyFirst(B1, top, bot)
      BY <2>2
    <3>2. Cells(A1) = Cells(B1)
      <4>1. Cells(OnlyFirst(B1, top, bot)) = Cells(B1)
        BY <1>5, <1>10, OnlyFirstIs
      <4>2. QED
        BY <3>1, <4>1
    <3>3. top <= z /\ z < bot <=> y <= z /\ z < bottom /\ r1.top <= z /\ ~ r2.top <= z
      BY <1>1, <1>3, <1>4, <1>9, <1>10, <2>2
    <3> HIDE DEF A1
    <3>4. QED
      BY <2>1, <2>2, <3>2, <3>3
  <2>3. CASE ~ (op = "subtract" /\ r1.top < r2.top /\ top # bot)
    <3>1. A1 = <<>>
      BY <2>3
    <3>2. Cells(A1) = {}
      BY <3>1, NoCells
    <3>3. op = "subtract" => ~ (y <= z /\ z < bottom /\ r1.top <= z /\ ~ r2.top <= z)
      BY <1>1, <1>3, <1>4, <1>9, <1>10, <2>3
    <3> HIDE DEF A1
    <3>4. QED
      BY <2>1, <3>2, <3>3
  <2>4. QED
    BY <2>2, <2>3
\* The part that both have.
<1>13. OneBand(A2, overlap_top, bottom) /\ (A2 # <<>> => overlap_top < bottom)
  <2>1. CASE bottom > overlap_top
    <3>1. A2 = OverlapBands(B1, B2, overlap_top, bottom)
      BY <2>1
    <3>2. /\ OneBand(SubtractBands(B1, B2, overlap_top, bottom), overlap_top, bottom)
          /\ OneBand(IntersectBands(B1, B2, overlap_top, bottom), overlap_top, bottom)
      <4>1. overlap_top \in 0..Rows /\ bottom \in 0..Rows
        BY <1>9, <1>10
      <4>2. OneBand(SubtractBands(B1, B2, overlap_top, bottom), overlap_top, bottom)
        BY ONLY <1>5, <1>6, <4>1, SubtractIs
      <4>3. OneBand(IntersectBands(B1, B2, overlap_top, bottom), overlap_top, bottom)
        BY ONLY <1>5, <4>1, IntersectIs
      <4>4. QED
        BY <4>2, <4>3
    <3>3. QED
      BY <1>9, <1>10, <2>1, <3>1, <3>2 DEF OverlapBands
  <2>2. CASE ~ bottom > overlap_top
    <3>1. A2 = <<>>
      BY <2>2
    <3>2. QED
      BY <3>1, NoCells
  <2>3. QED
    BY <2>1, <2>2
<1>14. \A x : \A z \in Int :
         <<x, z>> \in Points(A2) <=>
           /\ y <= z /\ z < bottom /\ r1.top <= z /\ r2.top <= z
           /\ x \in Cells(B1) /\ (x \in Cells(B2) <=> op = "intersect")
  <2> SUFFICES ASSUME NEW x, NEW z \in Int
               PROVE  <<x, z>> \in Points(A2) <=>
                        /\ y <= z /\ z < bottom /\ r1.top <= z /\ r2.top <= z
                        /\ x \in Cells(B1) /\ (x \in Cells(B2) <=> op = "intersect")
    OBVIOUS
  <2>1. <<x, z>> \in Points(A2) <=> x \in Cells(A2) /\ overlap_top <= z /\ z < bottom
    <3>1. overlap_top \in Int /\ bottom \in Int
      BY <1>9, <1>10
    <3>2. QED
      BY <1>13, <3>1, OneBandPoints
  <2>2. overlap_top <= z <=> y <= z /\ r1.top <= z /\ r2.top <= z
    BY <1>1, <1>3, <1>10
  <2>3. CASE bottom > overlap_top
    <3>1. A2 = OverlapBands(B1, B2, overlap_top, bottom)
      BY <2>3
    <3>2. /\ Cells(SubtractBands(B1, B2, overlap_top, bottom)) = Cells(B1) \ Cells(B2)
          /\ Cells(IntersectBands(B1, B2, overlap_top, bottom)) = Cells(B1) \cap Cells(B2)
      <4>1. overlap_top \in 0..Rows /\ bottom \in 0..Rows
        BY <1>9, <1>10
      <4>2. Cells(SubtractBands(B1, B2, overlap_top, bottom)) = Cells(B1) \ Cells(B2)
        BY ONLY <1>5, <1>6, <4>1, SubtractIs
      <4>3. /\ OneBand(IntersectBands(B1, B2, overlap_top, bottom), overlap_top, bottom)
            /\ Cells(IntersectBands(B1, B2, overlap_top, bottom)) = Cells(B1) \cap Cells(B2)
        BY ONLY <1>5, <4>1, IntersectIs
      <4>4. QED
        BY <4>2, <4>3
    <3>3. x \in Cells(A2) <=> x \in Cells(B1) /\ (x \in Cells(B2) <=> op = "intersect")
      <4>1. CASE op = "subtract"
        BY <3>1, <3>2, <4>1 DEF OverlapBands
      <4>2. CASE op = "intersect"
        BY <3>1, <3>2, <4>2 DEF OverlapBands
      <4>3. QED
        BY <1>1, <4>1, <4>2
    <3> HIDE DEF A2
    <3>4. QED
      BY <2>1, <2>2, <3>3
  <2>4. CASE ~ bottom > overlap_top
    <3>1. A2 = <<>>
      BY <2>4
    <3>2. Cells(A2) = {}
      BY <3>1, NoCells
    <3>3. ~ (overlap_top <= z /\ z < bottom)
      BY <1>9, <1>10, <2>4
    <3> HIDE DEF A2
    <3>4. QED
      BY <2>1, <2>2, <3>2, <3>3
  <2>5. QED
    BY <2>3, <2>4
<1> HIDE DEF A1, A2
<1>15. /\ Built(single, overlap_top)
       /\ Points(single.rects) = Points(new) \cup Points(A1)
  <2>1. before.rects = new
    BY DEF before
  <2>2. CASE A1 = <<>>
    <3>1. OneBand(A1, overlap_top, overlap_top)
      BY <2>2, NoCells
    <3>2. overlap_top \in Int /\ y \in Int
      BY <1>1, <1>10
    <3>3. QED
      BY <1>1, <1>10, <2>1, <2>2, <3>1, <3>2, PartIsAdded
  <2>3. CASE A1 # <<>>
    <3>1. top < bot /\ top \in Int /\ bot \in Int /\ y <= top
      BY <1>10, <1>11, <2>3
    <3>2. /\ Built(single, bot)
          /\ Points(single.rects) = Points(new) \cup Points(A1)
      <4>1. /\ Built(before, y) /\ OneBand(A1, top, bot) /\ y \in Int /\ top <= bot
            /\ A1 # <<>> => top < bot
        BY <1>1, <1>11, <3>1
      <4>2. /\ Built(single, bot)
            /\ Points(single.rects) = Points(before.rects) \cup Points(A1)
        BY ONLY <3>1, <4>1, PartIsAdded
      <4> HIDE DEF single
      <4>3. QED
        BY <2>1, <4>2
    <3>3. bot <= overlap_top
      BY <1>3, <1>10
    <3> HIDE DEF single
    <3>4. \A p \in Points(single.rects) : p[2] < overlap_top
      <4> TAKE p \in Points(single.rects)
      <4>1. p[2] < bot /\ p[2] \in Int
        BY <3>2, PointsAre DEF Built, Regular, InBands
      <4>2. QED
        BY <1>10, <3>3, <4>1
    <3>5. QED
      BY <3>2, <3>4 DEF Built
  <2>4. QED
    BY <2>2, <2>3
<1> HIDE DEF single
<1>16. /\ Built(both, bottom)
       /\ Points(both.rects) = Points(new) \cup Points(A1) \cup Points(A2)
  <2>1. overlap_top \in Int /\ bottom \in Int
    BY <1>9, <1>10
  <2>2. CASE A2 = <<>>
    <3>1. OneBand(A2, bottom, bottom)
      BY <2>2, NoCells
    <3>2. both = single /\ Points(A2) = {}
      BY <2>2 DEF AddBand, Points
    <3>3. \A p \in Points(single.rects) : p[2] < bottom
      <4> SUFFICES ASSUME NEW p \in Points(new) \cup Points(A1) PROVE p[2] < bottom
        BY <1>15
      <4>1. p \in Points(new) => p[2] < bottom
        <5>1. p \in Points(new) => p[2] < y /\ p[2] \in Int
          BY <1>1, PointsAre DEF Built, Regular, InBands, before
        <5>2. QED
          BY <1>1, <1>9, <5>1
      <4>2. p \in Points(A1) => p[2] < bottom
        <5>1. p \in Points(A1) => p = <<p[1], p[2]>> /\ p[2] \in Int
          BY <1>11, PointsAre DEF OneBand
        <5>2. QED
          BY <1>12, <5>1
      <4>3. QED
        BY <4>1, <4>2
    <3>4. Built(single, bottom)
      BY <1>15, <3>3 DEF Built
    <3> HIDE DEF both
    <3>5. QED
      BY <1>15, <3>2, <3>4
  <2>3. CASE A2 # <<>>
    <3>1. overlap_top < bottom
      BY <1>13, <2>3
    <3>2. /\ Built(both, bottom)
          /\ Points(both.rects) = Points(single.rects) \cup Points(A2)
      <4>1. /\ Built(single, overlap_top) /\ OneBand(A2, overlap_top, bottom)
            /\ overlap_top <= overlap_top /\ overlap_top <= bottom
            /\ A2 # <<>> => overlap_top < bottom
        BY <1>13, <1>15, <2>1, <3>1
      <4>2. QED
        BY ONLY <2>1, <4>1, PartIsAdded
    <3> HIDE DEF both
    <3>3. QED
      BY <1>15, <3>2
  <2>4. QED
    BY <2>2, <2>3
<1> HIDE DEF both
<1>17. Points(both.rects) = {p \in Result : p[2] < bottom}
  <2>1. \A p \in Points(both.rects) : p = <<p[1], p[2]>> /\ p[2] \in Int
    BY <1>16, PointsAre DEF Built, Regular, InBands
  <2>2. \A p \in Result : p = <<p[1], p[2]>> /\ p[2] \in Int
    BY <1>2 DEF Result
  <2>3. ASSUME NEW x, NEW z \in Int
        PROVE  <<x, z>> \in Points(both.rects) <=> <<x, z>> \in Result /\ z < bottom
    <3>1. <<x, z>> \in Points(new) <=> <<x, z>> \in Result /\ z < y
      BY <1>1
    <3>2. CASE z < y
      BY <1>1, <1>9, <1>12, <1>14, <1>16, <3>1, <3>2
    <3>3. CASE ~ z < y /\ z < bottom
      <4>1. y <= z /\ z < r1.bottom /\ z < r2.bottom
        BY <1>1, <1>3, <1>9, <3>3
      <4>2. <<x, z>> \in Points(reg1) <=> r1.top <= z /\ x \in Cells(B1)
        BY <1>7, <4>1
      <4>3. <<x, z>> \in Points(reg2) <=> r2.top <= z /\ x \in Cells(B2)
        BY <1>8, <4>1
      <4>4. <<x, z>> \in Points(A1) <=> op = "subtract" /\ r1.top <= z /\ x \in Cells(B1) /\ ~ r2.top <= z
        BY <1>12, <3>3, <4>1
      <4>5. <<x, z>> \in Points(A2) <=> /\ r1.top <= z /\ r2.top <= z
                                        /\ x \in Cells(B1) /\ (x \in Cells(B2) <=> op = "intersect")
        BY <1>14, <3>3, <4>1
      <4>6. CASE op = "subtract"
        <5>1. <<x, z>> \in Result <=> <<x, z>> \in Points(reg1) /\ <<x, z>> \notin Points(reg2)
          BY <4>6 DEF Result
        <5>2. QED
          BY <1>16, <3>1, <3>3, <4>2, <4>3, <4>4, <4>5, <4>6, <5>1
      <4>7. CASE op = "intersect"
        <5>1. <<x, z>> \in Result <=> <<x, z>> \in Points(reg1) /\ <<x, z>> \in Points(reg2)
          BY <4>7 DEF Result
        <5>2. QED
          BY <1>16, <3>1, <3>3, <4>2, <4>3, <4>4, <4>5, <4>7, <5>1
      <4>8. QED
        BY <1>1, <4>6, <4>7
    <3>4. CASE ~ z < bottom
      <4>1. ~ z < y
        BY <1>1, <1>9, <3>4
      <4>2. QED
        BY <1>12, <1>14, <1>16, <3>1, <3>4, <4>1
    <3>5. QED
      BY <3>2, <3>3, <3>4
  <2>4. \A p \in Points(both.rects) : p \in Result /\ p[2] < bottom
    <3> TAKE p \in Points(both.rects)
    <3>1. p = <<p[1], p[2]>> /\ p[2] \in Int
      BY <2>1
    <3>2. <<p[1], p[2]>> \in Result /\ p[2] < bottom
      BY <2>3, <3>1
    <3>3. QED
      BY <3>1, <3>2
  <2>5. \A p \in Result : p[2] < bottom => p \in Points(both.rects)
    <3> SUFFICES ASSUME NEW p \in Result, p[2] < bottom PROVE p \in Points(both.rects)
      OBVIOUS
    <3>1. p = <<p[1], p[2]>> /\ p[2] \in Int
      BY <2>2
    <3>2. <<p[1], p[2]>> \in Points(both.rects)
      BY <2>3, <3>1
    <3>3. QED
      BY <3>1, <3>2
  <2>6. QED
    BY <2>4, <2>5
<1>18. /\ bottom \in 0..Rows /\ y <= bottom
       /\ bottom <= r1.bottom /\ bottom <= r2.bottom /\ (bottom = r1.bottom \/ bottom = r2.bottom)
       /\ Built(both, bottom)
       /\ Points(both.rects) = {p \in Result : p[2] < bottom}
  BY <1>1, <1>9, <1>16, <1>17
<1>19. QED
  BY <1>18 DEF y, r1, r2, bottom, both, single, before, A1, A2, top, bot, overlap_top, B1, B2

\* A round sweeps to the end of the band that ends first, and adds what the first
\* region has alone above the other's band, and what they have together.
LEMMA BandRoundKeeps == RegionInv /\ BandRound => RegionInv'
<1> SUFFICES ASSUME RegionInv, BandRound PROVE RegionInv'
  OBVIOUS
<1> DEFINE bottom == Lesser(reg1[at1].bottom, reg2[at2].bottom)
           next1 == IF reg1[at1].bottom = bottom THEN BandEnd(reg1, at1) ELSE at1
           next2 == IF reg2[at2].bottom = bottom THEN BandEnd(reg2, at2) ELSE at2
<1>1. /\ op # "init" /\ pc = "bands" /\ overlap_bot \in 0..Rows /\ overlap_bot \in Int
      /\ Swept(reg1, at1, overlap_bot) /\ Swept(reg2, at2, overlap_bot)
      /\ at1 \in DOMAIN reg1 /\ at2 \in DOMAIN reg2
      /\ StartsBand(reg1, at1) /\ StartsBand(reg2, at2)
  BY DEF BandRound, RegionInv, Sweep
<1>2. /\ op' = op /\ reg1' = reg1 /\ reg2' = reg2
      /\ at1' = next1 /\ at2' = next2 /\ overlap_bot' = bottom
      /\ pc' = IF at1' <= Len(reg1) /\ at2' <= Len(reg2) THEN "bands" ELSE "rest"
  BY DEF BandRound
<1>3. PICK both : /\ new' = both.rects /\ prevBand' = both.prev /\ rects_have' = both.have
                  /\ bottom \in 0..Rows /\ overlap_bot <= bottom
                  /\ bottom <= reg1[at1].bottom /\ bottom <= reg2[at2].bottom
                  /\ bottom = reg1[at1].bottom \/ bottom = reg2[at2].bottom
                  /\ Built(both, bottom)
                  /\ Points(both.rects) = {p \in Result : p[2] < bottom}
  BY <1>1, BandRoundAdds DEF BandRound
<1>4. /\ InBands(reg1) /\ Len(reg1) \in Nat /\ InBands(reg2) /\ Len(reg2) \in Nat
  BY OperandsAre
<1> HIDE DEF bottom
<1>5. bottom \in Int
  BY <1>3
<1>6. /\ Swept(reg1, next1, bottom) /\ next1 \in Nat
      /\ next1 <= Len(reg1) => /\ next1 \in DOMAIN reg1 /\ StartsBand(reg1, next1)
                               /\ reg1[at1].bottom = bottom => bottom <= reg1[next1].top
  BY <1>1, <1>3, <1>4, <1>5, SweptOn
<1>7. /\ Swept(reg2, next2, bottom) /\ next2 \in Nat
      /\ next2 <= Len(reg2) => /\ next2 \in DOMAIN reg2 /\ StartsBand(reg2, next2)
                               /\ reg2[at2].bottom = bottom => bottom <= reg2[next2].top
  BY <1>1, <1>3, <1>4, <1>5, SweptOn
<1> HIDE DEF next1, next2
<1>8. Sweep'
  <2>1. pc' = "bands" => /\ next1 \in DOMAIN reg1 /\ next2 \in DOMAIN reg2
                         /\ StartsBand(reg1, next1) /\ StartsBand(reg2, next2)
                         /\ bottom <= reg1[next1].top \/ bottom <= reg2[next2].top
    BY <1>2, <1>3, <1>6, <1>7
  <2>2. pc' = "rest" => next1 > Len(reg1) \/ next2 > Len(reg2)
    BY <1>2, <1>4, <1>6, <1>7
  <2>3. QED
    BY <1>2, <1>3, <1>6, <1>7, <2>1, <2>2 DEF Sweep
<1>9. Collected'
  <2>1. both = [rects |-> both.rects, prev |-> both.prev, have |-> both.have]
    BY <1>3 DEF Built
  <2>2. [rects |-> new', prev |-> prevBand', have |-> rects_have'] = both
    BY <1>3, <2>1
  <2>3. Result' = Result
    BY <1>2 DEF Result
  <2>4. Built([rects |-> new', prev |-> prevBand', have |-> rects_have'], overlap_bot')
    BY <1>2, <1>3, <2>2
  <2>5. Points(new') = {p \in Result' : p[2] < overlap_bot'}
    BY <1>2, <1>3, <2>3
  <2>6. QED
    BY <2>4, <2>5 DEF Collected
<1>10. pc' \in {"bands", "rest"}
  BY <1>2
<1>11. Regular(reg1') /\ reg1' # <<>> /\ Regular(reg2') /\ reg2' # <<>> /\ op' \in {"init", "subtract", "intersect"}
  BY <1>2 DEF RegionInv
<1>12. QED
  BY <1>1, <1>2, <1>8, <1>9, <1>10, <1>11 DEF RegionInv

-----------------------------------------------------------------------------
(* The rest of a region, when the other is used up.                       *)

\* What is left of a region below y.
LEMMA RestIs ==
  ASSUME NEW S, Regular(S), NEW s, NEW y \in 0..Rows, Swept(S, s, y)
  PROVE  LET rest == [i \in 1..(Len(S) - s + 1) |->
                        LET r == S[s + i - 1] IN [r EXCEPT !.top = Greater(r.top, y)]]
         IN  /\ Regular(rest)
             /\ \A i \in DOMAIN rest : y <= rest[i].top
             /\ Points(rest) = {p \in Points(S) : y <= p[2]}
<1> DEFINE rest == [i \in 1..(Len(S) - s + 1) |->
                      LET r == S[s + i - 1] IN [r EXCEPT !.top = Greater(r.top, y)]]
           n == Len(S) - s + 1
           top(k) == Greater(S[k].top, y)
<1>1. /\ InBands(S) /\ S \in Seq(Boxes) /\ Len(S) \in Nat /\ DOMAIN S = 1..Len(S)
      /\ s \in 1..(Len(S) + 1)
      /\ \A i \in DOMAIN S : IF i < s THEN S[i].bottom <= y ELSE y < S[i].bottom
  BY DEF Regular, InBands, Swept
<1>2. \A k \in DOMAIN S : /\ S[k] \in Boxes /\ S[k].left < S[k].right /\ S[k].top < S[k].bottom
                          /\ S[k].left \in Int /\ S[k].right \in Int
                          /\ S[k].top \in 0..Rows /\ S[k].bottom \in 0..Rows
  <2> TAKE k \in DOMAIN S
  <2>1. S[k] \in Boxes /\ S[k].left < S[k].right /\ S[k].top < S[k].bottom
    BY <1>1 DEF InBands
  <2>2. QED
    BY <2>1, SizeAssumption DEF Boxes
<1>3. n \in Nat
  BY <1>1
<1>4. \A i \in 1..n : s + i - 1 \in DOMAIN S /\ ~ s + i - 1 < s
  BY <1>1
<1>5. \A k \in DOMAIN S : ~ k < s => k - s + 1 \in 1..n /\ s + (k - s + 1) - 1 = k
  BY <1>1
<1>6. \A k \in DOMAIN S : /\ top(k) \in 0..Rows /\ y <= top(k) /\ S[k].top <= top(k)
                          /\ top(k) = y \/ top(k) = S[k].top
  BY <1>2 DEF Greater
<1>7. \A i \in 1..n : rest[i] = Box(S[s + i - 1].left, top(s + i - 1), S[s + i - 1].right, S[s + i - 1].bottom)
  <2> TAKE i \in 1..n
  <2> DEFINE r == S[s + i - 1]
  <2>1. r \in Boxes
    BY <1>2, <1>4
  <2>2. rest[i] = [r EXCEPT !.top = Greater(r.top, y)]
    OBVIOUS
  <2> HIDE DEF r, rest
  <2>3. [r EXCEPT !.top = Greater(r.top, y)] = Box(r.left, Greater(r.top, y), r.right, r.bottom)
    BY <2>1 DEF Boxes, Box
  <2>4. QED
    BY <2>2, <2>3 DEF r
<1>8. DOMAIN rest = 1..n
  OBVIOUS
<1> HIDE DEF rest, n, top
<1>9. \A i \in 1..n : /\ rest[i].left = S[s + i - 1].left /\ rest[i].right = S[s + i - 1].right
                      /\ rest[i].top = top(s + i - 1) /\ rest[i].bottom = S[s + i - 1].bottom
  <2>1. \A a, t, c, b : /\ Box(a, t, c, b).left = a /\ Box(a, t, c, b).top = t
                        /\ Box(a, t, c, b).right = c /\ Box(a, t, c, b).bottom = b
    BY DEF Box
  <2>2. QED
    BY <1>7, <2>1
<1>10. \A i \in 1..n : rest[i] \in Boxes
  <2> TAKE i \in 1..n
  <2>1. s + i - 1 \in DOMAIN S
    BY <1>4
  <2>2. S[s + i - 1].left \in 0..Columns /\ S[s + i - 1].right \in 0..Columns /\ S[s + i - 1].bottom \in 0..Rows
    BY <1>2, <2>1 DEF Boxes
  <2>3. top(s + i - 1) \in 0..Rows
    BY <1>6, <2>1
  <2>4. \A a \in 0..Columns, t \in 0..Rows, c \in 0..Columns, b \in 0..Rows : Box(a, t, c, b) \in Boxes
    BY DEF Box, Boxes
  <2>5. QED
    BY <1>7, <2>2, <2>3, <2>4
<1>11. rest \in Seq(Boxes) /\ Len(rest) = n
  <2>1. rest = [i \in 1..n |-> rest[i]]
    BY <1>8 DEF rest
  <2>2. rest \in [1..n -> Boxes]
    BY <1>10, <2>1
  <2>3. QED
    BY <1>3, <2>2
\* The places of S from s on.
<1>12. \A k \in DOMAIN S : ~ k < s =>
         \E i \in 1..n : s + i - 1 = k
  BY <1>5
<1>13. ASSUME NEW x, NEW z \in Int
       PROVE  <<x, z>> \in Points(rest) <=> <<x, z>> \in Points(S) /\ y <= z
  <2>1. <<x, z>> \in Points(rest) <=>
          /\ x \in Int
          /\ \E i \in 1..n : rest[i].left <= x /\ x < rest[i].right /\ rest[i].top <= z /\ z < rest[i].bottom
    BY <1>8, <1>11, InPoints
  <2>2. <<x, z>> \in Points(S) <=>
          /\ x \in Int
          /\ \E k \in DOMAIN S : S[k].left <= x /\ x < S[k].right /\ S[k].top <= z /\ z < S[k].bottom
    BY <1>1, InPoints
  <2>3. ASSUME <<x, z>> \in Points(rest) PROVE <<x, z>> \in Points(S) /\ y <= z
    <3>1. PICK i \in 1..n : rest[i].left <= x /\ x < rest[i].right /\ rest[i].top <= z /\ z < rest[i].bottom
      BY <2>1, <2>3
    <3> DEFINE k == s + i - 1
    <3>2. /\ k \in DOMAIN S /\ S[k].left <= x /\ x < S[k].right /\ top(k) <= z /\ z < S[k].bottom
      BY <1>4, <1>9, <3>1
    <3> HIDE DEF k
    <3>3. S[k].top <= z /\ y <= z
      BY <1>2, <1>6, <3>2
    <3>4. QED
      BY <2>1, <2>2, <2>3, <3>2, <3>3
  <2>4. ASSUME <<x, z>> \in Points(S), y <= z PROVE <<x, z>> \in Points(rest)
    <3>1. PICK k \in DOMAIN S : S[k].left <= x /\ x < S[k].right /\ S[k].top <= z /\ z < S[k].bottom
      BY <2>2, <2>4
    <3>2. ~ k < s
      BY <1>1, <1>2, <2>4, <3>1
    <3>3. PICK i \in 1..n : s + i - 1 = k
      BY <1>12, <3>2
    <3>4. top(k) <= z
      BY <1>6, <2>4, <3>1
    <3>5. rest[i].left <= x /\ x < rest[i].right /\ rest[i].top <= z /\ z < rest[i].bottom
      BY <1>9, <3>1, <3>3, <3>4
    <3>6. QED
      BY <2>1, <2>2, <2>4, <3>5
  <2>5. QED
    BY <2>3, <2>4
<1>14. Points(rest) = {p \in Points(S) : y <= p[2]}
  <2>1. \A p \in Points(rest) \cup Points(S) : p = <<p[1], p[2]>> /\ p[2] \in Int
    BY <1>1, <1>11, PointsAre
  <2>2. \A p : p \in Points(rest) <=> p \in Points(S) /\ y <= p[2]
    <3> TAKE p
    <3>1. CASE p \in Points(rest) \cup Points(S)
      <4>1. p = <<p[1], p[2]>> /\ p[2] \in Int
        BY <2>1, <3>1
      <4>2. <<p[1], p[2]>> \in Points(rest) <=> <<p[1], p[2]>> \in Points(S) /\ y <= p[2]
        BY <1>13, <4>1
      <4>3. QED
        BY <4>1, <4>2
    <3>2. QED
      BY <3>1
  <2>3. QED
    BY <2>2
<1>15. \A i \in 1..n : /\ rest[i].left < rest[i].right /\ rest[i].top < rest[i].bottom
                       /\ y <= rest[i].top
  <2> TAKE i \in 1..n
  <2> DEFINE k == s + i - 1
  <2>1. /\ k \in DOMAIN S /\ ~ k < s
        /\ rest[i].left = S[k].left /\ rest[i].right = S[k].right
        /\ rest[i].top = top(k) /\ rest[i].bottom = S[k].bottom
    BY <1>4, <1>9
  <2> HIDE DEF k
  <2>2. y < S[k].bottom /\ y <= top(k) /\ (top(k) = y \/ top(k) = S[k].top)
    BY <1>1, <1>6, <2>1
  <2>3. QED
    BY <1>2, <2>1, <2>2
<1>16. ASSUME NEW i \in 1..n, NEW j \in 1..n, i < j PROVE Follows(rest[i], rest[j])
  <2> DEFINE k == s + i - 1
             l == s + j - 1
  <2>1. /\ k \in DOMAIN S /\ ~ k < s /\ k < l
        /\ rest[i].left = S[k].left /\ rest[i].right = S[k].right
        /\ rest[i].top = top(k) /\ rest[i].bottom = S[k].bottom
    BY <1>1, <1>4, <1>9, <1>16
  <2>2. /\ l \in DOMAIN S
        /\ rest[j].left = S[l].left /\ rest[j].right = S[l].right
        /\ rest[j].top = top(l) /\ rest[j].bottom = S[l].bottom
    BY <1>4, <1>9
  <2> HIDE DEF k, l
  <2>3. Follows(S[k], S[l])
    BY <1>1, <2>1, <2>2 DEF InBands
  <2>4. CASE S[k].top = S[l].top /\ S[k].bottom = S[l].bottom /\ S[k].right < S[l].left
    BY <2>1, <2>2, <2>4 DEF Follows, top
  <2>5. CASE S[k].bottom <= S[l].top
    <3>1. S[k].bottom <= top(l)
      BY <1>2, <1>6, <2>1, <2>2, <2>5
    <3>2. QED
      BY <2>1, <2>2, <3>1 DEF Follows
  <2>6. QED
    BY <2>3, <2>4, <2>5 DEF Follows
<1>17. InBands(rest)
  BY <1>8, <1>11, <1>15, <1>16 DEF InBands
<1>18. ASSUME NEW i \in 1..n
       PROVE  RowOf(Points(rest), rest[i].top - 1) # RowOf(Points(rest), rest[i].top)
  <2> DEFINE k == s + i - 1
             t == rest[i].top
  <2>1. /\ k \in DOMAIN S /\ ~ k < s
        /\ rest[i].left = S[k].left /\ rest[i].right = S[k].right
        /\ t = top(k) /\ rest[i].bottom = S[k].bottom
    BY <1>4, <1>9
  <2>2. t \in Int /\ y <= t /\ (t = y \/ t = S[k].top) /\ rest[i].left < rest[i].right /\ t < rest[i].bottom
    BY <1>6, <1>15, <2>1
  <2> HIDE DEF k, t
  <2>3. CASE t = y
    <3>1. rest[i].left \in Int /\ rest[i].left \in RowOf(Points(rest), t)
      <4>1. rest[i].left \in Int
        BY <1>2, <2>1
      <4>2. rest[i].left <= rest[i].left /\ rest[i].top <= t
        BY <2>2, <4>1 DEF t
      <4>3. QED
        BY <1>8, <1>11, <2>2, <4>1, <4>2, InRow
    <3>2. rest[i].left \notin RowOf(Points(rest), t - 1)
      <4>1. t - 1 \in Int /\ ~ y <= t - 1
        BY <2>2, <2>3
      <4>2. <<rest[i].left, t - 1>> \notin Points(rest)
        BY <1>13, <4>1
      <4>3. QED
        BY <4>2 DEF RowOf
    <3>3. QED
      BY <3>1, <3>2 DEF t
  <2>4. CASE t # y
    <3>1. t = S[k].top /\ t - 1 \in Int /\ y <= t - 1
      BY <2>2, <2>4
    <3>2. /\ \A x : <<x, t>> \in Points(rest) <=> <<x, t>> \in Points(S)
          /\ \A x : <<x, t - 1>> \in Points(rest) <=> <<x, t - 1>> \in Points(S)
      BY <1>13, <2>2, <3>1
    <3>3. /\ RowOf(Points(rest), t) = RowOf(Points(S), t)
          /\ RowOf(Points(rest), t - 1) = RowOf(Points(S), t - 1)
      BY <3>2 DEF RowOf
    <3>4. RowOf(Points(S), S[k].top - 1) # RowOf(Points(S), S[k].top)
      BY <2>1 DEF Regular, Apart
    <3>5. QED
      BY <3>1, <3>3, <3>4 DEF t
  <2>5. QED
    BY <2>3, <2>4
<1>19. Regular(rest)
  BY <1>8, <1>17, <1>18 DEF Regular, Apart
<1>20. Regular(rest) /\ (\A i \in DOMAIN rest : y <= rest[i].top) /\ Points(rest) = {p \in Points(S) : y <= p[2]}
  BY <1>8, <1>14, <1>15, <1>19
<1>21. QED
  BY <1>20 DEF rest

\* The bands left over are the rest of the result.
LEMMA RestKeeps == RegionInv /\ Rest => RegionInv'
<1> SUFFICES ASSUME RegionInv, Rest PROVE RegionInv'
  OBVIOUS
<1> DEFINE y == overlap_bot
           before == [rects |-> new, prev |-> prevBand, have |-> rects_have]
           left == [i \in 1..(Len(reg1) - at1 + 1) |->
                      LET r == reg1[at1 + i - 1] IN [r EXCEPT !.top = Greater(r.top, y)]]
           added == IF op = "subtract" THEN left ELSE <<>>
           all == AddBand(before, added)
           N == all.rects
<1>1. /\ op \in {"subtract", "intersect"} /\ pc = "rest" /\ y \in 0..Rows /\ y \in Int
      /\ Swept(reg1, at1, y) /\ Swept(reg2, at2, y)
      /\ at1 > Len(reg1) \/ at2 > Len(reg2)
      /\ Built(before, y)
      /\ Points(new) = {p \in Result : p[2] < y}
      /\ Regular(reg1)
  BY SizeAssumption DEF Rest, RegionInv, Sweep, Collected
<1>2. /\ op' = op /\ reg1' = reg1 /\ reg2' = reg2 /\ pc' = "done"
      /\ new' = N /\ extents' = ExtentsOf(new')
      /\ rects_have' = IF Len(N) >= all.have \div 2 THEN all.have ELSE Greater(Len(N), 1)
  BY DEF Rest
<1>3. /\ Regular(new) /\ LastBand(new, prevBand) /\ InBands(new)
      /\ rects_have \in Nat /\ rects_have > 0 /\ Len(new) <= rects_have
      /\ \A p \in Points(new) : p[2] < y
  BY <1>1 DEF Built, Regular
<1>4. /\ Regular(left)
      /\ \A i \in DOMAIN left : y <= left[i].top
      /\ Points(left) = {p \in Points(reg1) : y <= p[2]}
  BY <1>1, RestIs
<1> HIDE DEF left
<1>5. /\ Regular(added) /\ \A i \in DOMAIN added : y <= added[i].top
      /\ Points(added) = IF op = "subtract" THEN {p \in Points(reg1) : y <= p[2]} ELSE {}
  <2>1. CASE op = "subtract"
    <3>1. added = left
      BY <2>1
    <3>2. QED
      BY <1>4, <2>1, <3>1
  <2>2. CASE op # "subtract"
    <3>1. added = <<>>
      BY <2>2
    <3>2. \A i \in DOMAIN <<>> : y <= <<>>[i].top
      OBVIOUS
    <3>3. QED
      BY <2>2, <3>1, <3>2, NoBoxes
  <2>3. QED
    BY <2>1, <2>2
<1> HIDE DEF added
<1>6. \A i \in DOMAIN new, j \in DOMAIN added : new[i].bottom <= added[j].top
  <2> TAKE i \in DOMAIN new, j \in DOMAIN added
  <2>1. new[i].bottom <= y /\ new[i].bottom \in Int
    BY <1>1, <1>3, BottomsAre, ListIs
  <2>2. y <= added[j].top /\ added[j].top \in Int
    BY <1>5, ListIs DEF Regular
  <2>3. QED
    BY <1>1, <2>1, <2>2
<1>7. /\ Regular(N) /\ Points(N) = Points(new) \cup Points(added)
      /\ all.have \in Nat /\ Len(N) <= all.have
  BY <1>3, <1>5, <1>6, AddBandIs
<1> HIDE DEF all
\* Below, at most one of the regions has points.
<1>8. ASSUME NEW S, InBands(S), NEW s, Swept(S, s, y), s > Len(S), NEW p \in Points(S), ~ p[2] < y
      PROVE  FALSE
  <2>1. S \in Seq(Boxes)
    BY <1>8 DEF InBands
  <2>2. p = <<p[1], p[2]>> /\ p[2] \in Int
    BY <2>1, PointsAre
  <2>3. PICK i \in DOMAIN S : p[2] < S[i].bottom
    BY <2>1, <2>2, InPoints
  <2>4. i < s /\ S[i].bottom \in Int
    BY <1>8, <2>1, ListIs DEF Swept
  <2>5. QED
    BY <1>1, <1>8, <2>2, <2>3, <2>4 DEF Swept
<1>9. \A p \in Points(reg1) : ~ p[2] < y => p \notin Points(reg2)
  BY <1>1, <1>8, OperandsAre
<1>10. Points(N) = Result
  <2>1. \A p \in Points(reg1) : p[2] \in Int
    BY OperandsAre
  <2>2. CASE op = "subtract"
    <3>1. Result = Points(reg1) \ Points(reg2)
      BY <2>2 DEF Result
    <3>2. QED
      BY <1>1, <1>5, <1>7, <1>9, <2>1, <2>2, <3>1
  <2>3. CASE op = "intersect"
    <3>1. Result = Points(reg1) \cap Points(reg2)
      BY <2>3 DEF Result
    <3>2. QED
      BY <1>1, <1>5, <1>7, <1>9, <2>1, <2>3, <3>1
  <2>4. QED
    BY <1>1, <2>2, <2>3
<1>11. N = Banded(Result) /\ ExtentsOf(N) = IF N = <<>> THEN EmptyBox ELSE BoxAround(Points(N))
  BY <1>7, <1>10, FinishedIs
<1>12. Len(N) <= rects_have'
  <2>1. Len(N) \in Nat
    BY <1>7 DEF Regular, InBands
  <2>2. QED
    BY <1>2, <1>7, <2>1 DEF Greater
<1> HIDE DEF N
<1>13. Result' = Result
  BY <1>2 DEF Result
<1>14. Regular(reg1') /\ reg1' # <<>> /\ Regular(reg2') /\ reg2' # <<>> /\ op' \in {"init", "subtract", "intersect"}
  BY <1>2 DEF RegionInv
<1>15. QED
  BY <1>2, <1>11, <1>12, <1>13, <1>14 DEF RegionInv

\* region_operation keeps its operands regular, the cursors at bands that are still
\* to be swept, and the new region exact down to where it has swept.
THEOREM RegionInvHolds == Spec => []RegionInv
<1>1. RegionInv /\ UNCHANGED vars => RegionInv'
  <2> SUFFICES ASSUME RegionInv, UNCHANGED vars PROVE RegionInv'
    OBVIOUS
  <2>1. /\ op' = op /\ reg1' = reg1 /\ reg2' = reg2 /\ new' = new /\ extents' = extents
        /\ rects_have' = rects_have /\ at1' = at1 /\ at2' = at2 /\ overlap_bot' = overlap_bot
        /\ prevBand' = prevBand /\ pc' = pc
    BY DEF vars, cursors
  <2>2. Result' = Result
    BY <2>1 DEF Result
  <2>3. Sweep' = Sweep /\ Collected' = Collected
    BY <2>1, <2>2 DEF Sweep, Collected
  <2>4. QED
    BY <2>1, <2>2, <2>3 DEF RegionInv
<1>2. RegionInv /\ Next => RegionInv'
  BY InitRegionKeeps, RejectKeeps, EnterKeeps, BandRoundKeeps, RestKeeps DEF Next
<1>3. RegionInv /\ [Next]_vars => RegionInv'
  BY <1>1, <1>2
<1>4. QED
  BY RegionInit, <1>3, PTL DEF Spec

\* Above overlap_bot, the new region has the points it should have, after every
\* round of region_operation.
THEOREM OperationIsExact == Spec => []RoundsAreExact
<1>1. RegionInv => RoundsAreExact
  BY DEF RegionInv, Collected, RoundsAreExact
<1>2. QED
  BY RegionInvHolds, <1>1, PTL

\* subtract_region and intersect_region leave the points they should, in the
\* one banded list that has them.
THEOREM OperationIsBanded == Spec => []ResultIsBanded
<1>1. RegionInv => ResultIsBanded
  BY DEF RegionInv, ResultIsBanded
<1>2. QED
  BY RegionInvHolds, <1>1, PTL

\* MEMCHECK leaves room for every rectangle that is written, although the array
\* starts at twice the length of the second operand only.
THEOREM ArrayHasRoom == Spec => []ArrayIsLargeEnough
<1>1. RegionInv => ArrayIsLargeEnough
  BY DEF RegionInv, Collected, Built, ArrayIsLargeEnough
<1>2. QED
  BY RegionInvHolds, <1>1, PTL

\* set_region_extents leaves the smallest box around the region.
THEOREM ExtentsStayTight == Spec => []ExtentsAreTight
<1>1. RegionInv => ExtentsAreTight
  BY DEF RegionInv, ExtentsAreTight
<1>2. QED
  BY RegionInvHolds, <1>1, PTL

=============================================================================
