---------------------------- MODULE DrawingProofs ----------------------------
(***************************************************************************)
(* Proofs about Clip, for every size of the window and the screen,         *)
(* whatever lies on the window, and all requests within the coordinates:   *)
(* the cache is true of every point it has, and the drawing functions draw *)
(* what was asked for where the window is visible, and nowhere else.       *)
(*                                                                         *)
(* The invariant (CInv) is that the cache is true and, in a window that is *)
(* covered, NothingVisible.  Every painter is shown to keep it and to draw *)
(* the visible ones of its points (Paints); what a loop does after so many *)
(* rounds is shown from one round to the next.                             *)
(*                                                                         *)
(* What BandedSet lists is proved from Rects: there are as many places in  *)
(* the order as rectangles, so that each place is taken.                   *)
(***************************************************************************)
EXTENDS Clip, SequenceTheorems, FiniteSetTheorems, FunctionTheorems, WellFoundedInduction, TLAPS

LEMMA LeastNumber ==
  ASSUME NEW T, T \subseteq Nat, T # {}
  PROVE  \E n \in T : \A k \in T : n <= k
<1> DEFINE R == {p \in Nat \X Nat : p[1] < p[2]}
<1>1. IsWellFoundedOn(R, Nat)
  BY NatLessThanWellFounded DEF OpToRel
<1> HIDE DEF R
<1>2. PICK n \in T : \A k \in T : ~(<<k, n>> \in R)
  BY <1>1, WFMin
<1>3. ASSUME NEW k \in T, k < n PROVE FALSE
  BY <1>2, <1>3, T \subseteq Nat DEF R
<1>4. QED
  BY <1>3, T \subseteq Nat

\* Induction up to n.
LEMMA UpTo ==
  ASSUME NEW n \in Nat, NEW S, 0 \in S, \A k \in 1..n : k - 1 \in S => k \in S
  PROVE  n \in S
<1> DEFINE T == {k \in 0..n : k \notin S}
<1>1. SUFFICES ASSUME n \notin S PROVE FALSE
  OBVIOUS
<1>2. T \subseteq Nat /\ T # {}
  BY <1>1
<1>3. PICK k \in T : \A j \in T : k <= j
  BY <1>2, LeastNumber
<1>4. k \in 1..n /\ k - 1 \in 0..n /\ k - 1 \notin T
  BY <1>3
<1>5. QED
  BY <1>3, <1>4

\* A set of integers has a least element if it has a lower bound, and a greatest
\* one if it has an upper bound.
LEMMA LeastInt ==
  ASSUME NEW S, S \subseteq Int, S # {}, NEW b \in Int, \A n \in S : b <= n
  PROVE  /\ LeastOf(S) \in S
         /\ \A m \in S : LeastOf(S) <= m
<1> DEFINE T == {n - b : n \in S}
<1>0. \A n \in S : n - b \in Nat
  OBVIOUS
<1>1. T \subseteq Nat /\ T # {}
  BY <1>0
<1> HIDE DEF T
<1>2. PICK t \in T : \A k \in T : t <= k
  BY <1>1, LeastNumber
<1>3. PICK n \in S : t = n - b
  BY DEF T
<1>4. \A m \in S : m - b \in T
  BY DEF T
<1>5. \A m \in S : n <= m
  BY <1>2, <1>3, <1>4
<1>6. QED
  BY <1>5 DEF LeastOf

LEMMA LeastOfIs ==
  ASSUME NEW S, S \subseteq Nat, S # {}
  PROVE  LeastOf(S) \in S
<1>1. \A n \in S : 0 <= n
  OBVIOUS
<1>2. S \subseteq Int /\ 0 \in Int
  OBVIOUS
<1>3. QED
  BY <1>1, <1>2, LeastInt

LEMMA MostInt ==
  ASSUME NEW S, S \subseteq Int, S # {}, NEW b \in Int, \A n \in S : n <= b
  PROVE  /\ MostOf(S) \in S
         /\ \A m \in S : m <= MostOf(S)
<1> DEFINE T == {b - n : n \in S}
<1>0. \A n \in S : b - n \in Nat
  OBVIOUS
<1>1. T \subseteq Nat /\ T # {}
  BY <1>0
<1> HIDE DEF T
<1>2. PICK t \in T : \A k \in T : t <= k
  BY <1>1, LeastNumber
<1>3. PICK n \in S : t = b - n
  BY DEF T
<1>4. \A m \in S : b - m \in T
  BY DEF T
<1>5. \A m \in S : m <= n
  BY <1>2, <1>3, <1>4
<1>6. QED
  BY <1>5 DEF MostOf

-----------------------------------------------------------------------------
(* The banded list of a set of points lists its rectangles.                 *)

Boxes == [left : 0..Columns, top : 0..Rows, right : 0..Columns, bottom : 0..Rows]

LEMMA BoxesAreFinite == IsFiniteSet(Boxes)
<1> DEFINE X == 0..Columns
           Y == 0..Rows
           P == (X \X Y) \X (X \X Y)
           f == [r \in Boxes |-> <<<<r.left, r.top>>, <<r.right, r.bottom>>>>]
<1>1. IsFiniteSet(X) /\ IsFiniteSet(Y)
  BY FS_Interval, SizeAssumption
<1> HIDE DEF X, Y
<1>2. IsFiniteSet(X \X Y)
  BY <1>1, FS_Product
<1>3. IsFiniteSet(P)
  BY <1>2, FS_Product
<1>4. f \in [Boxes -> P]
  BY DEF Boxes, X, Y
<1>5. \A r, q \in Boxes : f[r] = f[q] => r = q
  BY DEF Boxes
<1>6. f \in Injection(Boxes, P)
  BY <1>4, <1>5 DEF Injection, IsInjective
<1>7. QED
  BY <1>3, <1>6, FS_Injection

LEMMA BandedSetIsFinite ==
  ASSUME NEW S
  PROVE  BandedSet(S) \subseteq Boxes /\ IsFiniteSet(BandedSet(S))
<1>1. BandedSet(S) \subseteq Boxes
  BY DEF BandedSet, Boxes
<1>2. QED
  BY <1>1, BoxesAreFinite, FS_Subset

\* What a member of the banded form is.
LEMMA BandedBox ==
  ASSUME NEW S, NEW r \in BandedSet(S)
  PROVE  /\ r \in Boxes
         /\ r.left < r.right /\ r.top < r.bottom
         /\ PointsIn(r) \subseteq S
         /\ <<r.left - 1, r.top>> \notin S /\ <<r.right, r.top>> \notin S
         /\ \A y \in r.top .. (r.bottom - 1) : RowOf(S, y) = RowOf(S, r.top)
         /\ RowOf(S, r.top - 1) # RowOf(S, r.top)
         /\ RowOf(S, r.bottom) # RowOf(S, r.top)
  BY DEF BandedSet, Boxes

\* Of two different rectangles one is before the other.
LEMMA OneIsBefore ==
  ASSUME NEW S, NEW p \in BandedSet(S), NEW q \in BandedSet(S), p # q
  PROVE  Before(p, q) \/ Before(q, p)
<1>1. p \in Boxes /\ q \in Boxes
  BY BandedBox
<1>2. SUFFICES ASSUME p.top = q.top, p.left = q.left PROVE FALSE
  BY <1>1, SizeAssumption DEF Before, Boxes
<1>3. \A r, s \in BandedSet(S) : r.top = s.top /\ r.left = s.left => ~ (r.right < s.right)
  <2> SUFFICES ASSUME NEW r \in BandedSet(S), NEW s \in BandedSet(S),
                      r.top = s.top, r.left = s.left, r.right < s.right
               PROVE  FALSE
    OBVIOUS
  <2>1. r \in Boxes /\ s \in Boxes /\ r.left < r.right /\ s.top < s.bottom
    BY BandedBox
  <2>2. PointsIn(s) \subseteq S /\ <<r.right, r.top>> \notin S
    BY BandedBox
  <2>3. <<r.right, r.top>> \in PointsIn(s)
    BY <2>1, SizeAssumption DEF PointsIn, Boxes
  <2>4. QED
    BY <2>2, <2>3
<1>4. \A r, s \in BandedSet(S) : r.top = s.top => ~ (r.bottom < s.bottom)
  <2> SUFFICES ASSUME NEW r \in BandedSet(S), NEW s \in BandedSet(S),
                      r.top = s.top, r.bottom < s.bottom
               PROVE  FALSE
    OBVIOUS
  <2>1. r \in Boxes /\ s \in Boxes /\ r.top < r.bottom
    BY BandedBox
  <2>2. r.bottom \in s.top .. (s.bottom - 1)
    BY <2>1, SizeAssumption DEF Boxes
  <2>3. RowOf(S, r.bottom) = RowOf(S, s.top) /\ RowOf(S, r.bottom) # RowOf(S, r.top)
    BY <2>2, BandedBox
  <2>4. QED
    BY <2>3
<1>5. p.right = q.right /\ p.bottom = q.bottom
  BY <1>1, <1>2, <1>3, <1>4, SizeAssumption DEF Boxes
<1>6. QED
  BY <1>1, <1>2, <1>5 DEF Boxes

\* Each place in the order is taken.
LEMMA BandedRanks ==
  ASSUME NEW S, NEW i \in 1..Cardinality(BandedSet(S))
  PROVE  \E r \in BandedSet(S) : Cardinality({q \in BandedSet(S) : Before(q, r)}) = i - 1
<1> DEFINE R == BandedSet(S)
           N == Cardinality(R)
           Pre(r) == {q \in R : Before(q, r)}
           rank == [r \in R |-> Cardinality(Pre(r))]
<1>1. IsFiniteSet(R) /\ R \subseteq Boxes
  BY BandedSetIsFinite
<1>2. N \in Nat
  BY <1>1, FS_CardinalityType
<1>3. \A p, q \in R : p # q => Before(p, q) \/ Before(q, p)
  BY OneIsBefore
<1>4. \A p, q, r \in R : Before(p, q) /\ Before(q, r) => Before(p, r)
  BY <1>1, SizeAssumption DEF Before, Boxes
<1>5. \A p \in R : ~ Before(p, p)
  BY <1>1, SizeAssumption DEF Before, Boxes
<1> HIDE DEF R
<1>6. \A r \in R : IsFiniteSet(Pre(r)) /\ Cardinality(Pre(r)) \in Nat
  BY <1>1, FS_Subset, FS_CardinalityType
<1>7. ASSUME NEW p \in R, NEW q \in R, Before(p, q)
      PROVE  Cardinality(Pre(p)) < Cardinality(Pre(q))
  <2>1. Pre(p) \subseteq Pre(q)
    BY <1>4, <1>7
  <2>2. p \in Pre(q) /\ p \notin Pre(p)
    BY <1>5, <1>7
  <2>3. Cardinality(Pre(p)) <= Cardinality(Pre(q)) /\ Cardinality(Pre(p)) # Cardinality(Pre(q))
    <3> DEFINE A == Pre(p)
               B == Pre(q)
    <3>1. IsFiniteSet(B) /\ A \in SUBSET B /\ A # B
      BY <1>6, <2>1, <2>2
    <3> HIDE DEF A, B
    <3>2. Cardinality(A) <= Cardinality(B) /\ (Cardinality(B) = Cardinality(A) => B = A)
      BY <3>1, FS_Subset
    <3>3. Cardinality(A) <= Cardinality(B) /\ Cardinality(A) # Cardinality(B)
      BY <3>1, <3>2
    <3>4. QED
      BY <3>3 DEF A, B
  <2>4. QED
    BY <1>6, <2>3
<1>8. \A r \in R : Cardinality(Pre(r)) \in 0..(N - 1)
  <2> TAKE r \in R
  <2> DEFINE A == Pre(r)
  <2>1. A \in SUBSET R /\ r \notin A
    BY <1>5
  <2>2. A # R /\ Cardinality(A) \in Nat
    BY <1>6, <2>1
  <2> HIDE DEF A
  <2>3. Cardinality(A) <= N /\ (N = Cardinality(A) => R = A)
    BY <1>1, <2>1, FS_Subset
  <2>4. Cardinality(A) \in 0..(N - 1)
    BY <1>2, <2>2, <2>3
  <2>5. QED
    BY <2>4 DEF A
<1>9. rank \in Injection(R, 0..(N - 1))
  <2>1. rank \in [R -> 0..(N - 1)]
    BY <1>8
  <2>2. ASSUME NEW p \in R, NEW q \in R, rank[p] = rank[q] PROVE p = q
    <3>1. Cardinality(Pre(p)) = Cardinality(Pre(q))
      BY <2>2
    <3>2. ~ Before(p, q) /\ ~ Before(q, p)
      BY <1>6, <1>7, <3>1
    <3>3. QED
      BY <1>3, <3>2
  <2> HIDE DEF rank
  <2>3. QED
    BY <2>1, <2>2 DEF Injection, IsInjective
<1>10. IsFiniteSet(0..(N - 1)) /\ Cardinality(0..(N - 1)) = N
  <2> HIDE DEF N
  <2>1. Cardinality(0..(N - 1)) = IF 0 > N - 1 THEN 0 ELSE N - 1 - 0 + 1
    BY <1>2, FS_Interval
  <2>2. QED
    BY <1>2, <2>1, FS_Interval
<1>11. rank \in Surjection(R, 0..(N - 1))
  <2> HIDE DEF rank
  <2>1. QED
    BY <1>9, <1>10, FS_Injection
<1>12. i - 1 \in 0..(N - 1)
  BY <1>2 DEF R
<1>13. PICK r \in R : rank[r] = i - 1
  <2> HIDE DEF rank
  <2>1. QED
    BY <1>11, <1>12 DEF Surjection
<1>14. Cardinality(Pre(r)) = i - 1
  BY <1>13
<1>15. QED
  BY <1>14 DEF R

\* A banded list is a sequence of rectangles of the banded form.
LEMMA BandedLists ==
  ASSUME NEW S
  PROVE  /\ Banded(S) \in Seq(Boxes)
         /\ \A i \in DOMAIN Banded(S) : Banded(S)[i] \in BandedSet(S)
<1> DEFINE R == BandedSet(S)
           N == Cardinality(R)
           At(i) == CHOOSE r \in R : Cardinality({q \in R : Before(q, r)}) = i - 1
<1>1. IsFiniteSet(R) /\ R \subseteq Boxes /\ N \in Nat
  BY BandedSetIsFinite, FS_CardinalityType
<1>2. Banded(S) = [i \in 1..N |-> At(i)]
  BY DEF Banded
<1>3. \A i \in 1..N : At(i) \in R
  BY BandedRanks
<1> HIDE DEF At, R, N
<1>4. Banded(S) \in [1..N -> R]
  BY <1>2, <1>3
<1>5. Banded(S) \in [1..N -> Boxes] /\ DOMAIN Banded(S) = 1..N
  BY <1>1, <1>4
<1>6. Banded(S) \in Seq(Boxes)
  BY <1>1, <1>5, SeqDef
<1>7. QED
  BY <1>4, <1>6 DEF R

-----------------------------------------------------------------------------
(* The invariant: the cache is true.                                        *)

Pairs == Int \X Int

\* Rectangles within the window.
Inside == {r \in Boxes : /\ r.left < r.right /\ r.top < r.bottom
                         /\ r.right <= Width - 1 /\ r.bottom <= Height - 1}

Caches == [minx : Int, maxx : Int, miny : Int, maxy : Int, result : BOOLEAN]

\* What the cache may be: true of its points, and, in a window that is covered,
\* what prevents all drawing.
TrueCaches ==
  {c \in Caches : /\ \A p \in Pairs : Within(c, p) => (c.result <=> p \in Visible)
                  /\ region = <<>> => c = NothingVisible}

CInv == region \in Seq(Inside) /\ cache \in TrueCaches

LEMMA Sizes ==
  /\ Width \in Nat /\ Height \in Nat /\ Width > 1 /\ Height > 1
  /\ MinCoord \in Int /\ MaxCoord \in Int /\ MinCoord < 0
  /\ MaxCoord >= Width /\ MaxCoord >= Height
  BY SizeAssumption, ClipAssumption DEF Width, Height, Greater

LEMMA InsideBox ==
  ASSUME NEW r \in Inside
  PROVE  /\ r.left \in Nat /\ r.right \in Nat /\ r.top \in Nat /\ r.bottom \in Nat
         /\ r.left < r.right /\ r.top < r.bottom
         /\ r.right <= Width - 1 /\ r.bottom <= Height - 1
  BY Sizes DEF Inside, Boxes, Width, Height

\* What a point is, and when it is within a cache.
LEMMA PairIs ==
  ASSUME NEW p \in Pairs
  PROVE  p[1] \in Int /\ p[2] \in Int /\ p = <<p[1], p[2]>>
  BY DEF Pairs

LEMMA WithinIs ==
  ASSUME NEW c \in Caches, NEW p \in Pairs
  PROVE  Within(c, p) <=> c.minx <= p[1] /\ p[1] <= c.maxx /\ c.miny <= p[2] /\ p[2] <= c.maxy
  BY DEF Within, Caches, Pairs

LEMMA CoversIs ==
  ASSUME NEW r \in Inside, NEW p \in Pairs
  PROVE  Covers(r, p) <=> r.left <= p[1] /\ p[1] <= r.right /\ r.top <= p[2] /\ p[2] <= r.bottom
  BY InsideBox DEF Covers, CacheOf, Cache, Within, Pairs

LEMMA VisibleIs ==
  ASSUME region \in Seq(Inside), NEW p \in Pairs
  PROVE  /\ p \in Visible <=> \E i \in DOMAIN region : Covers(region[i], p)
         /\ p \in Visible => p[1] \in 0..(Width - 1) /\ p[2] \in 0..(Height - 1)
<1>1. p \in Visible <=>
        \E i \in DOMAIN region : p \in (region[i].left .. region[i].right) \X (region[i].top .. region[i].bottom)
  BY DEF Visible, PointSet
<1>2. \A i \in DOMAIN region : region[i] \in Inside
  OBVIOUS
<1>3. \A i \in DOMAIN region :
        p \in (region[i].left .. region[i].right) \X (region[i].top .. region[i].bottom)
          <=> Covers(region[i], p)
  <2> TAKE i \in DOMAIN region
  <2> DEFINE r == region[i]
  <2>1. r \in Inside
    BY <1>2
  <2> HIDE DEF r
  <2>2. /\ p[1] \in Int /\ p[2] \in Int /\ p = <<p[1], p[2]>>
        /\ r.left \in Int /\ r.right \in Int /\ r.top \in Int /\ r.bottom \in Int
    BY <2>1, InsideBox, PairIs
  <2>3. Covers(r, p) <=> p[1] \in r.left .. r.right /\ p[2] \in r.top .. r.bottom
    BY <2>1, <2>2, CoversIs
  <2>4. p \in (r.left .. r.right) \X (r.top .. r.bottom) <=> Covers(r, p)
    BY <2>2, <2>3
  <2>5. QED
    BY <2>4 DEF r
<1>4. ASSUME NEW i \in DOMAIN region, Covers(region[i], p)
      PROVE  p[1] \in 0..(Width - 1) /\ p[2] \in 0..(Height - 1)
  <2> DEFINE r == region[i]
  <2>1. r \in Inside /\ Covers(r, p)
    BY <1>2, <1>4
  <2> HIDE DEF r
  <2>2. r.left <= p[1] /\ p[1] <= r.right /\ r.top <= p[2] /\ p[2] <= r.bottom
    BY <2>1, CoversIs
  <2>3. /\ p[1] \in Int /\ p[2] \in Int
        /\ r.left \in Nat /\ r.right \in Nat /\ r.top \in Nat /\ r.bottom \in Nat
        /\ r.right <= Width - 1 /\ r.bottom <= Height - 1
    BY <2>1, InsideBox, PairIs
  <2>4. QED
    BY <2>2, <2>3, Sizes
<1>5. QED
  BY <1>1, <1>3, <1>4

LEMMA CoveredWindow ==
  ASSUME region = <<>>
  PROVE  Visible = {}
  BY DEF Visible, PointSet

\* A rectangle without visible points, and one of visible points only.
LEMMA InvisibleCache ==
  ASSUME region # <<>>,
         NEW x1 \in Int, NEW x2 \in Int, NEW y1 \in Int, NEW y2 \in Int,
         \A p \in Pairs : x1 <= p[1] /\ p[1] <= x2 /\ y1 <= p[2] /\ p[2] <= y2 => p \notin Visible
  PROVE  Cache(x1, x2, y1, y2, FALSE) \in TrueCaches
<1> DEFINE c == Cache(x1, x2, y1, y2, FALSE)
<1>1. c \in Caches /\ c.minx = x1 /\ c.maxx = x2 /\ c.miny = y1 /\ c.maxy = y2 /\ c.result = FALSE
  BY DEF Cache, Caches
<1> HIDE DEF c
<1>2. \A p \in Pairs : Within(c, p) => (c.result <=> p \in Visible)
  BY <1>1, WithinIs
<1>3. c \in TrueCaches
  BY <1>1, <1>2 DEF TrueCaches
<1>4. QED
  BY <1>3 DEF c

LEMMA VisibleCache ==
  ASSUME region \in Seq(Inside), NEW i \in DOMAIN region
  PROVE  CacheOf(region[i]) \in TrueCaches
<1> DEFINE r == region[i]
           c == CacheOf(r)
<1>1. r \in Inside
  OBVIOUS
<1>2. region # <<>>
  OBVIOUS
<1>3. \A p \in Pairs : Covers(r, p) => p \in Visible
  BY VisibleIs
<1> HIDE DEF r
<1>4. c \in Caches /\ c.result = TRUE
  BY <1>1, InsideBox DEF CacheOf, Cache, Caches
<1>5. \A p \in Pairs : Within(c, p) => p \in Visible
  BY <1>3 DEF Covers
<1> HIDE DEF c
<1>6. c \in TrueCaches
  BY <1>2, <1>4, <1>5 DEF TrueCaches
<1>7. QED
  BY <1>6 DEF c, r

\* What is around a point that no rectangle covers is free of rectangles, and has
\* the point.
LEMMA AroundIsTrue ==
  ASSUME region \in Seq(Inside), region # <<>>, NEW p \in Place,
         \A i \in DOMAIN region : ~ Covers(region[i], p)
  PROVE  Around(p) \in TrueCaches /\ Within(Around(p), p)
<1> DEFINE R == {region[i] : i \in DOMAIN region}
           A == {MinCoord} \cup {r.right + 1 : r \in {q \in R : p[1] > q.right}}
           B == {MaxCoord} \cup {r.left - 1 : r \in {q \in R : p[1] < q.left}}
           C == {MinCoord} \cup {r.bottom + 1 : r \in {q \in R : p[2] > q.bottom}}
           D == {MaxCoord} \cup {r.top - 1 : r \in {q \in R : p[2] < q.top}}
           a == MostOf(A)
           b == LeastOf(B)
           c == MostOf(C)
           d == LeastOf(D)
<1>1. R \subseteq Inside
  OBVIOUS
<1>2. p \in Pairs /\ p[1] \in Coords /\ p[2] \in Coords
  BY Sizes DEF Place, Coords, Pairs
<1>3. Around(p) = Cache(a, b, c, d, FALSE)
  BY DEF Around
<1>4. \A r \in R : ~ Covers(r, p)
  OBVIOUS
<1>5. \A q \in Pairs : q \in Visible => \E r \in R : Covers(r, q)
  BY VisibleIs
<1> HIDE DEF R
<1>6. /\ A \subseteq Int /\ MinCoord \in A /\ \A n \in A : n <= p[1]
      /\ B \subseteq Int /\ MaxCoord \in B /\ \A n \in B : p[1] <= n
      /\ C \subseteq Int /\ MinCoord \in C /\ \A n \in C : n <= p[2]
      /\ D \subseteq Int /\ MaxCoord \in D /\ \A n \in D : p[2] <= n
  <2>1. p[1] \in Int /\ p[2] \in Int /\ MinCoord <= p[1] /\ MinCoord <= p[2]
        /\ p[1] <= MaxCoord /\ p[2] <= MaxCoord
    BY <1>2, Sizes DEF Coords
  <2>2. \A r \in R : r.left \in Nat /\ r.right \in Nat /\ r.top \in Nat /\ r.bottom \in Nat
    BY <1>1, InsideBox
  <2>3. A \subseteq Int /\ MinCoord \in A /\ \A n \in A : n <= p[1]
    BY <2>1, <2>2, Sizes
  <2>4. B \subseteq Int /\ MaxCoord \in B /\ \A n \in B : p[1] <= n
    BY <2>1, <2>2, Sizes
  <2>5. C \subseteq Int /\ MinCoord \in C /\ \A n \in C : n <= p[2]
    BY <2>1, <2>2, Sizes
  <2>6. D \subseteq Int /\ MaxCoord \in D /\ \A n \in D : p[2] <= n
    BY <2>1, <2>2, Sizes
  <2>7. QED
    BY <2>3, <2>4, <2>5, <2>6
<1>7. \A r \in R : /\ p[1] > r.right => r.right + 1 \in A
                   /\ p[1] < r.left => r.left - 1 \in B
                   /\ p[2] > r.bottom => r.bottom + 1 \in C
                   /\ p[2] < r.top => r.top - 1 \in D
  OBVIOUS
<1> HIDE DEF A, B, C, D
<1>8. p[1] \in Int /\ p[2] \in Int
  BY <1>2, PairIs
<1>9. a \in A /\ \A n \in A : n <= a
  BY <1>6, <1>8, MostInt
<1>10. b \in B /\ \A n \in B : b <= n
  BY <1>6, <1>8, LeastInt
<1>11. c \in C /\ \A n \in C : n <= c
  BY <1>6, <1>8, MostInt
<1>12. d \in D /\ \A n \in D : d <= n
  BY <1>6, <1>8, LeastInt
<1> HIDE DEF a, b, c, d
<1>13. a \in Int /\ b \in Int /\ c \in Int /\ d \in Int
  BY <1>6, <1>9, <1>10, <1>11, <1>12
<1>14. ASSUME NEW q \in Pairs, a <= q[1], q[1] <= b, c <= q[2], q[2] <= d, q \in Visible
       PROVE  FALSE
  <2>1. PICK r \in R : Covers(r, q)
    BY <1>5, <1>14
  <2>2. r \in Inside /\ ~ Covers(r, p)
    BY <1>1, <1>4
  <2>3. r.left <= q[1] /\ q[1] <= r.right /\ r.top <= q[2] /\ q[2] <= r.bottom
    BY <2>1, <2>2, CoversIs
  <2>4. r.left \in Int /\ r.right \in Int /\ r.top \in Int /\ r.bottom \in Int
        /\ q[1] \in Int /\ q[2] \in Int
    BY <2>2, InsideBox, PairIs
  <2>5. p[1] > r.right \/ p[1] < r.left \/ p[2] > r.bottom \/ p[2] < r.top
    BY <1>2, <1>8, <2>2, <2>4, CoversIs
  <2>6. CASE p[1] > r.right
    <3>1. r.right + 1 <= a
      BY <1>7, <1>9, <2>6
    <3>2. QED
      BY <1>13, <1>14, <2>3, <2>4, <3>1
  <2>7. CASE p[1] < r.left
    <3>1. b <= r.left - 1
      BY <1>7, <1>10, <2>7
    <3>2. QED
      BY <1>13, <1>14, <2>3, <2>4, <3>1
  <2>8. CASE p[2] > r.bottom
    <3>1. r.bottom + 1 <= c
      BY <1>7, <1>11, <2>8
    <3>2. QED
      BY <1>13, <1>14, <2>3, <2>4, <3>1
  <2>9. CASE p[2] < r.top
    <3>1. d <= r.top - 1
      BY <1>7, <1>12, <2>9
    <3>2. QED
      BY <1>13, <1>14, <2>3, <2>4, <3>1
  <2>10. QED
    BY <2>5, <2>6, <2>7, <2>8, <2>9
<1>15. Around(p) \in TrueCaches
  BY <1>3, <1>13, <1>14, InvisibleCache
<1>16. a <= p[1] /\ p[1] <= b /\ c <= p[2] /\ p[2] <= d
  BY <1>6, <1>9, <1>10, <1>11, <1>12
<1>17. Within(Cache(a, b, c, d, FALSE), p)
  BY <1>8, <1>13, <1>16 DEF Within, Cache
<1>18. QED
  BY <1>3, <1>15, <1>17

\* check_point_in_clip leaves a true cache that has the point.
LEMMA CheckPointIsTrue ==
  ASSUME region \in Seq(Inside), NEW c \in TrueCaches, NEW p \in Place
  PROVE  CheckPoint(c, p) \in TrueCaches /\ Within(CheckPoint(c, p), p)
<1> DEFINE hits == {i \in DOMAIN region : Covers(region[i], p)}
           e == CheckPoint(c, p)
<1>1. e = IF Within(c, p) THEN c
          ELSE IF p[1] < 0 THEN Cache(MinCoord, -1, MinCoord, MaxCoord, FALSE)
          ELSE IF p[2] < 0 THEN Cache(MinCoord, MaxCoord, MinCoord, -1, FALSE)
          ELSE IF p[1] >= Width THEN Cache(Width, MaxCoord, MinCoord, MaxCoord, FALSE)
          ELSE IF p[2] >= Height THEN Cache(MinCoord, MaxCoord, Height, MaxCoord, FALSE)
          ELSE IF region = <<>> THEN Cache(0, Width - 1, 0, Height - 1, TRUE)
          ELSE IF hits # {} THEN CacheOf(region[LeastOf(hits)])
          ELSE Around(p)
  BY DEF CheckPoint
<1> HIDE DEF e
<1>2. /\ p \in Pairs /\ p[1] \in Int /\ p[2] \in Int
      /\ MinCoord <= p[1] /\ p[1] <= MaxCoord /\ MinCoord <= p[2] /\ p[2] <= MaxCoord
  BY Sizes DEF Place, Coords, Pairs
<1>3. CASE Within(c, p)
  BY <1>1, <1>3 DEF e
<1>4. ASSUME ~ Within(c, p) PROVE region # <<>>
  <2>1. SUFFICES ASSUME region = <<>> PROVE Within(c, p)
    BY <1>4
  <2>2. c = NothingVisible
    BY <2>1 DEF TrueCaches
  <2>3. QED
    BY <1>2, <2>2, Sizes DEF NothingVisible, Cache, Within
<1>5. \A q \in Pairs : q \in Visible => q[1] \in 0..(Width - 1) /\ q[2] \in 0..(Height - 1)
  BY VisibleIs
<1>6. \A q \in Pairs : q \in Visible =>
        q[1] \in Int /\ q[2] \in Int /\ 0 <= q[1] /\ q[1] < Width /\ 0 <= q[2] /\ q[2] < Height
  BY <1>5, Sizes
<1>7. CASE ~ Within(c, p) /\ p[1] < 0
  <2>1. e = Cache(MinCoord, -1, MinCoord, MaxCoord, FALSE)
    BY <1>1, <1>7
  <2>2. e \in TrueCaches
    <3>1. \A q \in Pairs : MinCoord <= q[1] /\ q[1] <= -1 /\ MinCoord <= q[2] /\ q[2] <= MaxCoord
                          => q \notin Visible
      BY <1>6, Sizes
    <3>2. MinCoord \in Int /\ MaxCoord \in Int /\ Width \in Int /\ Height \in Int
      BY Sizes
    <3>3. region # <<>> /\ -1 \in Int
      BY <1>4, <1>7
    <3>4. QED
      BY ONLY <2>1, <3>1, <3>2, <3>3, InvisibleCache
  <2>3. Within(e, p)
    BY <1>2, <1>7, <2>1, Sizes DEF Within, Cache
  <2>4. QED
    BY <2>2, <2>3 DEF e
<1>8. CASE ~ Within(c, p) /\ ~ p[1] < 0 /\ p[2] < 0
  <2>1. e = Cache(MinCoord, MaxCoord, MinCoord, -1, FALSE)
    BY <1>1, <1>8
  <2>2. e \in TrueCaches
    <3>1. \A q \in Pairs : MinCoord <= q[1] /\ q[1] <= MaxCoord /\ MinCoord <= q[2] /\ q[2] <= -1
                          => q \notin Visible
      BY <1>6, Sizes
    <3>2. MinCoord \in Int /\ MaxCoord \in Int /\ Width \in Int /\ Height \in Int
      BY Sizes
    <3>3. region # <<>> /\ -1 \in Int
      BY <1>4, <1>8
    <3>4. QED
      BY ONLY <2>1, <3>1, <3>2, <3>3, InvisibleCache
  <2>3. Within(e, p)
    BY <1>2, <1>8, <2>1, Sizes DEF Within, Cache
  <2>4. QED
    BY <2>2, <2>3 DEF e
<1>9. CASE ~ Within(c, p) /\ ~ p[1] < 0 /\ ~ p[2] < 0 /\ p[1] >= Width
  <2>1. e = Cache(Width, MaxCoord, MinCoord, MaxCoord, FALSE)
    BY <1>1, <1>9
  <2>2. e \in TrueCaches
    <3>1. \A q \in Pairs : Width <= q[1] /\ q[1] <= MaxCoord /\ MinCoord <= q[2] /\ q[2] <= MaxCoord
                          => q \notin Visible
      BY <1>6, Sizes
    <3>2. MinCoord \in Int /\ MaxCoord \in Int /\ Width \in Int /\ Height \in Int
      BY Sizes
    <3>3. region # <<>> /\ -1 \in Int
      BY <1>4, <1>9
    <3>4. QED
      BY ONLY <2>1, <3>1, <3>2, <3>3, InvisibleCache
  <2>3. Within(e, p)
    BY <1>2, <1>9, <2>1, Sizes DEF Within, Cache
  <2>4. QED
    BY <2>2, <2>3 DEF e
<1>10. CASE ~ Within(c, p) /\ ~ p[1] < 0 /\ ~ p[2] < 0 /\ ~ p[1] >= Width /\ p[2] >= Height
  <2>1. e = Cache(MinCoord, MaxCoord, Height, MaxCoord, FALSE)
    BY <1>1, <1>10
  <2>2. e \in TrueCaches
    <3>1. \A q \in Pairs : MinCoord <= q[1] /\ q[1] <= MaxCoord /\ Height <= q[2] /\ q[2] <= MaxCoord
                          => q \notin Visible
      BY <1>6, Sizes
    <3>2. MinCoord \in Int /\ MaxCoord \in Int /\ Width \in Int /\ Height \in Int
      BY Sizes
    <3>3. region # <<>> /\ -1 \in Int
      BY <1>4, <1>10
    <3>4. QED
      BY ONLY <2>1, <3>1, <3>2, <3>3, InvisibleCache
  <2>3. Within(e, p)
    BY <1>2, <1>10, <2>1, Sizes DEF Within, Cache
  <2>4. QED
    BY <2>2, <2>3 DEF e
<1>11. CASE ~ Within(c, p) /\ ~ p[1] < 0 /\ ~ p[2] < 0 /\ ~ p[1] >= Width /\ ~ p[2] >= Height
  <2>1. region # <<>>
    BY <1>4, <1>11
  <2>2. CASE hits # {}
    <3> DEFINE i == LeastOf(hits)
    <3>1. hits \subseteq Nat /\ hits # {}
      BY <2>2
    <3>2. i \in hits
      <4> HIDE DEF hits
      <4>1. QED
        BY <3>1, LeastOfIs
    <3>3. i \in DOMAIN region /\ Covers(region[i], p)
      BY <3>2
    <3> HIDE DEF i
    <3>4. e = CacheOf(region[i])
      BY <1>1, <1>11, <2>1, <2>2 DEF i
    <3>5. QED
      BY <3>3, <3>4, VisibleCache DEF Covers, e
  <2>3. CASE hits = {}
    <3>1. e = Around(p)
      BY <1>1, <1>11, <2>1, <2>3
    <3>2. \A i \in DOMAIN region : ~ Covers(region[i], p)
      BY <2>3
    <3>3. QED
      BY <2>1, <3>1, <3>2, AroundIsTrue DEF e
  <2>4. QED
    BY <2>2, <2>3
<1>12. QED
  BY <1>3, <1>7, <1>8, <1>9, <1>10, <1>11

-----------------------------------------------------------------------------
(* Drawing: every painter keeps the cache true, and draws the visible ones of *)
(* its points.                                                              *)

Drawings == [cache : TrueCaches, drawn : SUBSET Pairs]

Paints(d, e, points) ==
  e \in Drawings /\ (FitsTheScreen => e.drawn = d.drawn \cup (points \cap Visible))

LEMMA PaintsNothing ==
  ASSUME NEW d \in Drawings
  PROVE  Paints(d, d, {})
  BY DEF Paints

LEMMA PaintsBoth ==
  ASSUME NEW d, NEW e, NEW f, NEW S, NEW T, Paints(d, e, S), Paints(e, f, T)
  PROVE  Paints(d, f, S \cup T)
  BY DEF Paints

\* What the cache has is drawn in one go.
LEMMA PaintChecked ==
  ASSUME NEW d \in Drawings, NEW c \in TrueCaches, NEW S, S \subseteq Pairs,
         \A p \in S : Within(c, p)
  PROVE  Paints(d, Paint(d, c, S), S)
<1>1. d.cache \in TrueCaches /\ d.drawn \subseteq Pairs
  BY DEF Drawings
<1>2. c.result \in BOOLEAN /\ \A p \in S : c.result <=> p \in Visible
  BY DEF TrueCaches, Caches
<1>3. CASE c.result
  <2>1. Paint(d, c, S) = [cache |-> c, drawn |-> d.drawn \cup S]
    BY <1>3 DEF Paint
  <2>2. S \cap Visible = S
    BY <1>2, <1>3
  <2>3. QED
    BY <1>1, <2>1, <2>2 DEF Paints, Drawings
<1>4. CASE ~ c.result
  <2>1. Paint(d, c, S) = [cache |-> c, drawn |-> d.drawn]
    BY <1>4 DEF Paint
  <2>2. S \cap Visible = {}
    BY <1>2, <1>4
  <2>3. QED
    BY <1>1, <2>1, <2>2 DEF Paints, Drawings
<1>5. QED
  BY <1>3, <1>4

LEMMA PlacesArePairs == Place \subseteq Pairs
  BY Sizes DEF Place, Coords, Pairs

LEMMA PaintPointIs ==
  ASSUME region \in Seq(Inside), NEW d \in Drawings, NEW p \in Place
  PROVE  Paints(d, PaintPoint(d, p), {p})
<1>1. d.cache \in TrueCaches
  BY DEF Drawings
<1>2. CheckPoint(d.cache, p) \in TrueCaches /\ Within(CheckPoint(d.cache, p), p)
  BY <1>1, CheckPointIsTrue
<1>3. {p} \subseteq Pairs
  BY PlacesArePairs
<1>4. QED
  BY <1>2, <1>3, PaintChecked DEF PaintPoint

\* check_area_in_clip looks the corner up, and draws nothing.
LEMMA CheckCornerIs ==
  ASSUME region \in Seq(Inside), NEW d \in Drawings, NEW p \in Place
  PROVE  Paints(d, CheckCorner(d, p), {}) /\ Within(CheckCorner(d, p).cache, p)
<1> DEFINE c == CheckPoint(d.cache, p)
<1>1. c \in TrueCaches /\ Within(c, p)
  BY CheckPointIsTrue DEF Drawings
<1>2. CheckCorner(d, p) = [d EXCEPT !.cache = c]
  BY DEF CheckCorner
<1> HIDE DEF c
<1>3. CheckCorner(d, p) \in Drawings /\ CheckCorner(d, p).cache = c
      /\ CheckCorner(d, p).drawn = d.drawn
  BY <1>1, <1>2 DEF Drawings
<1>4. QED
  BY <1>1, <1>3 DEF Paints

-----------------------------------------------------------------------------
(* Loops.                                                                   *)

\* A loop of n rounds has an outcome, and what is after[k] is in P[k] if each
\* round leads from the one to the other.
IsCourse(f, n, first, step) == f = [k \in 0..n |-> IF k = 0 THEN first ELSE step[k][f[k - 1]]]

LEMMA RoundsExist ==
  ASSUME NEW n \in Nat, NEW P, NEW first \in P[0], NEW step,
         \A k \in 1..n : \A a \in P[k - 1] : step[k][a] \in P[k]
  PROVE  \E f : IsCourse(f, n, first, step) /\ \A k \in 0..n : f[k] \in P[k]
<1> DEFINE Good(f, m) == /\ f = [k \in 0..m |-> IF k = 0 THEN first ELSE step[k][f[k - 1]]]
                         /\ \A k \in 0..m : f[k] \in P[k]
           S == {m \in 0..n : \E f : Good(f, m)}
<1>1. 0 \in S
  <2> DEFINE f == [k \in 0..0 |-> first]
  <2>1. f = [k \in 0..0 |-> IF k = 0 THEN first ELSE step[k][f[k - 1]]]
    OBVIOUS
  <2>2. \A k \in 0..0 : f[k] \in P[k]
    OBVIOUS
  <2>3. Good(f, 0)
    BY <2>1, <2>2
  <2> HIDE DEF f, Good
  <2>4. QED
    BY <2>3
<1>2. ASSUME NEW m \in 1..n, m - 1 \in S PROVE m \in S
  <2>1. PICK f : Good(f, m - 1)
    BY <1>2
  <2> DEFINE g == [k \in 0..m |-> IF k < m THEN f[k] ELSE step[m][f[m - 1]]]
  <2>2. /\ \A k \in 0..(m - 1) : f[k] = IF k = 0 THEN first ELSE step[k][f[k - 1]]
        /\ \A k \in 0..(m - 1) : f[k] \in P[k]
    BY <2>1
  <2>3. \A k \in 0..m : g[k] = IF k = 0 THEN first ELSE step[k][g[k - 1]]
    BY <2>2
  <2>4. step[m][f[m - 1]] \in P[m]
    BY <2>2
  <2>5. \A k \in 0..m : g[k] \in P[k]
    BY <2>2, <2>4
  <2>6. g = [k \in 0..m |-> g[k]]
    OBVIOUS
  <2> HIDE DEF g
  <2>7. Good(g, m)
    BY <2>3, <2>5, <2>6
  <2>8. QED
    BY <2>7
<1> HIDE DEF Good
<1>3. n \in S
  <2> HIDE DEF S
  <2>1. QED
    BY <1>1, <1>2, UpTo
<1>4. QED
  BY <1>3 DEF Good, IsCourse

\* The loops of drawrow and drawcol.
LEMMA PaintRunsIs ==
  ASSUME region \in Seq(Inside), NEW d \in Drawings, NEW lo \in Int, NEW hi \in Int,
         NEW at \in [lo..hi -> Place], NEW edge,
         \A c \in Caches : c[edge] \in Int,
         \A c \in Caches, i \in lo..hi :
           Within(c, at[i]) => i <= c[edge] /\ \A j \in i..hi : j <= c[edge] => Within(c, at[j])
  PROVE  Paints(d, PaintRuns(d, at, lo, hi, edge), {at[i] : i \in lo..hi})
<1> DEFINE n == Count(lo, hi)
           seen(m) == {at[j] : j \in lo..(m - 1)}
           P == [k \in 0..n |-> {r \in [next : Int, d : Drawings] :
                                   /\ lo + k <= r.next
                                   /\ r.next <= Greater(hi + 1, lo)
                                   /\ Paints(d, r.d, seen(r.next))}]
           first == [next |-> lo, d |-> d]
           visit(r, k) ==
             LET i == lo + k - 1
                 c == CheckPoint(r.d.cache, at[i])
                 end == Lesser(c[edge], hi)
             IN  IF i < r.next THEN r
                 ELSE [next |-> end + 1, d |-> Paint(r.d, c, {at[j] : j \in i..end})]
           Eq(f) == [k \in 0..n |-> IF k = 0 THEN first ELSE visit(f[k - 1], k)]
           h == CHOOSE f : f = Eq(f)
<1>1. n \in Nat /\ (lo <= hi => n = hi - lo + 1) /\ (hi < lo => n = 0)
  BY DEF Count, Greater
<1>2. PaintRuns(d, at, lo, hi, edge) = h[n].d
  BY DEF PaintRuns, Repeat
<1>3. first \in P[0]
  <2>1. seen(lo) = {}
    OBVIOUS
  <2>2. Paints(d, d, {})
    BY PaintsNothing
  <2>3. first \in [next : Int, d : Drawings] /\ first.next = lo /\ first.d = d
    OBVIOUS
  <2>4. 0 \in 0..n /\ lo + 0 <= lo /\ lo <= Greater(hi + 1, lo)
    BY <1>1 DEF Greater
  <2> HIDE DEF first, seen, n
  <2>5. QED
    BY <2>1, <2>2, <2>3, <2>4
<1>4. ASSUME NEW k \in 1..n, NEW r \in P[k - 1] PROVE visit(r, k) \in P[k]
  <2> DEFINE i == lo + k - 1
             c == CheckPoint(r.d.cache, at[i])
             end == Lesser(c[edge], hi)
             run == {at[j] : j \in i..end}
  <2>1. lo <= hi /\ i \in lo..hi /\ k \in 0..n /\ k - 1 \in 0..n
    BY <1>1
  <2>2. /\ r \in [next : Int, d : Drawings] /\ lo + (k - 1) <= r.next
        /\ r.next <= Greater(hi + 1, lo) /\ Paints(d, r.d, seen(r.next))
    BY <2>1
  <2>3. CASE i < r.next
    <3>1. visit(r, k) = r
      BY <2>3
    <3>2. lo + k <= r.next
      BY <2>1, <2>2, <2>3
    <3>3. QED
      BY <2>1, <2>2, <3>1, <3>2
  <2>4. CASE ~ i < r.next
    <3>1. r.next = i
      BY <2>1, <2>2, <2>4
    <3>2. at[i] \in Place /\ r.d \in Drawings /\ r.d.cache \in TrueCaches
      BY <2>1, <2>2 DEF Drawings
    <3>3. c \in TrueCaches /\ Within(c, at[i])
      BY <3>2, CheckPointIsTrue
    <3>4. c \in Caches
      BY <3>3 DEF TrueCaches
    <3>5. visit(r, k) = [next |-> end + 1, d |-> Paint(r.d, c, run)]
      BY <2>4
    <3> HIDE DEF c
    <3>6. c[edge] \in Int /\ i <= c[edge] /\ \A j \in i..hi : j <= c[edge] => Within(c, at[j])
      BY <2>1, <3>3, <3>4
    <3>7. end \in Int /\ i <= end /\ end <= hi /\ end <= c[edge]
      BY <2>1, <3>6 DEF Lesser
    <3> HIDE DEF end
    <3>8. run \subseteq Pairs /\ \A p \in run : Within(c, p)
      <4>1. \A j \in i..end : j \in i..hi /\ j \in lo..hi /\ j <= c[edge]
        BY <2>1, <3>6, <3>7
      <4>2. \A j \in i..end : at[j] \in Pairs /\ Within(c, at[j])
        BY <3>6, <4>1, PlacesArePairs
      <4>3. QED
        BY <4>2
    <3>9. Paints(r.d, Paint(r.d, c, run), run)
      BY <3>2, <3>3, <3>8, PaintChecked
    <3>10. Paints(d, Paint(r.d, c, run), seen(r.next) \cup run)
      BY <2>2, <3>9, PaintsBoth
    <3>11. seen(r.next) \cup run = seen(end + 1)
      <4>1. \A j : j \in lo..end <=> j \in lo..(i - 1) \/ j \in i..end
        BY <2>1, <3>7
      <4>2. (end + 1) - 1 = end
        BY <3>7
      <4>3. QED
        BY <3>1, <4>1, <4>2
    <3> DEFINE e == Paint(r.d, c, run)
    <3>12. Paints(d, e, seen(end + 1)) /\ e \in Drawings
      BY <3>10, <3>11 DEF Paints
    <3>13. visit(r, k) = [next |-> end + 1, d |-> e]
      BY <3>5
    <3> HIDE DEF e, visit, seen
    <3>14. lo + k <= end + 1 /\ end + 1 <= Greater(hi + 1, lo) /\ end + 1 \in Int
      BY <2>1, <3>7 DEF Greater
    <3>15. QED
      BY <2>1, <3>12, <3>13, <3>14
  <2>5. QED
    BY <2>3, <2>4
<1> HIDE DEF n, visit, P, first
<1>5. \E f : f = Eq(f)
  <2> DEFINE step == [k \in 1..n |-> [a \in P[k - 1] |-> visit(a, k)]]
  <2>1. \A k \in 1..n : \A a \in P[k - 1] : step[k][a] = visit(a, k) /\ step[k][a] \in P[k]
    BY <1>4
  <2> HIDE DEF step
  <2>2. PICK f : IsCourse(f, n, first, step) /\ \A k \in 0..n : f[k] \in P[k]
    <3>1. \A k \in 1..n : \A a \in P[k - 1] : step[k][a] \in P[k]
      BY <2>1
    <3>2. QED
      BY ONLY <1>1, <1>3, <3>1, RoundsExist
  <2>3. \A k \in 1..n : k - 1 \in 0..n
    BY <1>1
  <2>4. \A k \in 1..n : step[k][f[k - 1]] = visit(f[k - 1], k)
    BY <2>1, <2>2, <2>3
  <2>5. \A k \in 0..n : k # 0 => k \in 1..n
    BY <1>1
  <2>6. f = Eq(f)
    BY <2>2, <2>4, <2>5 DEF IsCourse
  <2>7. QED
    BY <2>6
<1>6. h = Eq(h)
  BY <1>5
<1> HIDE DEF h
<1>7. h[0] \in P[0] /\ \A k \in 1..n : h[k - 1] \in P[k - 1] => h[k] \in P[k]
  BY <1>1, <1>3, <1>4, <1>6
<1>8. h[n] \in P[n]
  <2> DEFINE S == {k \in 0..n : h[k] \in P[k]}
  <2>1. 0 \in S /\ \A k \in 1..n : k - 1 \in S => k \in S
    BY <1>1, <1>7
  <2> HIDE DEF S
  <2>2. n \in S
    BY <1>1, <2>1, UpTo
  <2>3. QED
    BY <2>2 DEF S
<1>9. /\ h[n].next \in Int /\ lo + n <= h[n].next /\ h[n].next <= Greater(hi + 1, lo)
      /\ Paints(d, h[n].d, seen(h[n].next))
  <2> HIDE DEF seen
  <2>1. n \in 0..n
    BY <1>1
  <2>2. QED
    BY <1>8, <2>1 DEF P
<1>10. \A j : j \in lo..(h[n].next - 1) <=> j \in lo..hi
  BY <1>1, <1>9 DEF Greater
<1>11. seen(h[n].next) = {at[i] : i \in lo..hi}
  BY <1>10
<1>12. QED
  BY <1>2, <1>9, <1>11

-----------------------------------------------------------------------------
(* Rows, columns, frames and boxes.                                         *)

Between(a, b) == Lesser(a, b) .. Greater(a, b)

LEMMA PaintsSame ==
  ASSUME NEW d, NEW e, NEW S, NEW T, Paints(d, e, S),
         FitsTheScreen => S \cap Visible = T \cap Visible
  PROVE  Paints(d, e, T)
  BY DEF Paints

LEMMA BetweenCoords ==
  ASSUME NEW a \in Coords, NEW b \in Coords
  PROVE  /\ Lesser(a, b) \in Coords /\ Greater(a, b) \in Coords
         /\ Lesser(a, b) <= Greater(a, b)
         /\ Between(a, b) \subseteq Coords
         /\ a \in Between(a, b) /\ b \in Between(a, b)
  BY Sizes DEF Coords, Between, Lesser, Greater

LEMMA PaintRowIs ==
  ASSUME region \in Seq(Inside), NEW d \in Drawings,
         NEW x1 \in Coords, NEW x2 \in Coords, NEW y \in Coords
  PROVE  Paints(d, PaintRow(d, x1, x2, y), Between(x1, x2) \X {y})
<1> DEFINE l == Lesser(x1, x2)
           g == Greater(x1, x2)
           lo == Greater(l, 0)
           hi == Lesser(g, ScreenWidth - 1)
           at == [x \in lo..hi |-> <<x, y>>]
<1>1. PaintRow(d, x1, x2, y) = PaintRuns(d, at, lo, hi, "maxx")
  BY DEF PaintRow
<1>2. l \in Int /\ g \in Int /\ MinCoord <= l /\ g <= MaxCoord /\ y \in Coords
  BY BetweenCoords, Sizes DEF Coords
<1> HIDE DEF l, g
<1>3. /\ lo \in Int /\ hi \in Int /\ 0 <= lo /\ l <= lo /\ hi <= g /\ hi <= ScreenWidth - 1
      /\ \A x \in Int : x \in lo..hi <=> l <= x /\ x <= g /\ 0 <= x /\ x <= ScreenWidth - 1
  BY <1>2, ClipAssumption DEF Lesser, Greater
<1> HIDE DEF lo, hi
<1>4. \A x \in lo..hi : x \in Int /\ <<x, y>> \in Place
  BY <1>2, <1>3, Sizes DEF Place, Coords
<1>5. at \in [lo..hi -> Place] /\ \A i \in lo..hi : at[i] = <<i, y>>
  BY <1>4
<1>6. {at[i] : i \in lo..hi} = (lo..hi) \X {y}
  BY <1>5
<1> HIDE DEF at
<1>7. \A c \in Caches : c["maxx"] = c.maxx /\ c.maxx \in Int
  BY DEF Caches
<1>8. ASSUME NEW c \in Caches, NEW i \in lo..hi, Within(c, at[i])
      PROVE  i <= c.maxx /\ \A j \in i..hi : j <= c.maxx => Within(c, at[j])
  <2>1. i \in Int /\ y \in Int
    BY <1>4, Sizes DEF Coords
  <2>2. c.minx <= i /\ i <= c.maxx /\ c.miny <= y /\ y <= c.maxy
    BY <1>5, <1>8, <2>1 DEF Within, Caches
  <2>3. \A j \in i..hi : j \in lo..hi /\ j \in Int /\ i <= j
    BY <1>3
  <2>4. c.minx \in Int /\ c.maxx \in Int /\ c.miny \in Int /\ c.maxy \in Int
    BY DEF Caches
  <2>5. \A j \in i..hi : j <= c.maxx => j \in c.minx .. c.maxx /\ y \in c.miny .. c.maxy
    BY <2>1, <2>2, <2>3, <2>4
  <2>6. QED
    BY <1>5, <2>2, <2>3, <2>5 DEF Within
<1>9. Paints(d, PaintRow(d, x1, x2, y), (lo..hi) \X {y})
  <2>1. \A c \in Caches : c["maxx"] \in Int
    BY <1>7
  <2>2. \A c \in Caches, i \in lo..hi :
          Within(c, at[i]) => i <= c["maxx"] /\ \A j \in i..hi : j <= c["maxx"] => Within(c, at[j])
    BY <1>8
  <2>3. Paints(d, PaintRuns(d, at, lo, hi, "maxx"), {at[i] : i \in lo..hi})
    BY <1>3, <1>5, <2>1, <2>2, PaintRunsIs
  <2>4. QED
    BY <1>1, <1>6, <2>3
<1>10. ASSUME FitsTheScreen
       PROVE  ((lo..hi) \X {y}) \cap Visible = (Between(x1, x2) \X {y}) \cap Visible
  <2>1. ASSUME NEW x \in Int, <<x, y>> \in Visible
        PROVE  x \in lo..hi <=> x \in Between(x1, x2)
    <3>1. <<x, y>> \in Pairs
      BY Sizes DEF Pairs, Coords
    <3>2. x \in 0..(Width - 1)
      BY <2>1, <3>1, VisibleIs
    <3>3. 0 <= x /\ x <= ScreenWidth - 1
      BY <1>10, <3>2, Sizes, ClipAssumption DEF FitsTheScreen
    <3>4. QED
      BY <1>2, <1>3, <3>3 DEF Between, l, g
  <2>2. lo..hi \subseteq Int /\ Between(x1, x2) \subseteq Int
    BY <1>2, <1>3 DEF Between, l, g
  <2>3. QED
    BY <2>1, <2>2
<1>11. QED
  BY <1>9, <1>10, PaintsSame

LEMMA PaintColumnIs ==
  ASSUME region \in Seq(Inside), NEW d \in Drawings,
         NEW x \in Coords, NEW y1 \in Coords, NEW y2 \in Coords
  PROVE  Paints(d, PaintColumn(d, x, y1, y2), {x} \X Between(y1, y2))
<1> DEFINE l == Lesser(y1, y2)
           g == Greater(y1, y2)
           lo == Greater(l, 0)
           hi == Lesser(g, ScreenHeight - 1)
           at == [y \in lo..hi |-> <<x, y>>]
<1>1. PaintColumn(d, x, y1, y2) = PaintRuns(d, at, lo, hi, "maxy")
  BY DEF PaintColumn
<1>2. l \in Int /\ g \in Int /\ MinCoord <= l /\ g <= MaxCoord /\ x \in Coords
  BY BetweenCoords, Sizes DEF Coords
<1> HIDE DEF l, g
<1>3. /\ lo \in Int /\ hi \in Int /\ 0 <= lo /\ l <= lo /\ hi <= g /\ hi <= ScreenHeight - 1
      /\ \A y \in Int : y \in lo..hi <=> l <= y /\ y <= g /\ 0 <= y /\ y <= ScreenHeight - 1
  BY <1>2, ClipAssumption DEF Lesser, Greater
<1> HIDE DEF lo, hi
<1>4. \A y \in lo..hi : y \in Int /\ <<x, y>> \in Place
  BY <1>2, <1>3, Sizes DEF Place, Coords
<1>5. at \in [lo..hi -> Place] /\ \A i \in lo..hi : at[i] = <<x, i>>
  BY <1>4
<1>6. {at[i] : i \in lo..hi} = {x} \X (lo..hi)
  BY <1>5
<1> HIDE DEF at
<1>7. \A c \in Caches : c["maxy"] = c.maxy /\ c.maxy \in Int
  BY DEF Caches
<1>8. ASSUME NEW c \in Caches, NEW i \in lo..hi, Within(c, at[i])
      PROVE  i <= c.maxy /\ \A j \in i..hi : j <= c.maxy => Within(c, at[j])
  <2>1. i \in Int /\ x \in Int
    BY <1>4, Sizes DEF Coords
  <2>2. c.minx <= x /\ x <= c.maxx /\ c.miny <= i /\ i <= c.maxy
    BY <1>5, <1>8, <2>1 DEF Within, Caches
  <2>3. \A j \in i..hi : j \in lo..hi /\ j \in Int /\ i <= j
    BY <1>3
  <2>4. c.minx \in Int /\ c.maxx \in Int /\ c.miny \in Int /\ c.maxy \in Int
    BY DEF Caches
  <2>5. \A j \in i..hi : j <= c.maxy => x \in c.minx .. c.maxx /\ j \in c.miny .. c.maxy
    BY <2>1, <2>2, <2>3, <2>4
  <2>6. QED
    BY <1>5, <2>2, <2>3, <2>5 DEF Within
<1>9. Paints(d, PaintColumn(d, x, y1, y2), {x} \X (lo..hi))
  <2>1. \A c \in Caches : c["maxy"] \in Int
    BY <1>7
  <2>2. \A c \in Caches, i \in lo..hi :
          Within(c, at[i]) => i <= c["maxy"] /\ \A j \in i..hi : j <= c["maxy"] => Within(c, at[j])
    BY <1>8
  <2>3. Paints(d, PaintRuns(d, at, lo, hi, "maxy"), {at[i] : i \in lo..hi})
    BY <1>3, <1>5, <2>1, <2>2, PaintRunsIs
  <2>4. QED
    BY <1>1, <1>6, <2>3
<1>10. ASSUME FitsTheScreen
       PROVE  ({x} \X (lo..hi)) \cap Visible = ({x} \X Between(y1, y2)) \cap Visible
  <2>1. ASSUME NEW y \in Int, <<x, y>> \in Visible
        PROVE  y \in lo..hi <=> y \in Between(y1, y2)
    <3>1. <<x, y>> \in Pairs
      BY Sizes DEF Pairs, Coords
    <3>2. y \in 0..(Height - 1)
      BY <2>1, <3>1, VisibleIs
    <3>3. 0 <= y /\ y <= ScreenHeight - 1
      BY <1>10, <3>2, Sizes, ClipAssumption DEF FitsTheScreen
    <3>4. QED
      BY <1>2, <1>3, <3>3 DEF Between, l, g
  <2>2. lo..hi \subseteq Int /\ Between(y1, y2) \subseteq Int
    BY <1>2, <1>3 DEF Between, l, g
  <2>3. QED
    BY <2>1, <2>2
<1>11. QED
  BY <1>9, <1>10, PaintsSame

\* The points of a rectangle with inclusive edges, and of its frame.
BoxOf(r) == (r.left .. r.right) \X (r.top .. r.bottom)

FrameOf(r) == {p \in BoxOf(r) : p[1] \in {r.left, r.right} \/ p[2] \in {r.top, r.bottom}}

LEMMA AreaIs ==
  ASSUME NEW r \in Area
  PROVE  /\ r.left \in Coords /\ r.right \in Coords /\ r.top \in Coords /\ r.bottom \in Coords
         /\ r.left \in Int /\ r.right \in Int /\ r.top \in Int /\ r.bottom \in Int
         /\ r.left <= r.right /\ r.top <= r.bottom
         /\ Between(r.left, r.right) = r.left .. r.right
  BY Sizes DEF Area, Coords, Between, Lesser, Greater

LEMMA PaintFrameIs ==
  ASSUME region \in Seq(Inside), NEW d \in Drawings, NEW r \in Area
  PROVE  Paints(d, PaintFrame(d, r), FrameOf(r))
<1> DEFINE top == PaintRow(d, r.left, r.right, r.top)
           bottom == IF r.bottom > r.top THEN PaintRow(top, r.left, r.right, r.bottom) ELSE top
           left == PaintColumn(bottom, r.left, r.top + 1, r.bottom - 1)
           right == IF r.right > r.left
                    THEN PaintColumn(left, r.right, r.top + 1, r.bottom - 1) ELSE left
           row(y) == (r.left .. r.right) \X {y}
           column(x) == {x} \X ((r.top + 1) .. (r.bottom - 1))
<1>1. PaintFrame(d, r) = IF r.bottom - r.top < 2 THEN bottom ELSE right
  BY DEF PaintFrame
<1>2. /\ r.left \in Coords /\ r.right \in Coords /\ r.top \in Coords /\ r.bottom \in Coords
      /\ r.left \in Int /\ r.right \in Int /\ r.top \in Int /\ r.bottom \in Int
      /\ r.left <= r.right /\ r.top <= r.bottom
      /\ Between(r.left, r.right) = r.left .. r.right
  BY AreaIs
<1>3. Paints(d, top, row(r.top)) /\ top \in Drawings
  <2>1. Paints(d, top, Between(r.left, r.right) \X {r.top})
    BY <1>2, PaintRowIs
  <2> HIDE DEF top
  <2>2. Paints(d, top, row(r.top))
    BY <1>2, <2>1
  <2>3. QED
    BY <2>2 DEF Paints
<1> HIDE DEF top
<1>4. Paints(d, bottom, row(r.top) \cup row(r.bottom)) /\ bottom \in Drawings
  <2>1. CASE r.bottom > r.top
    <3> DEFINE b == PaintRow(top, r.left, r.right, r.bottom)
    <3>1. Paints(top, b, row(r.bottom))
      BY <1>2, <1>3, PaintRowIs
    <3>2. bottom = b
      BY <2>1
    <3> HIDE DEF b, bottom
    <3>3. Paints(d, b, row(r.top) \cup row(r.bottom))
      BY <1>3, <3>1, PaintsBoth
    <3>4. QED
      BY <3>2, <3>3 DEF Paints
  <2>2. CASE ~ r.bottom > r.top
    <3>1. bottom = top /\ r.bottom = r.top
      BY <1>2, <2>2
    <3> HIDE DEF bottom
    <3>2. QED
      BY <1>3, <3>1
  <2>3. QED
    BY <2>1, <2>2
<1> HIDE DEF bottom
<1>5. CASE r.bottom - r.top < 2
  <2>1. row(r.top) \cup row(r.bottom) = FrameOf(r)
    <3>1. \A y \in r.top .. r.bottom : y = r.top \/ y = r.bottom
      BY <1>2, <1>5
    <3>2. r.top \in r.top .. r.bottom /\ r.bottom \in r.top .. r.bottom
      BY <1>2
    <3>3. QED
      BY <3>1, <3>2 DEF FrameOf, BoxOf
  <2>2. QED
    BY <1>1, <1>4, <1>5, <2>1
<1>6. CASE ~ r.bottom - r.top < 2
  <2>1. /\ r.top + 1 \in Coords /\ r.bottom - 1 \in Coords
        /\ Between(r.top + 1, r.bottom - 1) = (r.top + 1) .. (r.bottom - 1)
    BY <1>2, <1>6, Sizes DEF Coords, Between, Lesser, Greater
  <2>2. Paints(bottom, left, column(r.left)) /\ left \in Drawings
    <3>1. Paints(bottom, left, {r.left} \X Between(r.top + 1, r.bottom - 1))
      BY <1>2, <1>4, <2>1, PaintColumnIs
    <3> HIDE DEF left
    <3>2. Paints(bottom, left, column(r.left))
      BY <2>1, <3>1
    <3>3. QED
      BY <3>2 DEF Paints
  <2> HIDE DEF left
  <2>3. Paints(bottom, right, column(r.left) \cup column(r.right))
    <3>1. CASE r.right > r.left
      <4> DEFINE b == PaintColumn(left, r.right, r.top + 1, r.bottom - 1)
      <4>1. Paints(left, b, column(r.right))
        BY <1>2, <2>1, <2>2, PaintColumnIs
      <4>2. right = b
        BY <3>1
      <4> HIDE DEF b, right
      <4>3. QED
        BY <2>2, <4>1, <4>2, PaintsBoth
    <3>2. CASE ~ r.right > r.left
      <4>1. right = left /\ r.right = r.left
        BY <1>2, <3>2
      <4> HIDE DEF right
      <4>2. QED
        BY <2>2, <4>1
    <3>3. QED
      BY <3>1, <3>2
  <2>4. PaintFrame(d, r) = right
    BY <1>1, <1>6
  <2> HIDE DEF right
  <2>5. Paints(d, right, (row(r.top) \cup row(r.bottom)) \cup (column(r.left) \cup column(r.right)))
    BY <1>4, <2>3, PaintsBoth
  <2>6. (row(r.top) \cup row(r.bottom)) \cup (column(r.left) \cup column(r.right)) = FrameOf(r)
    <3>1. \A y : y \in r.top .. r.bottom <=>
                   y = r.top \/ y = r.bottom \/ y \in (r.top + 1) .. (r.bottom - 1)
      BY <1>2, <1>6
    <3>2. r.left \in r.left .. r.right /\ r.right \in r.left .. r.right
      BY <1>2
    <3>3. QED
      BY <3>1, <3>2 DEF FrameOf, BoxOf
  <2>7. QED
    BY <2>4, <2>5, <2>6
<1>7. QED
  BY <1>5, <1>6

\* What lies between two corners that the cache has, the cache has too.
LEMMA WithinCorners ==
  ASSUME NEW c \in Caches, NEW p \in Pairs, NEW q \in Pairs, Within(c, p), Within(c, q),
         NEW z \in Between(p[1], q[1]) \X Between(p[2], q[2])
  PROVE  z \in Pairs /\ Within(c, z)
<1>1. p[1] \in Int /\ p[2] \in Int /\ q[1] \in Int /\ q[2] \in Int
  BY PairIs
<1>2. /\ Lesser(p[1], q[1]) \in Int /\ Greater(p[1], q[1]) \in Int
      /\ Lesser(p[2], q[2]) \in Int /\ Greater(p[2], q[2]) \in Int
  BY <1>1 DEF Lesser, Greater
<1>3. z \in Pairs /\ z[1] \in Between(p[1], q[1]) /\ z[2] \in Between(p[2], q[2])
  BY <1>2 DEF Between, Pairs
<1>4. z[1] \in Int /\ z[2] \in Int
  BY <1>3, PairIs
<1>5. /\ c.minx <= p[1] /\ p[1] <= c.maxx /\ c.miny <= p[2] /\ p[2] <= c.maxy
      /\ c.minx <= q[1] /\ q[1] <= c.maxx /\ c.miny <= q[2] /\ q[2] <= c.maxy
  BY WithinIs
<1>6. c.minx \in Int /\ c.maxx \in Int /\ c.miny \in Int /\ c.maxy \in Int
  BY DEF Caches
<1>7. c.minx <= z[1] /\ z[1] <= c.maxx
  BY <1>1, <1>3, <1>4, <1>5, <1>6 DEF Between, Lesser, Greater
<1>8. c.miny <= z[2] /\ z[2] <= c.maxy
  BY <1>1, <1>3, <1>4, <1>5, <1>6 DEF Between, Lesser, Greater
<1>9. QED
  BY <1>3, <1>7, <1>8, WithinIs

LEMMA TrueCachesAreCaches == TrueCaches \subseteq Caches
  BY DEF TrueCaches

LEMMA PaintBoxIs ==
  ASSUME region \in Seq(Inside), NEW d \in Drawings, NEW r \in Area
  PROVE  Paints(d, PaintBox(d, r), BoxOf(r))
<1> DEFINE p == <<r.left, r.top>>
           q == <<r.right, r.bottom>>
           e == CheckCorner(d, p)
           n == Count(r.top, r.bottom)
           row(f, k) == PaintRow(f, r.left, r.right, r.top + k - 1)
           Eq(f) == [k \in 0..n |-> IF k = 0 THEN e ELSE row(f[k - 1], k)]
           h == CHOOSE f : f = Eq(f)
           rows(k) == (r.left .. r.right) \X (r.top .. (r.top + k - 1))
           P == [k \in 0..n |-> {f \in Drawings : Paints(d, f, rows(k))}]
<1>1. /\ r.left \in Coords /\ r.right \in Coords /\ r.top \in Coords /\ r.bottom \in Coords
      /\ r.left \in Int /\ r.right \in Int /\ r.top \in Int /\ r.bottom \in Int
      /\ r.left <= r.right /\ r.top <= r.bottom
      /\ Between(r.left, r.right) = r.left .. r.right
  BY AreaIs
<1>2. p \in Place /\ p \in Pairs /\ q \in Pairs
  BY <1>1 DEF Place, Pairs
<1>3. Paints(d, e, {}) /\ Within(e.cache, p) /\ e \in Drawings /\ e.cache \in TrueCaches
  <2>1. Paints(d, e, {}) /\ Within(e.cache, p)
    BY <1>2, CheckCornerIs
  <2> HIDE DEF e
  <2>2. QED
    BY <2>1 DEF Paints, Drawings
<1>4. PaintBox(d, r) = IF Within(e.cache, q) THEN Paint(e, e.cache, BoxOf(r)) ELSE h[n]
  BY DEF PaintBox, Repeat, BoxOf
<1> HIDE DEF e
<1>5. CASE Within(e.cache, q)
  <2>1. \A z \in BoxOf(r) : z \in Between(p[1], q[1]) \X Between(p[2], q[2])
    BY <1>1 DEF BoxOf, Between, Lesser, Greater
  <2> HIDE DEF p, q
  <2>2. \A z \in BoxOf(r) : z \in Pairs /\ Within(e.cache, z)
    BY <1>2, <1>3, <1>5, <2>1, WithinCorners, TrueCachesAreCaches
  <2>3. Paints(e, Paint(e, e.cache, BoxOf(r)), BoxOf(r))
    BY <1>3, <2>2, PaintChecked
  <2>4. Paints(d, Paint(e, e.cache, BoxOf(r)), {} \cup BoxOf(r))
    BY <1>3, <2>3, PaintsBoth
  <2>5. QED
    BY <1>4, <1>5, <2>4
<1>6. n \in Nat /\ n = r.bottom - r.top + 1
  BY <1>1 DEF Count, Greater
<1>7. e \in P[0]
  <2>1. rows(0) = {} /\ 0 \in 0..n
    BY <1>1, <1>6
  <2>2. Paints(d, e, rows(0))
    BY <1>3, <2>1
  <2> HIDE DEF rows, n
  <2>3. QED
    BY <1>3, <2>1, <2>2
<1>8. ASSUME NEW k \in 1..n, NEW f \in P[k - 1] PROVE row(f, k) \in P[k]
  <2>1. k \in 0..n /\ k - 1 \in 0..n /\ r.top + k - 1 \in Coords
    BY <1>1, <1>6, Sizes DEF Coords
  <2>2. f \in Drawings /\ Paints(d, f, rows(k - 1))
    BY <2>1
  <2> DEFINE y == r.top + k - 1
             g == row(f, k)
  <2>3. Paints(f, g, (r.left .. r.right) \X {y})
    <3>1. Paints(f, g, Between(r.left, r.right) \X {y})
      BY <1>1, <2>1, <2>2, PaintRowIs
    <3> HIDE DEF g, y
    <3>2. QED
      BY <1>1, <3>1
  <2>4. rows(k - 1) \cup ((r.left .. r.right) \X {y}) = rows(k)
    <3>1. \A z : z \in r.top .. (r.top + k - 1) <=> z \in r.top .. (r.top + (k - 1) - 1) \/ z = y
      BY <1>1, <1>6
    <3>2. QED
      BY <3>1
  <2> HIDE DEF g, rows, y
  <2>5. Paints(d, g, rows(k)) /\ g \in Drawings
    BY <2>2, <2>3, <2>4, PaintsBoth DEF Paints
  <2>6. g \in P[k]
    BY <2>1, <2>5
  <2>7. QED
    BY <2>6 DEF g
<1> HIDE DEF n, row, P
<1>9. \E f : f = Eq(f)
  <2> DEFINE step == [k \in 1..n |-> [a \in P[k - 1] |-> row(a, k)]]
  <2>1. \A k \in 1..n : \A a \in P[k - 1] : step[k][a] = row(a, k) /\ step[k][a] \in P[k]
    BY <1>8
  <2> HIDE DEF step
  <2>2. PICK f : IsCourse(f, n, e, step) /\ \A k \in 0..n : f[k] \in P[k]
    <3>1. \A k \in 1..n : \A a \in P[k - 1] : step[k][a] \in P[k]
      BY <2>1
    <3>2. QED
      BY ONLY <1>6, <1>7, <3>1, RoundsExist
  <2>3. \A k \in 1..n : k - 1 \in 0..n
    BY <1>6
  <2>4. \A k \in 1..n : step[k][f[k - 1]] = row(f[k - 1], k)
    BY <2>1, <2>2, <2>3
  <2>5. \A k \in 0..n : k # 0 => k \in 1..n
    BY <1>6
  <2>6. f = Eq(f)
    BY <2>2, <2>4, <2>5 DEF IsCourse
  <2>7. QED
    BY <2>6
<1>10. h = Eq(h)
  BY <1>9
<1> HIDE DEF h
<1>11. h[0] \in P[0] /\ \A k \in 1..n : h[k - 1] \in P[k - 1] => h[k] \in P[k]
  BY <1>6, <1>7, <1>8, <1>10
<1>12. h[n] \in P[n]
  <2> DEFINE S == {k \in 0..n : h[k] \in P[k]}
  <2>1. 0 \in S /\ \A k \in 1..n : k - 1 \in S => k \in S
    BY <1>6, <1>11
  <2> HIDE DEF S
  <2>2. n \in S
    BY <1>6, <2>1, UpTo
  <2>3. QED
    BY <2>2 DEF S
<1>13. Paints(d, h[n], rows(n))
  <2> HIDE DEF rows
  <2>1. n \in 0..n
    BY <1>6
  <2>2. QED
    BY <1>12, <2>1 DEF P
<1>14. rows(n) = BoxOf(r)
  <2>1. r.top + n - 1 = r.bottom
    BY <1>1, <1>6
  <2>2. QED
    BY <2>1 DEF BoxOf
<1>15. CASE ~ Within(e.cache, q)
  BY <1>4, <1>13, <1>14, <1>15
<1>16. QED
  BY <1>5, <1>15

-----------------------------------------------------------------------------
(* Lines.                                                                   *)

\* k steps from a towards b do not go beyond b.
LEMMA StepsTowards ==
  ASSUME NEW a \in Int, NEW b \in Int
  PROVE  /\ Abs(b - a) \in Nat
         /\ \A k \in 0..Abs(b - a) : a + Sign(b - a) * k \in Between(a, b)
         /\ \A x \in Between(a, b) : \E k \in 0..Abs(b - a) : x = a + Sign(b - a) * k
<1>1. Abs(b - a) \in Nat
  BY DEF Abs
<1>2. CASE b - a < 0
  <2>1. Abs(b - a) = a - b /\ Sign(b - a) = -1 /\ Between(a, b) = b..a
    BY <1>2 DEF Abs, Sign, Between, Lesser, Greater
  <2>2. \A k \in 0..(a - b) : a + (-1) * k \in b..a
    BY <1>2
  <2>3. \A x \in b..a : a - x \in 0..(a - b) /\ x = a + (-1) * (a - x)
    BY <1>2
  <2>4. QED
    BY <1>1, <2>1, <2>2, <2>3
<1>3. CASE ~ b - a < 0
  <2>1. Abs(b - a) = b - a /\ Sign(b - a) = 1 /\ Between(a, b) = a..b
    BY <1>3 DEF Abs, Sign, Between, Lesser, Greater
  <2>2. \A k \in 0..(b - a) : a + 1 * k \in a..b
    BY <1>3
  <2>3. \A x \in a..b : x - a \in 0..(b - a) /\ x = a + 1 * (x - a)
    BY <1>3
  <2>4. QED
    BY <1>1, <2>1, <2>2, <2>3
<1>4. QED
  BY <1>2, <1>3

\* The sides of what a line between two points spans.
LEMMA LineSides ==
  ASSUME NEW from \in Pairs, NEW to \in Pairs, from # to
  PROVE  LET a == Abs(to[1] - from[1])
             b == Abs(to[2] - from[2])
             long == LongSide(from, to)
             short == ShortSide(from, to)
         IN  /\ a \in Nat /\ b \in Nat /\ long \in Nat /\ long > 0
             /\ short \in Nat /\ short <= long
             /\ a >= b => long = a /\ short = b
             /\ ~ a >= b => long = b /\ short = a
<1>1. from[1] \in Int /\ from[2] \in Int /\ to[1] \in Int /\ to[2] \in Int
      /\ from = <<from[1], from[2]>> /\ to = <<to[1], to[2]>>
  BY PairIs
<1>2. to[1] - from[1] # 0 \/ to[2] - from[2] # 0
  BY <1>1
<1>3. QED
  BY <1>1, <1>2 DEF LongSide, ShortSide, Greater, Lesser, Abs

\* The points of a line lie between its ends.
LEMMA LineBetweenEnds ==
  ASSUME NEW from \in Pairs, NEW to \in Pairs, from # to,
         NEW gone \in [0..LongSide(from, to) -> 0..ShortSide(from, to)]
  PROVE  LET line == LinePoints(from, to, gone)
         IN  /\ line = [i \in 1..(LongSide(from, to) + 1) |-> line[i]]
             /\ \A i \in 1..(LongSide(from, to) + 1) :
                  line[i] \in Between(from[1], to[1]) \X Between(from[2], to[2])
<1> DEFINE dx == to[1] - from[1]
           dy == to[2] - from[2]
           long == LongSide(from, to)
           short == ShortSide(from, to)
           at(k) == IF Abs(dx) >= Abs(dy)
                    THEN <<from[1] + Sign(dx) * k, from[2] + Sign(dy) * gone[k]>>
                    ELSE <<from[1] + Sign(dx) * gone[k], from[2] + Sign(dy) * k>>
           line == LinePoints(from, to, gone)
<1>1. line = [i \in 1..(long + 1) |-> at(i - 1)]
  BY DEF LinePoints
<1>2. from[1] \in Int /\ from[2] \in Int /\ to[1] \in Int /\ to[2] \in Int
  BY PairIs
<1>3. /\ Abs(dx) \in Nat /\ Abs(dy) \in Nat /\ long \in Nat /\ short \in Nat
      /\ Abs(dx) >= Abs(dy) => long = Abs(dx) /\ short = Abs(dy)
      /\ ~ Abs(dx) >= Abs(dy) => long = Abs(dy) /\ short = Abs(dx)
  BY LineSides
<1>4. \A k \in 0..long : gone[k] \in 0..short
  OBVIOUS
<1>5. /\ \A k \in 0..Abs(dx) : from[1] + Sign(dx) * k \in Between(from[1], to[1])
      /\ \A k \in 0..Abs(dy) : from[2] + Sign(dy) * k \in Between(from[2], to[2])
  BY <1>2, StepsTowards
<1>6. \A k \in 0..long : at(k) \in Between(from[1], to[1]) \X Between(from[2], to[2])
  <2> HIDE DEF dx, dy, long, short
  <2>1. CASE Abs(dx) >= Abs(dy)
    BY <1>3, <1>4, <1>5, <2>1
  <2>2. CASE ~ Abs(dx) >= Abs(dy)
    BY <1>3, <1>4, <1>5, <2>2
  <2>3. QED
    BY <2>1, <2>2
<1>7. \A i \in 1..(long + 1) : i - 1 \in 0..long
  BY <1>3
<1> HIDE DEF at, long, line
<1>8. \A i \in 1..(long + 1) : line[i] = at(i - 1)
  BY <1>1
<1>9. line = [i \in 1..(long + 1) |-> line[i]]
  BY <1>1
<1>10. \A i \in 1..(long + 1) : line[i] \in Between(from[1], to[1]) \X Between(from[2], to[2])
  BY <1>6, <1>7, <1>8
<1>11. QED
  BY <1>9, <1>10 DEF line, long

\* How far a line has gone along its shorter side, for either algorithm.
LEMMA GoneIsShort ==
  ASSUME NEW long \in Nat, long > 0, NEW short \in Nat, NEW k \in 0..long,
         NEW half \in Int, 0 <= half, half <= long
  PROVE  /\ (long \div 2 + k * short) \div long \in 0..short
         /\ (2 * k * short + half) \div (2 * long) \in 0..short
<1> DEFINE a == k * short
<1>1. a \in Nat /\ a <= long * short
  OBVIOUS
<1>2. (long \div 2 + a) \div long \in 0..short
  <2> HIDE DEF a
  <2>1. long \div 2 + a >= 0 /\ long \div 2 + a < long * (short + 1)
    BY <1>1
  <2>2. QED
    BY <1>1, <2>1
<1>3. 2 * k * short = 2 * a
  OBVIOUS
<1>4. (2 * a + half) \div (2 * long) \in 0..short
  <2> HIDE DEF a
  <2>1. 2 * a + half >= 0 /\ 2 * a + half < (2 * long) * (short + 1)
    BY <1>1
  <2>2. QED
    BY <1>1, <2>1
<1>5. QED
  BY <1>2, <1>3, <1>4

\* Both algorithms round alike in the direction of Onward.
LEMMA SameRounding ==
  ASSUME NEW long \in Nat, long > 0, NEW short \in Nat, NEW k \in 0..long
  PROVE  (2 * k * short + long) \div (2 * long) = (long \div 2 + k * short) \div long
<1> DEFINE a == k * short
<1>1. a \in Nat /\ 2 * k * short = 2 * a
  OBVIOUS
<1>2. (2 * a + long) \div (2 * long) = (long \div 2 + a) \div long
  <2> HIDE DEF a
  <2>1. QED
    BY <1>1
<1>3. QED
  BY <1>1, <1>2

LEMMA ServerLineIs ==
  ASSUME NEW from \in Pairs, NEW to \in Pairs, from # to
  PROVE  /\ ServerLine(from, to)
              = [i \in 1..(LongSide(from, to) + 1) |-> ServerLine(from, to)[i]]
         /\ \A i \in 1..(LongSide(from, to) + 1) :
              ServerLine(from, to)[i] \in Between(from[1], to[1]) \X Between(from[2], to[2])
<1> DEFINE long == LongSide(from, to)
           short == ShortSide(from, to)
           gone == [k \in 0..long |-> (long \div 2 + k * short) \div long]
<1>1. ServerLine(from, to) = LinePoints(from, to, gone)
  BY DEF ServerLine
<1>2. long \in Nat /\ long > 0 /\ short \in Nat
  BY LineSides
<1>3. \A k \in 0..long : (long \div 2 + k * short) \div long \in 0..short
  <2> HIDE DEF long, short
  <2>1. QED
    BY <1>2, GoneIsShort
<1>4. gone \in [0..long -> 0..short]
  BY <1>3
<1> HIDE DEF gone
<1>5. QED
  BY <1>1, <1>4, LineBetweenEnds

LEMMA ScreenLineIs ==
  ASSUME NEW from \in Pairs, NEW to \in Pairs, from # to
  PROVE  /\ PointSet(ScreenLine(from, to)) \subseteq Between(from[1], to[1]) \X Between(from[2], to[2])
         /\ Onward(from, to) => ScreenLine(from, to) = ServerLine(from, to)
<1> DEFINE dx == to[1] - from[1]
           dy == to[2] - from[2]
           long == LongSide(from, to)
           short == ShortSide(from, to)
           onward == IF Abs(dx) > Abs(dy) THEN dx >= 0 ELSE dy >= 0
           half == IF onward THEN long ELSE long - 1
           gone == [k \in 0..long |-> (2 * k * short + half) \div (2 * long)]
           gone2 == [k \in 0..long |-> (long \div 2 + k * short) \div long]
<1>1. ScreenLine(from, to) = LinePoints(from, to, gone)
  BY DEF ScreenLine
<1>2. ServerLine(from, to) = LinePoints(from, to, gone2)
  BY DEF ServerLine
<1>3. long \in Nat /\ long > 0 /\ short \in Nat
  BY LineSides
<1>4. half \in Int /\ 0 <= half /\ half <= long
  BY <1>3
<1>5. Onward(from, to) => half = long
  <2>1. from[1] \in Int /\ from[2] \in Int /\ to[1] \in Int /\ to[2] \in Int
    BY PairIs
  <2>2. Onward(from, to) => onward
    BY <2>1 DEF Onward
  <2>3. QED
    BY <2>2
<1> HIDE DEF half, long, short
<1>6. gone \in [0..long -> 0..short]
  BY <1>3, <1>4, GoneIsShort
<1>7. half = long => gone = gone2
  <2>1. \A k \in 0..long :
          (2 * k * short + long) \div (2 * long) = (long \div 2 + k * short) \div long
    BY <1>3, SameRounding
  <2>2. QED
    BY <2>1
<1> HIDE DEF gone, gone2
<1>8. Onward(from, to) => ScreenLine(from, to) = ServerLine(from, to)
  BY <1>1, <1>2, <1>5, <1>7
<1> DEFINE line == LinePoints(from, to, gone)
<1>9. /\ line = [i \in 1..(long + 1) |-> line[i]]
      /\ \A i \in 1..(long + 1) : line[i] \in Between(from[1], to[1]) \X Between(from[2], to[2])
  BY <1>6, LineBetweenEnds DEF long, short
<1> HIDE DEF line
<1>10. PointSet(line) \subseteq Between(from[1], to[1]) \X Between(from[2], to[2])
  <2>1. DOMAIN line = 1..(long + 1)
    BY <1>9
  <2>2. QED
    BY <1>9, <2>1 DEF PointSet
<1>11. QED
  BY <1>1, <1>8, <1>10 DEF line

\* The points of a line that is a row or a column.
LEMMA FlatLine ==
  ASSUME NEW from \in Pairs, NEW to \in Pairs
  PROVE  /\ from[2] = to[2] =>
              PointSet(ServerLine(from, to)) = Between(from[1], to[1]) \X {from[2]}
         /\ from[1] = to[1] =>
              PointSet(ServerLine(from, to)) = {from[1]} \X Between(from[2], to[2])
<1> DEFINE dx == to[1] - from[1]
           dy == to[2] - from[2]
           long == LongSide(from, to)
           short == ShortSide(from, to)
           gone == [k \in 0..long |-> (long \div 2 + k * short) \div long]
           at(k) == IF Abs(dx) >= Abs(dy)
                    THEN <<from[1] + Sign(dx) * k, from[2] + Sign(dy) * gone[k]>>
                    ELSE <<from[1] + Sign(dx) * gone[k], from[2] + Sign(dy) * k>>
           line == ServerLine(from, to)
<1>1. /\ from[1] \in Int /\ from[2] \in Int /\ to[1] \in Int /\ to[2] \in Int
      /\ from = <<from[1], from[2]>> /\ to = <<to[1], to[2]>>
  BY PairIs
<1>2. CASE from = to
  <2>1. line = <<from>>
    BY <1>2 DEF ServerLine, LinePoints
  <2>2. PointSet(line) = {from}
    BY <2>1 DEF PointSet
  <2>3. Between(from[1], to[1]) = {from[1]} /\ Between(from[2], to[2]) = {from[2]}
    BY <1>1, <1>2 DEF Between, Lesser, Greater
  <2>4. {from} = {from[1]} \X {from[2]}
    BY <1>1
  <2>5. QED
    BY <2>2, <2>3, <2>4
<1>3. CASE from # to
  <2>1. line = [i \in 1..(long + 1) |-> at(i - 1)]
    BY <1>3 DEF ServerLine, LinePoints
  <2>2. /\ Abs(dx) \in Nat /\ Abs(dy) \in Nat /\ long \in Nat /\ long > 0 /\ short \in Nat
        /\ Abs(dx) >= Abs(dy) => long = Abs(dx) /\ short = Abs(dy)
        /\ ~ Abs(dx) >= Abs(dy) => long = Abs(dy) /\ short = Abs(dx)
    BY <1>3, LineSides
  <2>3. \A k \in 0..long : gone[k] \in 0..short
    <3> HIDE DEF long, short
    <3>1. QED
      BY <2>2, GoneIsShort
  <2>4. PointSet(line) = {at(k) : k \in 0..long}
    <3> HIDE DEF at, long, line
    <3>1. DOMAIN line = 1..(long + 1) /\ \A i \in 1..(long + 1) : line[i] = at(i - 1)
      BY <2>1
    <3>2. \A k \in 0..long : k + 1 \in 1..(long + 1) /\ (k + 1) - 1 = k
      BY <2>2
    <3>3. \A i \in 1..(long + 1) : i - 1 \in 0..long
      BY <2>2
    <3>4. QED
      BY <3>1, <3>2, <3>3 DEF PointSet
  <2>5. ASSUME from[2] = to[2]
        PROVE  PointSet(line) = Between(from[1], to[1]) \X {from[2]}
    <3>1. Abs(dy) = 0 /\ Sign(dy) = 1 /\ Abs(dx) > 0
      BY <1>1, <2>2, <2>5 DEF Abs, Sign
    <3>2. long = Abs(dx) /\ short = 0 /\ Abs(dx) >= Abs(dy)
      BY <2>2, <3>1
    <3> HIDE DEF gone, long, short
    <3>3. \A k \in 0..long : at(k) = <<from[1] + Sign(dx) * k, from[2]>>
      BY <1>1, <2>3, <3>1, <3>2
    <3>4. /\ \A k \in 0..long : from[1] + Sign(dx) * k \in Between(from[1], to[1])
          /\ \A x \in Between(from[1], to[1]) : \E k \in 0..long : x = from[1] + Sign(dx) * k
      BY <1>1, <3>2, StepsTowards
    <3> HIDE DEF at, line, dx
    <3>5. QED
      BY <2>4, <3>3, <3>4
  <2>6. ASSUME from[1] = to[1]
        PROVE  PointSet(line) = {from[1]} \X Between(from[2], to[2])
    <3>1. Abs(dx) = 0 /\ Sign(dx) = 1 /\ Abs(dy) > 0
      BY <1>1, <1>3, <2>2, <2>6 DEF Abs, Sign
    <3>2. long = Abs(dy) /\ short = 0 /\ ~ Abs(dx) >= Abs(dy)
      BY <2>2, <3>1
    <3> HIDE DEF gone, long, short
    <3>3. \A k \in 0..long : at(k) = <<from[1], from[2] + Sign(dy) * k>>
      BY <1>1, <2>3, <3>1, <3>2
    <3>4. /\ \A k \in 0..long : from[2] + Sign(dy) * k \in Between(from[2], to[2])
          /\ \A y \in Between(from[2], to[2]) : \E k \in 0..long : y = from[2] + Sign(dy) * k
      BY <1>1, <3>2, StepsTowards
    <3> HIDE DEF at, line, dy
    <3>5. QED
      BY <2>4, <3>3, <3>4
  <2>7. QED
    BY <2>5, <2>6
<1>4. QED
  BY <1>2, <1>3

\* A line that is neither, and partly covered perhaps, point by point.
LEMMA PaintLineIs ==
  ASSUME region \in Seq(Inside), NEW d \in Drawings, NEW from \in Place, NEW to \in Place
  PROVE  /\ PaintLine(d, from, to) \in Drawings
         /\ Onward(from, to) =>
              Paints(d, PaintLine(d, from, to), PointSet(ServerLine(from, to)))
<1> DEFINE e == CheckCorner(d, from)
           line == ServerLine(from, to)
           n == Len(line)
           next(f, k) == PaintPoint(f, line[k])
           Eq(f) == [k \in 0..n |-> IF k = 0 THEN e ELSE next(f[k - 1], k)]
           h == CHOOSE f : f = Eq(f)
           some(k) == {line[i] : i \in 1..k}
           P == [k \in 0..n |-> {f \in Drawings : Paints(d, f, some(k))}]
           S == PointSet(line)
<1>1. /\ from \in Pairs /\ to \in Pairs
      /\ from[1] \in Coords /\ from[2] \in Coords /\ to[1] \in Coords /\ to[2] \in Coords
  BY PlacesArePairs DEF Place
<1>2. PaintLine(d, from, to) =
        IF from[2] = to[2] THEN PaintRow(d, from[1], to[1], from[2])
        ELSE IF from[1] = to[1] THEN PaintColumn(d, from[1], from[2], to[2])
        ELSE IF Within(e.cache, to)
        THEN Paint(e, e.cache, PointSet(ScreenLine(from, to)))
        ELSE h[n]
  BY DEF PaintLine, Repeat
<1>3. CASE from[2] = to[2]
  <2>1. Paints(d, PaintRow(d, from[1], to[1], from[2]), Between(from[1], to[1]) \X {from[2]})
    BY <1>1, PaintRowIs
  <2> HIDE DEF line
  <2>2. S = Between(from[1], to[1]) \X {from[2]}
    BY <1>1, <1>3, FlatLine DEF line
  <2>3. Paints(d, PaintLine(d, from, to), S)
    BY <1>2, <1>3, <2>1, <2>2
  <2>4. QED
    BY <2>3 DEF Paints, line
<1>4. CASE from[2] # to[2] /\ from[1] = to[1]
  <2>1. Paints(d, PaintColumn(d, from[1], from[2], to[2]), {from[1]} \X Between(from[2], to[2]))
    BY <1>1, PaintColumnIs
  <2> HIDE DEF line
  <2>2. S = {from[1]} \X Between(from[2], to[2])
    BY <1>1, <1>4, FlatLine DEF line
  <2>3. Paints(d, PaintLine(d, from, to), S)
    BY <1>2, <1>4, <2>1, <2>2
  <2>4. QED
    BY <2>3 DEF Paints, line
<1>5. Paints(d, e, {}) /\ Within(e.cache, from) /\ e \in Drawings /\ e.cache \in TrueCaches
  <2>1. Paints(d, e, {}) /\ Within(e.cache, from)
    BY CheckCornerIs
  <2> HIDE DEF e
  <2>2. QED
    BY <2>1 DEF Paints, Drawings
<1> HIDE DEF e
<1>6. CASE from[2] # to[2] /\ from[1] # to[1] /\ Within(e.cache, to)
  <2> DEFINE T == PointSet(ScreenLine(from, to))
             g == Paint(e, e.cache, T)
  <2>1. T \subseteq Between(from[1], to[1]) \X Between(from[2], to[2])
        /\ (Onward(from, to) => ScreenLine(from, to) = line)
    BY <1>1, <1>6, ScreenLineIs
  <2> HIDE DEF line
  <2>2. Onward(from, to) => T = S
    BY <2>1
  <2> HIDE DEF T, S
  <2>3. \A z \in T : z \in Pairs /\ Within(e.cache, z)
    BY <1>1, <1>5, <1>6, <2>1, WithinCorners, TrueCachesAreCaches
  <2>4. Paints(e, g, T)
    BY <1>5, <2>3, PaintChecked
  <2>5. Paints(d, g, {} \cup T)
    BY <1>5, <2>4, PaintsBoth
  <2>6. PaintLine(d, from, to) = g
    BY <1>2, <1>6 DEF T
  <2> HIDE DEF g
  <2>7. {} \cup T = T
    OBVIOUS
  <2>8. Paints(d, g, T) /\ g \in Drawings
    BY <2>5, <2>7 DEF Paints
  <2>9. QED
    BY <2>2, <2>6, <2>8 DEF S, line
<1>7. CASE from[2] # to[2] /\ from[1] # to[1] /\ ~ Within(e.cache, to)
  <2>1. /\ LongSide(from, to) \in Nat
        /\ line = [i \in 1..(LongSide(from, to) + 1) |-> line[i]]
        /\ \A i \in 1..(LongSide(from, to) + 1) :
             line[i] \in Between(from[1], to[1]) \X Between(from[2], to[2])
    BY <1>1, <1>7, ServerLineIs, LineSides
  <2>2. n = LongSide(from, to) + 1 /\ n \in Nat /\ DOMAIN line = 1..n
    <3> HIDE DEF line
    <3>1. DOMAIN line = 1..(LongSide(from, to) + 1)
      BY <2>1
    <3>2. QED
      BY <2>1, <3>1
  <2>3. \A i \in 1..n : line[i] \in Place
    BY <1>1, <2>1, <2>2, BetweenCoords DEF Place
  <2> HIDE DEF line, n
  <2>4. e \in P[0]
    <3>1. some(0) = {} /\ 0 \in 0..n
      BY <2>2
    <3> HIDE DEF some
    <3>2. Paints(d, e, some(0))
      BY <1>5, <3>1
    <3>3. QED
      BY <1>5, <3>1, <3>2
  <2>5. ASSUME NEW k \in 1..n, NEW f \in P[k - 1] PROVE next(f, k) \in P[k]
    <3> DEFINE g == next(f, k)
    <3>1. k \in 0..n /\ k - 1 \in 0..n /\ line[k] \in Place
      BY <2>2, <2>3
    <3>2. f \in Drawings /\ Paints(d, f, some(k - 1))
      BY <3>1
    <3>3. Paints(f, g, {line[k]})
      BY <3>1, <3>2, PaintPointIs
    <3>4. some(k - 1) \cup {line[k]} = some(k)
      <4>1. \A i : i \in 1..k <=> i \in 1..(k - 1) \/ i = k
        BY <2>2
      <4>2. QED
        BY <4>1
    <3> HIDE DEF g, some
    <3>5. Paints(d, g, some(k)) /\ g \in Drawings
      BY <3>2, <3>3, <3>4, PaintsBoth DEF Paints
    <3>6. g \in P[k]
      BY <3>1, <3>5
    <3>7. QED
      BY <3>6 DEF g
  <2> HIDE DEF next, P
  <2>6. \E f : f = Eq(f)
    <3> DEFINE step == [k \in 1..n |-> [a \in P[k - 1] |-> next(a, k)]]
    <3>1. \A k \in 1..n : \A a \in P[k - 1] : step[k][a] = next(a, k) /\ step[k][a] \in P[k]
      BY <2>5
    <3> HIDE DEF step
    <3>2. PICK f : IsCourse(f, n, e, step) /\ \A k \in 0..n : f[k] \in P[k]
      <4>1. \A k \in 1..n : \A a \in P[k - 1] : step[k][a] \in P[k]
        BY <3>1
      <4>2. QED
        BY ONLY <2>2, <2>4, <4>1, RoundsExist
    <3>3. \A k \in 1..n : k - 1 \in 0..n
      BY <2>2
    <3>4. \A k \in 1..n : step[k][f[k - 1]] = next(f[k - 1], k)
      BY <3>1, <3>2, <3>3
    <3>5. \A k \in 0..n : k # 0 => k \in 1..n
      BY <2>2
    <3>6. f = Eq(f)
      BY <3>2, <3>4, <3>5 DEF IsCourse
    <3>7. QED
      BY <3>6
  <2>7. h = Eq(h)
    BY <2>6
  <2>8. PaintLine(d, from, to) = h[n]
    BY <1>2, <1>7 DEF n, next, line
  <2> HIDE DEF h
  <2>9. h[0] \in P[0] /\ \A k \in 1..n : h[k - 1] \in P[k - 1] => h[k] \in P[k]
    BY <2>2, <2>4, <2>5, <2>7
  <2>10. h[n] \in P[n]
    <3> DEFINE N == {k \in 0..n : h[k] \in P[k]}
    <3>1. 0 \in N /\ \A k \in 1..n : k - 1 \in N => k \in N
      BY <2>2, <2>9
    <3> HIDE DEF N
    <3>2. n \in N
      BY <2>2, <3>1, UpTo
    <3>3. QED
      BY <3>2 DEF N
  <2>11. Paints(d, h[n], some(n)) /\ h[n] \in Drawings
    <3> HIDE DEF some
    <3>1. n \in 0..n
      BY <2>2
    <3>2. QED
      BY <2>10, <3>1 DEF P
  <2>12. some(n) = S
    BY <2>2 DEF PointSet
  <2> HIDE DEF S
  <2>13. QED
    BY <2>8, <2>11, <2>12 DEF S, line
<1>8. QED
  BY <1>3, <1>4, <1>6, <1>7

-----------------------------------------------------------------------------
(* The theorems.                                                            *)

LEMMA PaintingIs ==
  ASSUME CInv, NEW q \in Requests
  PROVE  /\ Painting(q).cache \in TrueCaches
         /\ FitsTheScreen /\ OnwardLines => Painting(q).drawn = Wanted(q) \cap Visible
<1> DEFINE d == [cache |-> cache, drawn |-> {}]
           e == Painting(q)
<1>1. d \in Drawings /\ d.drawn = {} /\ region \in Seq(Inside)
  BY DEF CInv, Drawings
<1>2. e = CASE q.op = "point" -> PaintPoint(d, q.from)
            [] q.op = "line" -> PaintLine(d, q.from, q.to)
            [] q.op = "rect" -> PaintFrame(d, q.area)
            [] q.op = "fill" -> PaintBox(d, q.area)
  BY DEF Painting
<1>3. \/ q.op = "point" /\ q.from \in Place
      \/ q.op = "line" /\ q.from \in Place /\ q.to \in Place
      \/ q.op = "rect" /\ q.area \in Area
      \/ q.op = "fill" /\ q.area \in Area
  BY RequestAssumption
<1> HIDE DEF d, e
<1>4. ASSUME Paints(d, e, Wanted(q))
      PROVE  e.cache \in TrueCaches /\ (FitsTheScreen => e.drawn = Wanted(q) \cap Visible)
  BY <1>1, <1>4 DEF Paints, Drawings
<1>5. CASE q.op = "point" /\ q.from \in Place
  <2>1. Wanted(q) = {q.from} /\ e = PaintPoint(d, q.from)
    BY <1>2, <1>5 DEF Wanted
  <2>2. Paints(d, e, Wanted(q))
    BY <1>1, <1>5, <2>1, PaintPointIs
  <2>3. QED
    BY <1>4, <2>2 DEF e
<1>6. CASE q.op = "line" /\ q.from \in Place /\ q.to \in Place
  <2>1. Wanted(q) = PointSet(ServerLine(q.from, q.to)) /\ e = PaintLine(d, q.from, q.to)
    BY <1>2, <1>6 DEF Wanted
  <2>2. e \in Drawings /\ (Onward(q.from, q.to) => Paints(d, e, Wanted(q)))
    BY <1>1, <1>6, <2>1, PaintLineIs
  <2>3. OnwardLines => Onward(q.from, q.to)
    BY <1>6 DEF OnwardLines
  <2>4. QED
    BY <1>4, <2>2, <2>3 DEF Drawings, e
<1>7. CASE q.op = "rect" /\ q.area \in Area
  <2>1. Wanted(q) = FrameOf(q.area) /\ e = PaintFrame(d, q.area)
    BY <1>2, <1>7 DEF Wanted, FrameOf, BoxOf
  <2>2. Paints(d, e, Wanted(q))
    BY <1>1, <1>7, <2>1, PaintFrameIs
  <2>3. QED
    BY <1>4, <2>2 DEF e
<1>8. CASE q.op = "fill" /\ q.area \in Area
  <2>1. Wanted(q) = BoxOf(q.area) /\ e = PaintBox(d, q.area)
    BY <1>2, <1>8 DEF Wanted, BoxOf
  <2>2. Paints(d, e, Wanted(q))
    BY <1>1, <1>8, <2>1, PaintBoxIs
  <2>3. QED
    BY <1>4, <2>2 DEF e
<1>9. QED
  BY <1>3, <1>5, <1>6, <1>7, <1>8

\* A rectangle of the banded form of points that leave out the last column and
\* row is within the window.
LEMMA RegionIsInside ==
  ASSUME NEW S, S \subseteq (0..(Width - 2)) \X (0..(Height - 2))
  PROVE  Banded(S) \in Seq(Inside)
<1>1. ASSUME NEW r \in BandedSet(S) PROVE r \in Inside
  <2>1. r \in Boxes /\ r.left < r.right /\ r.top < r.bottom /\ PointsIn(r) \subseteq S
    BY BandedBox
  <2>2. r.left \in Nat /\ r.top \in Nat /\ r.right \in Nat /\ r.bottom \in Nat
    BY <2>1, SizeAssumption DEF Boxes
  <2>3. <<r.right - 1, r.bottom - 1>> \in PointsIn(r)
    BY <2>1, <2>2 DEF PointsIn
  <2>4. r.right - 1 \in 0..(Width - 2) /\ r.bottom - 1 \in 0..(Height - 2)
    BY <2>1, <2>3
  <2>5. QED
    BY <2>1, <2>2, <2>4, Sizes DEF Inside
<1>2. Banded(S) \in Seq(Boxes) /\ \A i \in DOMAIN Banded(S) : Banded(S)[i] \in Inside
  BY <1>1, BandedLists
<1> DEFINE b == Banded(S)
<1> HIDE DEF b
<1>3. b \in Seq(Boxes) /\ \A i \in DOMAIN b : b[i] \in Inside
  BY <1>2 DEF b
<1>4. b \in [1..Len(b) -> Inside] /\ Len(b) \in Nat
  BY <1>3
<1>5. b \in Seq(Inside)
  BY <1>4, SeqDef
<1>6. QED
  BY <1>5 DEF b

\* reset_window_clip
LEMMA ResetHolds == region \in Seq(Inside) => Reset(region) \in TrueCaches
<1> SUFFICES ASSUME region \in Seq(Inside) PROVE Reset(region) \in TrueCaches
  OBVIOUS
<1>1. CASE region = <<>>
  <2>1. Reset(region) = NothingVisible
    BY <1>1 DEF Reset
  <2>2. NothingVisible \in Caches /\ NothingVisible.result = FALSE
    BY Sizes DEF NothingVisible, Cache, Caches
  <2>3. QED
    BY <2>1, <2>2, <1>1, CoveredWindow DEF TrueCaches
<1>2. CASE region # <<>>
  <2>1. 1 \in DOMAIN region
    BY <1>2
  <2>2. QED
    BY <1>2, <2>1, VisibleCache DEF Reset
<1>3. QED
  BY <1>1, <1>2

LEMMA ResetNext == (region \in Seq(Inside) => Reset(region) \in TrueCaches)'
  BY ResetHolds, PTL

LEMMA CInvInit ==
  ASSUME ClipInit
  PROVE  CInv
<1>1. region = <<>> /\ cache = NothingVisible
  BY DEF ClipInit
<1>2. region \in Seq(Inside) /\ cache = Reset(region)
  BY <1>1 DEF Reset
<1>3. QED
  BY <1>2, ResetHolds DEF CInv

LEMMA CInvStep ==
  ASSUME CInv, [ClipNext]_clipVars
  PROVE  CInv'
<1>1. ASSUME region' = region PROVE TrueCaches' = TrueCaches
  BY <1>1 DEF TrueCaches, Visible, PointSet
<1>2. ASSUME NEW S \in Cuts, Recalc(S) PROVE CInv'
  <2>1. region' \in Seq(Inside)
    BY <1>2, RegionIsInside DEF Recalc
  <2>2. cache' = Reset(region')
    BY <1>2 DEF Recalc
  <2>3. Reset(region') \in TrueCaches'
    BY <2>1, ResetNext
  <2>4. QED
    BY <2>1, <2>2, <2>3 DEF CInv
<1>3. ASSUME NEW q \in Requests, Draw(q) PROVE CInv'
  <2>1. region' = region /\ cache' = Painting(q).cache
    BY <1>3 DEF Draw
  <2>2. Painting(q).cache \in TrueCaches
    BY PaintingIs
  <2>3. QED
    BY <1>1, <2>1, <2>2 DEF CInv
<1>4. CASE UNCHANGED clipVars
  BY <1>1, <1>4 DEF CInv, clipVars
<1>5. QED
  BY <1>2, <1>3, <1>4 DEF ClipNext

LEMMA ClipInvariant == ClipSpec => []CInv
  BY CInvInit, CInvStep, PTL DEF ClipSpec

\* Whatever was drawn and however the clip changed, the cache is true of every point
\* it has: for every size of window and screen, whatever lies on the window, and
\* all requests within the coordinates.
THEOREM CacheStaysTrue == ClipSpec => []CacheIsTrue
<1>1. CInv => CacheIsTrue
  <2> SUFFICES ASSUME CInv, NEW p \in (MinCoord..MaxCoord) \X (MinCoord..MaxCoord),
                      Within(cache, p)
               PROVE  cache.result = (p \in Visible)
    BY DEF CacheIsTrue
  <2>1. p \in Pairs
    BY Sizes DEF Pairs
  <2>2. cache.result \in BOOLEAN /\ (cache.result <=> p \in Visible)
    BY <2>1 DEF CInv, TrueCaches, Caches
  <2>3. QED
    BY <2>2
<1>2. QED
  BY <1>1, ClipInvariant, PTL

\* In a window that is no larger than the screen, the drawing functions draw what
\* was asked for where the window is visible, and nowhere else: points, rows,
\* columns, frames, boxes, and slanted lines to the right or downwards.
THEOREM DrawingIsExact ==
  ASSUME FitsTheScreen, OnwardLines
  PROVE  ClipSpec => []DrawsWhatIsVisible
<1>1. CInv => DrawsWhatIsVisible
  BY PaintingIs DEF DrawsWhatIsVisible
<1>2. QED
  BY <1>1, ClipInvariant, PTL

=============================================================================
