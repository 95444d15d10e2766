-------------------------------- MODULE Rects --------------------------------
(***************************************************************************)
(* Rectangles and the points in them (KWRect_t, KWRegion_t), and the       *)
(* banded form of a region: what region_operation keeps.                   *)
(***************************************************************************)
EXTENDS Integers, FiniteSets

CONSTANTS Columns, Rows  \* points there are across and down

ASSUME SizeAssumption == Columns \in Nat /\ Rows \in Nat

Box(l, t, r, b) == [left |-> l, top |-> t, right |-> r, bottom |-> b]

EmptyBox == Box(0, 0, 0, 0)

PointsIn(r) == (r.left .. (r.right - 1)) \X (r.top .. (r.bottom - 1))

Points(rects) == UNION {PointsIn(rects[i]) : i \in DOMAIN rects}

\* The lesser and the greater of two numbers: MIN and MAX.
Lesser(a, b) == IF a < b THEN a ELSE b
Greater(a, b) == IF a > b THEN a ELSE b

RowOf(S, y) == {x \in 0..(Columns - 1) : <<x, y>> \in S}

\* The banded form of a set of points: bands of equal rows, as high as they can
\* be, each of intervals as wide as they can be.
BandedSet(S) ==
  {r \in [left : 0..Columns, top : 0..Rows, right : 0..Columns, bottom : 0..Rows] :
     /\ r.left < r.right /\ r.top < r.bottom
     /\ PointsIn(r) \subseteq S
     /\ <<r.left - 1, r.top>> \notin S /\ <<r.right, r.top>> \notin S
     /\ \A y \in r.top .. (r.bottom - 1) : RowOf(S, y) = RowOf(S, r.top)
     /\ RowOf(S, r.top - 1) # RowOf(S, r.top)
     /\ RowOf(S, r.bottom) # RowOf(S, r.top)}

Before(p, q) == p.top < q.top \/ (p.top = q.top /\ p.left < q.left)

Banded(S) ==
  LET R == BandedSet(S)
  IN  [i \in 1..Cardinality(R) |->
         CHOOSE r \in R : Cardinality({q \in R : Before(q, r)}) = i - 1]

=============================================================================
