-------------------------------- MODULE Region --------------------------------
(***************************************************************************)
(* Regions of the screen as lists of rectangles, and how they are          *)
(* subtracted and intersected (kwgssrv_region.c).                          *)
(*                                                                         *)
(* A region lists its rectangles in bands: the rectangles of a band have   *)
(* the same top and bottom, do not touch, and go from left to right; bands *)
(* go from top to bottom, and two bands that touch differ.  right and      *)
(* bottom are exclusive.  region_operation walks down both regions a band  *)
(* at a time, and puts the new region together from the parts of bands     *)
(* that only one region has and the parts that both have.                  *)
(*                                                                         *)
(* One step of the model is one round of the loop of region_operation.     *)
(* The result replaces reg1: regD is regM in every call of subtract_region, *)
(* and intersect_region, which nobody calls, is taken the same way.        *)
(***************************************************************************)
EXTENDS Rects, Sequences

CONSTANTS Operands1,  \* the point sets of the first operand, not empty
          Operands2   \* the point sets of the second operand, not empty

ASSUME ScreenAssumption ==
  \A S \in Operands1 \cup Operands2 : S # {} /\ S \subseteq (0..(Columns - 1)) \X (0..(Rows - 1))

VARIABLES
  op,                        \* the exported function called
  reg1, reg2,                \* rects of the operands
  new, extents, rects_have,  \* the new region
  at1, at2,                  \* region1_rect_ptr, region2_rect_ptr: indices into reg1, reg2
  overlap_bot,
  prevBand,                  \* where the last band of new starts
  pc

cursors == <<at1, at2, overlap_bot, prevBand>>
vars == <<op, reg1, reg2, new, extents, rects_have, cursors, pc>>

-----------------------------------------------------------------------------
(* The bands of an operand                                                 *)

\* The index after the band that starts at i: region1_band_end.
BandEnd(rects, i) ==
  CHOOSE j \in i..(Len(rects) + 1) :
    /\ \A k \in i..(j - 1) : rects[k].top = rects[i].top
    /\ j <= Len(rects) => rects[j].top # rects[i].top

Band(rects, i) == SubSeq(rects, i, BandEnd(rects, i) - 1)

\* subtract_none_overlapping_band
OnlyFirst(band, top, bottom) ==
  [i \in DOMAIN band |-> Box(band[i].left, top, band[i].right, bottom)]

\* What one round of a loop over two bands writes at a place of the loop, and the
\* place it goes on to.
Turn(pieces, next) == [pieces |-> pieces, next |-> next]

\* What such a loop writes from a place on; it ends where it stays.
WrittenFrom(turn, place) ==
  LET from[p \in DOMAIN turn] ==
        IF turn[p].next = p THEN <<>> ELSE turn[p].pieces \o from[turn[p].next]
  IN  from[place]

\* The places of subtract_overlapping_band: left is the left edge of what is
\* still left of the rectangle i of the first band.
Reached(i, j, left) == [i |-> i, j |-> j, left |-> left]

SubtractPlaces(band1, band2) ==
  [i : 1..(Len(band1) + 1), j : 1..(Len(band2) + 1), left : 0..Columns]

\* The left edge of the rectangle i.
LeftEdge(band, i) == IF i <= Len(band) THEN band[i].left ELSE 0

\* A slip of subtract_overlapping_band: it goes on to the next rectangle of
\* region 1 although the one of region 2 ends before this one does.
SubtractOnceARectangle(band1, band2, top, bottom) ==
  [p \in SubtractPlaces(band1, band2) |->
    LET r1 == band1[p.i]
        r2 == band2[p.j]
        next1 == Reached(p.i + 1, p.j, LeftEdge(band1, p.i + 1))
        piece(right) == IF right > p.left THEN <<Box(p.left, top, right, bottom)>> ELSE <<>>
    IN  IF p.i > Len(band1) THEN Turn(<<>>, p)
        ELSE IF p.j > Len(band2) \/ r2.left >= r1.right THEN Turn(piece(r1.right), next1)
        ELSE Turn(piece(r2.left), next1)]

\* subtract_overlapping_band
SubtractTurns(band1, band2, top, bottom) ==
  [p \in SubtractPlaces(band1, band2) |->
    LET r1 == band1[p.i]
        r2 == band2[p.j]
        next1 == Reached(p.i + 1, p.j, LeftEdge(band1, p.i + 1))
        after2 == IF r2.right >= r1.right THEN next1 ELSE Reached(p.i, p.j + 1, r2.right)
        piece(right) == <<Box(p.left, top, right, bottom)>>
    IN  CASE p.i > Len(band1) -> Turn(<<>>, p)
          [] p.i <= Len(band1) /\ p.j > Len(band2) -> Turn(piece(r1.right), next1)
          [] OTHER ->
               CASE r2.right <= p.left -> Turn(<<>>, Reached(p.i, p.j + 1, p.left))
                 [] r2.right > p.left /\ r2.left <= p.left -> Turn(<<>>, after2)
                 [] r2.left > p.left /\ r2.left < r1.right -> Turn(piece(r2.left), after2)
                 [] OTHER -> Turn(IF r1.right > p.left THEN piece(r1.right) ELSE <<>>, next1)]

SubtractBands(band1, band2, top, bottom) ==
  WrittenFrom(SubtractTurns(band1, band2, top, bottom), Reached(1, 1, band1[1].left))

\* intersect_overlapping_band
IntersectTurns(band1, band2, top, bottom) ==
  [p \in [i : 1..(Len(band1) + 1), j : 1..(Len(band2) + 1)] |->
    LET r1 == band1[p.i]
        r2 == band2[p.j]
        left == Greater(r1.left, r2.left)
        right == Lesser(r1.right, r2.right)
    IN  IF p.i > Len(band1) \/ p.j > Len(band2) THEN Turn(<<>>, p)
        ELSE Turn(IF left < right THEN <<Box(left, top, right, bottom)>> ELSE <<>>,
                   [i |-> IF r1.right <= r2.right THEN p.i + 1 ELSE p.i,
                    j |-> IF r2.right <= r1.right THEN p.j + 1 ELSE p.j])]

IntersectBands(band1, band2, top, bottom) ==
  WrittenFrom(IntersectTurns(band1, band2, top, bottom), [i |-> 1, j |-> 1])

OverlapBands(band1, band2, top, bottom) ==
  IF op = "subtract" THEN SubtractBands(band1, band2, top, bottom)
                     ELSE IntersectBands(band1, band2, top, bottom)

-----------------------------------------------------------------------------
(* The new region                                                          *)

\* A slip of MEMCHECK: it looks whether the array has overflowed.
GrownTooLate(have, use, k) ==
  LET after[n \in 0..k] ==
        IF n = 0 THEN have
        ELSE IF use + n - 1 > after[n - 1] THEN 2 * after[n - 1] ELSE after[n - 1]
  IN  after[k]

\* The capacity after k more rectangles were written behind use others: MEMCHECK
\* doubles it when only one place is left.
Grown(have, use, k) ==
  LET after[n \in 0..k] ==
        IF n = 0 THEN have
        ELSE IF use + n - 1 >= after[n - 1] - 1 THEN 2 * after[n - 1] ELSE after[n - 1]
  IN  after[k]

\* A slip of region_union_similar_band: the bands need not touch.
MergeDistantBands(rects, prev, cur) ==
  LET end == BandEnd(rects, cur)
      n == end - cur
  IN  IF n = cur - prev
         /\ \A i \in 0..(n - 1) : /\ rects[prev + i].left = rects[cur + i].left
                                  /\ rects[prev + i].right = rects[cur + i].right
      THEN [rects |-> [i \in 1..(cur - 1) |->
                         IF i < prev THEN rects[i]
                         ELSE [rects[i] EXCEPT !.bottom = rects[cur].bottom]]
                      \o SubSeq(rects, end, Len(rects)),
            start |-> prev]
      ELSE [rects |-> rects, start |-> cur]

\* region_union_similar_band: merge the band that starts at cur into the one
\* that starts at prev if they touch and have their rectangles in the same places;
\* and where the last band starts now.
UnionSimilarBand(rects, prev, cur) ==
  LET end == BandEnd(rects, cur)
      n == end - cur
      lastBand == CHOOSE i \in cur..Len(rects) :
                    /\ rects[i].top = rects[Len(rects)].top
                    /\ i > cur => rects[i - 1].top # rects[i].top
  IN  IF /\ n = cur - prev
         /\ rects[prev].bottom = rects[cur].top
         /\ \A i \in 0..(n - 1) : /\ rects[prev + i].left = rects[cur + i].left
                                  /\ rects[prev + i].right = rects[cur + i].right
      THEN [rects |-> [i \in 1..(cur - 1) |->
                         IF i < prev THEN rects[i]
                         ELSE [rects[i] EXCEPT !.bottom = rects[cur].bottom]]
                      \o SubSeq(rects, end, Len(rects)),
            start |-> IF end > Len(rects) THEN prev ELSE lastBand]
      ELSE [rects |-> rects, start |-> lastBand]

\* A band is added, and merged with the one before it.
AddBand(region, added) ==
  IF added = <<>> THEN region
  ELSE LET u == UnionSimilarBand(region.rects \o added, region.prev, Len(region.rects) + 1)
       IN  [rects |-> u.rects, prev |-> u.start,
            have |-> Grown(region.have, Len(region.rects), Len(added))]

\* A slip of set_region_extents: the last rectangle is taken for the rightmost.
ExtentsOfEnds(rects) ==
  IF rects = <<>> THEN EmptyBox
  ELSE Box(rects[1].left, rects[1].top, rects[Len(rects)].right, rects[Len(rects)].bottom)

\* set_region_extents
ExtentsOf(rects) ==
  IF rects = <<>> THEN EmptyBox
  ELSE LET lefts == {rects[i].left : i \in DOMAIN rects}
           rights == {rects[i].right : i \in DOMAIN rects}
       IN  Box(CHOOSE l \in lefts : \A m \in lefts : l <= m, rects[1].top,
               CHOOSE r \in rights : \A m \in rights : m <= r, rects[Len(rects)].bottom)

-----------------------------------------------------------------------------
Init ==
  /\ op \in {"init", "subtract", "intersect"}
  /\ \E S \in Operands1 : reg1 = Banded(S)
  /\ \E S \in Operands2 : reg2 = Banded(S)
  /\ op = "init" => Len(reg1) = 1
  /\ new = <<>>
  /\ extents = EmptyBox
  /\ rects_have = 0
  /\ at1 = 1 /\ at2 = 1
  /\ overlap_bot = 0
  /\ prevBand = 1
  /\ pc = "call"

\* init_region with the edges of reg1[1]: a fall-through empties the region
\* whatever the edges are.
InitRegion ==
  /\ pc = "call" /\ op = "init"
  /\ new' = <<>>
  /\ rects_have' = 1
  /\ extents' = reg1[1]
  /\ pc' = "done"
  /\ UNCHANGED <<op, reg1, reg2, cursors>>

\* The smallest box around a set of points, which is not empty: what the extents
\* of an operand are (see ExtentsAreTight).
BoxAround(S) ==
  LET xs == {p[1] : p \in S}
      ys == {p[2] : p \in S}
      least(N) == CHOOSE n \in N : \A m \in N : n <= m
      most(N) == CHOOSE n \in N : \A m \in N : m <= n
  IN  Box(least(xs), least(ys), most(xs) + 1, most(ys) + 1)

\* CHECK_EXTENT_OVERLAP
ExtentsOverlap(e1, e2) ==
  /\ e1.right > e2.left /\ e1.left < e2.right
  /\ e1.bottom > e2.top /\ e1.top < e2.bottom

\* subtract_region and intersect_region when the extents do not meet.
Reject ==
  /\ pc = "call" /\ op # "init"
  /\ ~ ExtentsOverlap(BoxAround(Points(reg1)), BoxAround(Points(reg2)))
  /\ new' = IF op = "subtract" THEN reg1 ELSE <<>>
  /\ extents' = ExtentsOf(new')
  /\ rects_have' = Len(reg1)
  /\ pc' = "done"
  /\ UNCHANGED <<op, reg1, reg2, cursors>>

\* region_operation, up to its loop.  newReg is reg1, whose rects_use is already
\* zero when MAX compares it with that of reg2: the array starts at twice the
\* length of the second operand alone.
Enter ==
  /\ pc = "call" /\ op # "init"
  /\ ExtentsOverlap(BoxAround(Points(reg1)), BoxAround(Points(reg2)))
  /\ rects_have' = 2 * Len(reg2)
  /\ overlap_bot' = Lesser(reg1[1].top, reg2[1].top)
  /\ pc' = "bands"
  /\ UNCHANGED <<op, reg1, reg2, new, extents, at1, at2, prevBand>>

\* One round of the loop: the part of a band that only one region has, then the
\* part that both have; then on to the next band where one has ended.
BandRound ==
  /\ pc = "bands"
  /\ LET r1 == reg1[at1]
         r2 == reg2[at2]
         top == Greater(r1.top, overlap_bot)
         bot == Lesser(r1.bottom, r2.top)
         overlap_top == Greater(r1.top, r2.top)
         bottom == Lesser(r1.bottom, r2.bottom)
         before == [rects |-> new, prev |-> prevBand, have |-> rects_have]
         single == AddBand(before,
                     IF op = "subtract" /\ r1.top < r2.top /\ top # bot
                     THEN OnlyFirst(Band(reg1, at1), top, bot) ELSE <<>>)
         both == AddBand(single,
                   IF bottom > overlap_top
                   THEN OverlapBands(Band(reg1, at1), Band(reg2, at2), overlap_top, bottom)
                   ELSE <<>>)
     IN  /\ new' = both.rects
         /\ prevBand' = both.prev
         /\ rects_have' = both.have
         /\ overlap_bot' = bottom
         /\ at1' = IF r1.bottom = bottom THEN BandEnd(reg1, at1) ELSE at1
         /\ at2' = IF r2.bottom = bottom THEN BandEnd(reg2, at2) ELSE at2
  /\ pc' = IF at1' <= Len(reg1) /\ at2' <= Len(reg2) THEN "bands" ELSE "rest"
  /\ UNCHANGED <<op, reg1, reg2, extents>>

\* What is left of region 1 after the loop, its last bands; then the memory that
\* was too much is given back and the extents are set.
Rest ==
  /\ pc = "rest"
  /\ LET added == IF op = "subtract"
                  THEN [i \in 1..(Len(reg1) - at1 + 1) |->
                          LET r == reg1[at1 + i - 1]
                          IN  [r EXCEPT !.top = Greater(r.top, overlap_bot)]]
                  ELSE <<>>
         all == AddBand([rects |-> new, prev |-> prevBand, have |-> rects_have], added)
     IN  /\ new' = all.rects
         /\ rects_have' = IF Len(all.rects) >= all.have \div 2 THEN all.have
                          ELSE Greater(Len(all.rects), 1)
  /\ extents' = ExtentsOf(new')
  /\ pc' = "done"
  /\ UNCHANGED <<op, reg1, reg2, cursors>>

Next == InitRegion \/ Reject \/ Enter \/ BandRound \/ Rest

Spec == Init /\ [][Next]_vars

-----------------------------------------------------------------------------
(* Properties *)

Result ==
  IF op = "subtract" THEN Points(reg1) \ Points(reg2) ELSE Points(reg1) \cap Points(reg2)

\* Above overlap_bot the new region has the points it should have, after every
\* round, and no others.
RoundsAreExact ==
  op # "init" /\ pc \in {"bands", "rest"} =>
    Points(new) = {p \in Result : p[2] < overlap_bot}

\* The functions leave the points they should, in the banded form that the next
\* call relies on: bands are in order, and merged where they can be.
ResultIsBanded == op # "init" /\ pc = "done" => new = Banded(Result)

\* No rectangle is written behind the end of the array.
ArrayIsLargeEnough == pc # "call" => Len(new) <= rects_have

\* The extents are the smallest box around the region: the next call rejects
\* what does not meet it.
ExtentsAreTight ==
  op # "init" /\ pc = "done" =>
    extents = IF new = <<>> THEN EmptyBox ELSE BoxAround(Points(new))

=============================================================================
