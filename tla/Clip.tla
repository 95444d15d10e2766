---------------------------------- MODULE Clip ----------------------------------
(***************************************************************************)
(* Drawing through a window's clip: the clip cache (reset_window_clip,     *)
(* check_point_in_clip, check_area_in_clip, kwgssrv_clip.c) and the        *)
(* drawing functions that rely on it (kwgssrv_draw.c, with the lines and   *)
(* fills of screen/kwgssrv_screenfb.c).                                    *)
(*                                                                         *)
(* The cache is a rectangle that has the point asked for last and is       *)
(* visible or invisible as a whole.  The drawing functions skip ahead to   *)
(* its edge, and draw in one go what it contains.                          *)
(*                                                                         *)
(* The region is what subtract_region leaves of the window's rectangle     *)
(* (see Region; init_region is taken at its word).  Its right and bottom   *)
(* edges are exclusive there, and inclusive here: each file reads them so. *)
(* What is cut out is more than one point wide and high.  Lines are not    *)
(* dotted.                                                                 *)
(***************************************************************************)
EXTENDS Rects, Sequences

CONSTANTS ScreenWidth, ScreenHeight,  \* current_screen
          MinCoord, MaxCoord,         \* MIN_COORD, MAX_COORD
          Cuts,                       \* what may lie on the window: sets of rectangles
          Requests                    \* drawing requests

\* Points are relative to the window.
Width == Columns
Height == Rows

Coords == MinCoord..MaxCoord

Place == Coords \X Coords

Area == {r \in [left : Coords, top : Coords, right : Coords, bottom : Coords] :
           r.left <= r.right /\ r.top <= r.bottom}

ASSUME ClipAssumption ==
  /\ Width > 1 /\ Height > 1
  /\ ScreenWidth \in Nat /\ ScreenHeight \in Nat
  /\ MinCoord \in Int /\ MaxCoord \in Int
  /\ MinCoord < 0 /\ MaxCoord >= Greater(Width, Height)
  /\ \A S \in Cuts : \A r \in S : r.left < r.right /\ r.top < r.bottom

\* No request reaches beyond the coordinates.  (The code takes any: see the README.)
ASSUME RequestAssumption ==
  Requests \subseteq [op : {"point"}, from : Place]
                    \cup [op : {"line"}, from : Place, to : Place]
                    \cup [op : {"rect", "fill"}, area : Area]

VARIABLES
  cuts,    \* the rectangles cut out, edges inclusive
  region,  \* wp->clip.region.rects
  cache    \* wp->clip: clipminx, clipmaxx, clipminy, clipmaxy, clipresult

clipVars == <<cuts, region, cache>>

-----------------------------------------------------------------------------
(* The cache *)

Cache(minx, maxx, miny, maxy, result) ==
  [minx |-> minx, maxx |-> maxx, miny |-> miny, maxy |-> maxy, result |-> result]

NothingVisible == Cache(MinCoord, MaxCoord, MinCoord, MaxCoord, FALSE)

CacheOf(r) == Cache(r.left, r.right, r.top, r.bottom, TRUE)

Within(c, p) == p[1] \in c.minx .. c.maxx /\ p[2] \in c.miny .. c.maxy

Covers(r, p) == Within(CacheOf(r), p)

\* reset_window_clip
Reset(rects) == IF rects = <<>> THEN NothingVisible ELSE CacheOf(rects[1])

LeastOf(S) == CHOOSE n \in S : \A m \in S : n <= m
MostOf(S) == CHOOSE n \in S : \A m \in S : m <= n

\* The loop at the end of check_point_in_clip: as much around an invisible point
\* as no rectangle reaches into.
Around(p) ==
  LET R == {region[i] : i \in DOMAIN region} IN
  Cache(MostOf({MinCoord} \cup {r.right + 1 : r \in {q \in R : p[1] > q.right}}),
        LeastOf({MaxCoord} \cup {r.left - 1 : r \in {q \in R : p[1] < q.left}}),
        MostOf({MinCoord} \cup {r.bottom + 1 : r \in {q \in R : p[2] > q.bottom}}),
        LeastOf({MaxCoord} \cup {r.top - 1 : r \in {q \in R : p[2] < q.top}}),
        FALSE)

\* check_point_in_clip: the cache afterwards.  It has p, unless p is beyond
\* MinCoord or MaxCoord, and its result is the answer.
CheckPoint(c, p) ==
  LET hits == {i \in DOMAIN region : Covers(region[i], p)} IN
  IF Within(c, p) THEN c
  ELSE IF p[1] < 0 THEN Cache(MinCoord, -1, MinCoord, MaxCoord, FALSE)
  ELSE IF p[2] < 0 THEN Cache(MinCoord, MaxCoord, MinCoord, -1, FALSE)
  ELSE IF p[1] >= Width THEN Cache(Width, MaxCoord, MinCoord, MaxCoord, FALSE)
  ELSE IF p[2] >= Height THEN Cache(MinCoord, MaxCoord, Height, MaxCoord, FALSE)
  ELSE IF region = <<>> THEN Cache(0, Width - 1, 0, Height - 1, TRUE)
  ELSE IF hits # {} THEN CacheOf(region[LeastOf(hits)])
  ELSE Around(p)

-----------------------------------------------------------------------------
(* Lines.  A line makes one step along its longer side at a time; gone[k]  *)
(* is how far it has gone along the shorter one after k steps.             *)

Abs(n) == IF n < 0 THEN -n ELSE n
Sign(n) == IF n < 0 THEN -1 ELSE 1

LongSide(from, to) == Greater(Abs(to[1] - from[1]), Abs(to[2] - from[2]))
ShortSide(from, to) == Lesser(Abs(to[1] - from[1]), Abs(to[2] - from[2]))

LinePoints(from, to, gone) ==
  LET dx == to[1] - from[1]
      dy == to[2] - from[2]
      at(k) == IF Abs(dx) >= Abs(dy)
               THEN <<from[1] + Sign(dx) * k, from[2] + Sign(dy) * gone[k]>>
               ELSE <<from[1] + Sign(dx) * gone[k], from[2] + Sign(dy) * k>>
  IN  IF from = to THEN <<from>> ELSE [i \in 1..(LongSide(from, to) + 1) |-> at(i - 1)]

\* draw_line: rem starts at half the longer side.
ServerLine(from, to) ==
  LET long == LongSide(from, to)
  IN  LinePoints(from, to,
        [k \in 0..long |-> (long \div 2 + k * ShortSide(from, to)) \div long])

\* fb_draw_line: between two points it goes to the second if the longer side runs
\* to the right or down, and else to the first.
ScreenLine(from, to) ==
  LET dx == to[1] - from[1]
      dy == to[2] - from[2]
      onward == IF Abs(dx) > Abs(dy) THEN dx >= 0 ELSE dy >= 0
      long == LongSide(from, to)
      half == IF onward THEN long ELSE long - 1
  IN  LinePoints(from, to,
        [k \in 0..long |-> (2 * k * ShortSide(from, to) + half) \div (2 * long)])

-----------------------------------------------------------------------------
(* Drawing.  A drawing d is the cache, and the points drawn so far.        *)

Paint(d, c, points) ==
  [cache |-> c, drawn |-> IF c.result THEN d.drawn \cup points ELSE d.drawn]

\* draw_point, and each point of a line that may be partly covered.
PaintPoint(d, p) == Paint(d, CheckPoint(d.cache, p), {p})

\* A loop of n rounds.
Repeat(Round(_, _), first, n) ==
  LET after[k \in 0..n] == IF k = 0 THEN first ELSE Round(after[k - 1], k)
  IN  after[n]

\* How many numbers there are from lo to hi.
Count(lo, hi) == Greater(hi - lo + 1, 0)

\* A slip of drawrow and drawcol: they go on with the point after the next.
PaintRunsPastTheEdge(d, at, lo, hi, edge) ==
  LET visit(r, k) ==
        LET i == lo + k - 1
            c == CheckPoint(r.d.cache, at[i])
            end == Lesser(c[edge], hi)
        IN  IF i < r.next THEN r
            ELSE [next |-> end + 2, d |-> Paint(r.d, c, {at[j] : j \in i..end})]
  IN  Repeat(visit, [next |-> lo, d |-> d], Count(lo, hi)).d

\* The loops of drawrow and drawcol over the points at[lo], ..., at[hi]: what the
\* cache has is drawn or left out up to its edge, and what lies before next needs
\* no look.
PaintRuns(d, at, lo, hi, edge) ==
  LET visit(r, k) ==
        LET i == lo + k - 1
            c == CheckPoint(r.d.cache, at[i])
            end == Lesser(c[edge], hi)
        IN  IF i < r.next THEN r
            ELSE [next |-> end + 1, d |-> Paint(r.d, c, {at[j] : j \in i..end})]
  IN  Repeat(visit, [next |-> lo, d |-> d], Count(lo, hi)).d

PaintRow(d, x1, x2, y) ==
  LET lo == Greater(Lesser(x1, x2), 0)
      hi == Lesser(Greater(x1, x2), ScreenWidth - 1)
  IN  PaintRuns(d, [x \in lo..hi |-> <<x, y>>], lo, hi, "maxx")

PaintColumn(d, x, y1, y2) ==
  LET lo == Greater(Lesser(y1, y2), 0)
      hi == Lesser(Greater(y1, y2), ScreenHeight - 1)
  IN  PaintRuns(d, [y \in lo..hi |-> <<x, y>>], lo, hi, "maxy")

\* check_area_in_clip: d after its first corner was looked up.  If the cache has
\* the other corner too, the area is wholly visible or wholly invisible.
CheckCorner(d, from) == [d EXCEPT !.cache = CheckPoint(d.cache, from)]

PointSet(points) == {points[i] : i \in DOMAIN points}

PaintLine(d, from, to) ==
  IF from[2] = to[2] THEN PaintRow(d, from[1], to[1], from[2])
  ELSE IF from[1] = to[1] THEN PaintColumn(d, from[1], from[2], to[2])
  ELSE LET e == CheckCorner(d, from)
           line == ServerLine(from, to)
           next(f, k) == PaintPoint(f, line[k])
       IN  IF Within(e.cache, to)
           THEN Paint(e, e.cache, PointSet(ScreenLine(from, to)))
           ELSE Repeat(next, e, Len(line))

\* draw_rect of a rectangle with inclusive edges.
PaintFrame(d, r) ==
  LET top == PaintRow(d, r.left, r.right, r.top)
      bottom == IF r.bottom > r.top THEN PaintRow(top, r.left, r.right, r.bottom) ELSE top
      left == PaintColumn(bottom, r.left, r.top + 1, r.bottom - 1)
      right == IF r.right > r.left
               THEN PaintColumn(left, r.right, r.top + 1, r.bottom - 1) ELSE left
  IN  IF r.bottom - r.top < 2 THEN bottom ELSE right

\* fill_rect
PaintBox(d, r) ==
  LET e == CheckCorner(d, <<r.left, r.top>>)
      row(f, k) == PaintRow(f, r.left, r.right, r.top + k - 1)
  IN  IF Within(e.cache, <<r.right, r.bottom>>)
      THEN Paint(e, e.cache, (r.left .. r.right) \X (r.top .. r.bottom))
      ELSE Repeat(row, e, Count(r.top, r.bottom))

Painting(q) ==
  LET d == [cache |-> cache, drawn |-> {}]
  IN  CASE q.op = "point" -> PaintPoint(d, q.from)
        [] q.op = "line" -> PaintLine(d, q.from, q.to)
        [] q.op = "rect" -> PaintFrame(d, q.area)
        [] q.op = "fill" -> PaintBox(d, q.area)

-----------------------------------------------------------------------------
\* accept_window: nothing is visible, and everything is in the cache.
ClipInit ==
  /\ cuts = {}
  /\ region = <<>>
  /\ cache = NothingVisible

\* A slip: the cache is left alone.
RecalcWithoutReset(S) ==
  /\ cuts' = S
  /\ region' = Banded(((0..(Width - 2)) \X (0..(Height - 2))) \ UNION {PointsIn(r) : r \in S})
  /\ UNCHANGED cache

\* calc_window_clip: a whole window less what lies on it.
Recalc(S) ==
  /\ cuts' = S
  /\ region' = Banded(((0..(Width - 2)) \X (0..(Height - 2))) \ UNION {PointsIn(r) : r \in S})
  /\ cache' = Reset(region')

\* The handlers of the drawing requests, after the clip has been calculated.
Draw(q) ==
  /\ cache' = Painting(q).cache
  /\ UNCHANGED <<cuts, region>>

ClipNext ==
  \/ \E S \in Cuts : Recalc(S)
  \/ \E q \in Requests : Draw(q)

ClipSpec == ClipInit /\ [][ClipNext]_clipVars

-----------------------------------------------------------------------------
(* Properties *)

\* The points the window may draw at.
Visible == UNION {(r.left .. r.right) \X (r.top .. r.bottom) : r \in PointSet(region)}

\* Lines to the right or down, along their longer side: there both line algorithms
\* choose the same points.
Onward(from, to) ==
  IF Abs(to[1] - from[1]) > Abs(to[2] - from[2]) THEN to[1] >= from[1] ELSE to[2] >= from[2]

OnwardLines == \A q \in Requests : q.op = "line" => Onward(q.from, q.to)

\* The window is not larger than the screen.
FitsTheScreen == Width <= ScreenWidth /\ Height <= ScreenHeight

Wanted(q) ==
  CASE q.op = "point" -> {q.from}
    [] q.op = "line" -> PointSet(ServerLine(q.from, q.to))
    [] q.op = "rect" -> {p \in (q.area.left .. q.area.right) \X (q.area.top .. q.area.bottom) :
                           p[1] \in {q.area.left, q.area.right} \/ p[2] \in {q.area.top, q.area.bottom}}
    [] q.op = "fill" -> (q.area.left .. q.area.right) \X (q.area.top .. q.area.bottom)

\* The cache is true of every point it has, whatever was drawn before: the
\* drawing functions never look at these points again.
CacheIsTrue ==
  \A p \in (MinCoord..MaxCoord) \X (MinCoord..MaxCoord) :
    Within(cache, p) => cache.result = (p \in Visible)

\* Whatever is in the cache, the drawing functions draw what was asked for where
\* the window is visible, and nowhere else.
DrawsWhatIsVisible ==
  \A q \in Requests : Painting(q).drawn = Wanted(q) \cap Visible

=============================================================================
