------------------------------- MODULE WndTree -------------------------------
(***************************************************************************)
(* The tree of windows: accepting, mapping, moving and drawing into them,  *)
(* and finding the one under the pointer (kwgssrv_wnd.c), with the         *)
(* bookkeeping of their clips (calc_window_clip, kwgssrv_clip.c).          *)
(*                                                                         *)
(* A window draws through its clip: a region that calc_window_clip starts  *)
(* from a rectangle and cuts other windows' rectangles out of.  It is      *)
(* calculated when a window draws with need_recalc_clip set, and kept.     *)
(* The model keeps the arguments of these calls (the rectangle and the     *)
(* cuts) and not the region: the arithmetic of regions is another matter.  *)
(* What matters here is that a clip is calculated again when the windows   *)
(* it was calculated from have changed.                                    *)
(*                                                                         *)
(* A change of the tree is one step: it holds the write permit of          *)
(* wnd_stack_sync, and RWSync shows that this excludes everybody else.  A  *)
(* drawing request holds a read permit, beside which others draw; that it  *)
(* is one step here is an abstraction. It leaves out that calc_window_clip *)
(* writes the clips of ancestors, through which their threads may be       *)
(* drawing at that moment.  map_window looks at mapped before it asks for  *)
(* the permit: that is a step of its own.                                  *)
(***************************************************************************)
EXTENDS Integers, FiniteSets, Sequences

CONSTANTS Windows,         \* the windows, without the root window
          root,            \* root_window_ptr
          NULL,
          Width, Height,   \* per window
          Positions        \* coordinates windows are created at and moved to

All == Windows \cup {root}

ASSUME TreeAssumption ==
  /\ IsFiniteSet(Windows) /\ root \notin Windows /\ NULL \notin All
  /\ Width \in [All -> Nat \ {0}] /\ Height \in [All -> Nat \ {0}]
  /\ Positions \subseteq Int \X Int

VARIABLES
  parent,             \* wp->parent; NULL for the root and for a window not accepted yet
  children,           \* wp->children and their siblings links, the topmost first
  pos,                \* wp->x and wp->y, relative to the screen
  mapped,
  need_recalc_clip,
  clip,               \* what the clip was calculated from
  asking,             \* windows whose thread has found them unmapped in map_window
  crashed,            \* the server has dereferenced a null pointer
  last                \* history: the last operation, its window, the exposures it delivered

treeVars == <<parent, children, pos, mapped, need_recalc_clip, clip, asking, crashed, last>>

-----------------------------------------------------------------------------
(* Geometry.  A rectangle has inclusive edges.                             *)

Rect(l, t, w, h) == [left |-> l, top |-> t, right |-> l + w - 1, bottom |-> t + h - 1]

PointsOf(r) == (r.left .. r.right) \X (r.top .. r.bottom)

RectAt(w, p) == Rect(p[1], p[2], Width[w], Height[w])

Area(w) == RectAt(w, pos[w])

\* The rectangle of v relative to w, as it is cut out of the clip of w.
RelativeTo(w, v) ==
  Rect(pos[v][1] - pos[w][1], pos[v][2] - pos[w][2], Width[v], Height[v])

Accepted == {root} \cup {w \in Windows : parent[w] # NULL}

Ancestors(w) ==
  LET up[v \in All] == IF parent[v] = NULL THEN {} ELSE {parent[v]} \cup up[parent[v]]
  IN  up[w]

Tree(w) == {v \in Accepted : v = w \/ w \in Ancestors(v)}

PlaceOf(w) == CHOOSE i \in DOMAIN children[parent[w]] : children[parent[w]][i] = w

\* The siblings before and after w: on top of it and under it.
Above(w) ==
  IF parent[w] = NULL THEN {}
  ELSE {children[parent[w]][i] : i \in 1..(PlaceOf(w) - 1)}

Below(w) ==
  IF parent[w] = NULL THEN {}
  ELSE {children[parent[w]][i] : i \in (PlaceOf(w) + 1)..Len(children[parent[w]])}

Children(w) == {children[w][i] : i \in DOMAIN children[w]}

-----------------------------------------------------------------------------
(* The clip *)

NoClip == [bounds |-> NULL, above |-> {}, inside |-> {}]

\* The part of w that its ancestors leave, as calc_window_clip computes it; NULL
\* if nothing is left.  The code takes width - 1 and height - 1 for the right
\* and bottom edges.
Bounds(w) ==
  LET left == {p \in PointsOf(Area(w)) : \A a \in Ancestors(w) : p \in PointsOf(Area(a))}
      xs == {p[1] : p \in left}
      ys == {p[2] : p \in left}
      minx == CHOOSE i \in xs : \A j \in xs : i <= j
      miny == CHOOSE i \in ys : \A j \in ys : i <= j
  IN  IF left = {} THEN NULL
      ELSE [left |-> minx - pos[w][1], top |-> miny - pos[w][2],
            right |-> Cardinality(xs) - 1, bottom |-> Cardinality(ys) - 1]

MappedRects(w, S) == {RelativeTo(w, v) : v \in {u \in S : mapped[u]}}

\* calc_window_clip, except for the root window: the loop over the ancestors
\* cuts the windows above each ancestor out of the ancestor's own region (wp is
\* the loop's variable), not out of the region it was called for.
CalcClip(w) ==
  [v \in All |->
     CASE v = w ->
            IF Bounds(w) = NULL THEN NoClip
            ELSE [bounds |-> Bounds(w),
                  above |-> MappedRects(w, Above(w)),
                  inside |-> MappedRects(w, Children(w))]
       [] v \in Ancestors(w) \ {root} /\ Bounds(w) # NULL /\ clip[v].bounds # NULL ->
            [clip[v] EXCEPT !.above = @ \cup MappedRects(v, Above(v))]
       [] OTHER -> clip[v]]

-----------------------------------------------------------------------------
(* The windows an operation affects                                        *)

\* check_overlap_wnd
Overlap(v, w) == mapped[v] /\ mapped[w] /\ PointsOf(Area(v)) \cap PointsOf(Area(w)) # {}

\* wndlist_add_all_overlap_siblings_and_children
Overlapped(w) == {v \in UNION {Tree(s) : s \in Below(w)} : Overlap(v, w)}

-----------------------------------------------------------------------------
TreeInit ==
  /\ parent = [w \in All |-> NULL]
  /\ children = [w \in All |-> <<>>]
  /\ pos = [w \in All |-> <<0, 0>>]
  /\ mapped = [w \in All |-> FALSE]
  /\ need_recalc_clip = [w \in All |-> FALSE]
  /\ clip = [w \in All |-> NoClip]
  /\ asking = {}
  /\ crashed = FALSE
  /\ last = [op |-> "none", wnd |-> root, exposed |-> {}]

-----------------------------------------------------------------------------
(* Slips: the steps below with a mistake; TreeNext does not use them.      *)

\* The windows that w comes to lie on are not listed.
MoveFromOldPlaceOnly(w, to) ==
  /\ ~ crashed
  /\ w \in Accepted \ {root}
  /\ LET by == <<to[1] - pos[w][1], to[2] - pos[w][2]>>
         list == Tree(w) \cup Overlapped(w)
     IN  /\ pos' = [v \in All |-> IF v \in Tree(w)
                                  THEN <<pos[v][1] + by[1], pos[v][2] + by[2]>> ELSE pos[v]]
         /\ need_recalc_clip' = [v \in All |-> v \in list \/ need_recalc_clip[v]]
         /\ last' = [op |-> "move", wnd |-> w,
                     exposed |-> {[wnd |-> v, rect |-> Area(w)] : v \in {u \in list : mapped[u]}}]
  /\ UNCHANGED <<parent, children, mapped, clip, asking, crashed>>

\* The exposures are of the window's new place.
MoveExposesNewPlace(w, to) ==
  /\ ~ crashed
  /\ w \in Accepted \ {root}
  /\ UNCHANGED <<parent, children, mapped, clip, asking, crashed>>
  /\ pos' = [v \in All |-> IF v \in Tree(w)
                           THEN <<pos[v][1] + to[1] - pos[w][1], pos[v][2] + to[2] - pos[w][2]>>
                           ELSE pos[v]]
  /\ LET list == Tree(w) \cup Overlapped(w) \cup Overlapped(w)' IN
     /\ need_recalc_clip' = [v \in All |-> v \in list \/ need_recalc_clip[v]]
     /\ last' = [op |-> "move", wnd |-> w,
                 exposed |-> {[wnd |-> v, rect |-> Area(w)'] : v \in {u \in list : mapped[u]}}]

\* A window that is not mapped hides what is under it from the pointer.
FindWindowMappedOrNot(p) ==
  LET find[w \in All] ==
        LET under == {i \in DOMAIN children[w] : p \in PointsOf(Area(children[w][i]))}
        IN  IF under = {} THEN w
            ELSE find[children[w][CHOOSE i \in under : \A j \in under : i <= j]]
  IN  IF mapped[root] /\ p \in PointsOf(Area(root)) THEN find[root] ELSE NULL

-----------------------------------------------------------------------------
(* accept_window: the new window is on top of its parent's other children. *)
(* need_recalc_clip is not set: it is what malloc left there.              *)
AcceptWindow(w, p, at) ==
  /\ ~ crashed
  /\ w \notin Accepted /\ p \in Accepted
  /\ parent' = [parent EXCEPT ![w] = p]
  /\ \E garbage \in BOOLEAN :
       need_recalc_clip' = [need_recalc_clip EXCEPT ![w] = garbage]
  /\ children' = [children EXCEPT ![p] = <<w>> \o @]
  /\ pos' = [pos EXCEPT ![w] = at]
  /\ last' = [op |-> "accept", wnd |-> w, exposed |-> {}]
  /\ UNCHANGED <<mapped, clip, asking, crashed>>

(* map_window, up to get_write_permit *)
CheckMapped(w) ==
  /\ ~ crashed
  /\ w \in Accepted \ asking
  /\ ~ mapped[w]
  /\ asking' = asking \cup {w}
  /\ UNCHANGED <<parent, children, pos, mapped, need_recalc_clip, clip, crashed, last>>

(* map_window, with the permit *)
MapWindow(w) ==
  /\ ~ crashed
  /\ w \in asking
  /\ UNCHANGED <<parent, children, pos, clip, crashed>>
  /\ asking' = asking \ {w}
  /\ mapped' = [v \in All |-> v \in Tree(w) \/ mapped[v]]
  /\ LET list == Tree(w) \cup Overlapped(w)' IN
     /\ need_recalc_clip' = [v \in All |-> v \in list \/ need_recalc_clip[v]]
     /\ last' = [op |-> "map", wnd |-> w,
                 exposed |-> {[wnd |-> v, rect |-> Area(v)] : v \in {u \in list : mapped'[u]}}]

(* move_window, of every window but the root.  Exposures are delivered     *)
(* relative to each window; here they are relative to the screen.          *)
MoveWindow(w, to) ==
  /\ ~ crashed
  /\ w \in Accepted \ {root}
  /\ UNCHANGED <<parent, children, mapped, clip, asking, crashed>>
  /\ pos' = [v \in All |-> IF v \in Tree(w)
                           THEN <<pos[v][1] + to[1] - pos[w][1], pos[v][2] + to[2] - pos[w][2]>>
                           ELSE pos[v]]
  /\ LET list == Tree(w) \cup Overlapped(w) \cup Overlapped(w)' IN
     /\ need_recalc_clip' = [v \in All |-> v \in list \/ need_recalc_clip[v]]
     /\ last' = [op |-> "move", wnd |-> w,
                 exposed |-> {[wnd |-> v, rect |-> Area(w)] : v \in {u \in list : mapped[u]}}]

(* A drawing request, up to the drawing.  To calculate the clip of the     *)
(* root window cuts a mapped child relative to wp, which is NULL then.     *)
Draw(w) ==
  /\ ~ crashed
  /\ w \in Accepted
  /\ need_recalc_clip[w]
  /\ IF w = root /\ mapped[root] /\ \E c \in Children(root) : mapped[c]
     THEN /\ crashed' = TRUE
          /\ UNCHANGED <<need_recalc_clip, clip>>
     ELSE /\ need_recalc_clip' = [need_recalc_clip EXCEPT ![w] = FALSE]
          /\ clip' = IF mapped[w] THEN CalcClip(w) ELSE clip
          /\ UNCHANGED crashed
  /\ last' = [op |-> "draw", wnd |-> w, exposed |-> {}]
  /\ UNCHANGED <<parent, children, pos, mapped, asking>>

\* find_visible_window: down into the first mapped child that has the point.
FindWindow(p) ==
  LET find[w \in All] ==
        LET under == {i \in DOMAIN children[w] : /\ mapped[children[w][i]]
                                                 /\ p \in PointsOf(Area(children[w][i]))}
        IN  IF under = {} THEN w
            ELSE find[children[w][CHOOSE i \in under : \A j \in under : i <= j]]
  IN  IF mapped[root] /\ p \in PointsOf(Area(root)) THEN find[root] ELSE NULL

TreeNext ==
  \/ \E w \in Windows, p \in All, at \in Positions : AcceptWindow(w, p, at)
  \/ \E w \in All : CheckMapped(w)
  \/ \E w \in All : MapWindow(w)
  \/ \E w \in All, to \in Positions : MoveWindow(w, to)
  \/ \E w \in All : Draw(w)

TreeSpec == TreeInit /\ [][TreeNext]_treeVars

-----------------------------------------------------------------------------
(* Properties *)

\* Type invariant: the links make a tree, in which a window is among the
\* children of its parent, once, and of nobody else.
TreeTypeOK ==
  /\ parent \in [All -> All \cup {NULL}]
  /\ pos \in [All -> Int \X Int]
  /\ mapped \in [All -> BOOLEAN]
  /\ need_recalc_clip \in [All -> BOOLEAN]
  /\ asking \subseteq Accepted
  /\ crashed \in BOOLEAN
  /\ \A p \in All :
       /\ Children(p) = {w \in All : parent[w] = p}
       /\ Len(children[p]) = Cardinality(Children(p))

\* What anybody can see of w: the points of w and of all its ancestors that no
\* mapped window above w or above one of its ancestors covers, nor a child.
Visible(w) ==
  LET line == {w} \cup Ancestors(w)
      covering == {v \in Children(w) \cup UNION {Above(a) : a \in line} : mapped[v]}
  IN  IF \E a \in line : ~ mapped[a] THEN {}
      ELSE {p \in PointsOf(Area(w)) :
              /\ \A a \in Ancestors(w) : p \in PointsOf(Area(a))
              /\ \A v \in covering : p \notin PointsOf(Area(v))}

\* The points of w, relative to w, that these rectangles cover.
Covered(w, rects) == PointsOf(RelativeTo(w, w)) \cap UNION {PointsOf(r) : r \in rects}

\* A clip that need not be calculated again is the one that would be calculated
\* now, whatever other threads mapped or moved since, as far as the window's
\* ancestors and the windows above it go.
ClipIsFresh ==
  /\ TreeTypeOK
  /\ \A w \in Windows : mapped[w] /\ ~ need_recalc_clip[w] =>
       /\ clip[w].bounds = Bounds(w)
       /\ Bounds(w) # NULL =>
            Covered(w, clip[w].above) = Covered(w, MappedRects(w, Above(w)))

\* What a map or a move uncovers gets an exposure: every window, but the moved
\* ones and those they are inside of, is told of each point that has become
\* visible.
UncoveredIsExposed ==
  [][\A w \in Accepted :
       \/ /\ last'.op = "move"
          /\ w \in Tree(last'.wnd) \cup Ancestors(last'.wnd)
       \/ Visible(w)' \ Visible(w)
            \subseteq UNION {PointsOf(e.rect) : e \in {f \in last'.exposed : f.wnd = w}}]_treeVars

\* find_visible_window returns the window that is seen at a point.
PointerFindsWhatIsSeen ==
  \A p \in PointsOf(Area(root)) : \A w \in Accepted :
    p \in Visible(w) <=> FindWindow(p) = w

=============================================================================
