------------------------------ MODULE MCRegion ------------------------------
(* Instances of Region: every region of a screen of 3 by 3 points, less or   *)
(* with a rectangle or a region of two rows.                                 *)
EXTENDS Region

Screen == (0..(Columns - 1)) \X (0..(Rows - 1))

AnyRegion == (SUBSET Screen) \ {{}}

Rectangles ==
  {(l..r) \X (t..b) : l \in 0..2, r \in 0..2, t \in 0..2, b \in 0..2} \ {{}}

\* Rectangles, as calc_window_clip cuts them out, and the regions of two rows.
Cutters == Rectangles \cup {S \in AnyRegion : \A p \in S : p[2] < 2}

=============================================================================
