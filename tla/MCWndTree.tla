------------------------------ MODULE MCWndTree ------------------------------
(* Instances of WndTree on a screen of a few points. *)
EXTENDS WndTree, TLC

CONSTANTS a, b, c

ThreeWindows == {a, b, c}
WindowSymmetry == Permutations(ThreeWindows)

\* What decides how the system goes on: neither the history variable, nor the
\* clip of a window that is going to be calculated again before it is used.
Drawable(w) == mapped[w] /\ ~ need_recalc_clip[w]
Relevant == <<parent, children, pos, mapped, asking, crashed,
              [w \in All |-> IF Drawable(w) THEN clip[w] ELSE NULL]>>

\* A screen of 3 by 1 and windows of 2 by 1: they can lie side by side, overlap,
\* or stick out of their parent or of the screen.
Row == [w \in All |-> IF w = root THEN 3 ELSE 2]
Flat == [w \in All |-> 1]
RowPositions == {<<0, 0>>, <<1, 0>>}

=============================================================================
