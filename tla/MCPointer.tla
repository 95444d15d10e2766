----------------------------- MODULE MCPointer -----------------------------
(* A screen of 5 by 3 pixels.  The mouse moves right, left and down, far    *)
(* enough to be held at the edges, presses the left and the right button,   *)
(* and overflows.                                                           *)
EXTENDS Pointer

MCPackets ==
  {<<8, 1, 0>>, <<9, 0, 0>>, <<25, 255, 0>>, <<40, 12, 255>>, <<10, 0, 0>>, <<72, 9, 1>>}

\* The tip of the cursor is its hot spot; one pixel in between is transparent.
MCShape == {<<0, 0>>, <<1, 0>>, <<0, 1>>}

MCDrawAt == {<<2, 1>>, <<3, 1>>}

=============================================================================
