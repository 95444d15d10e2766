----------------------------- MODULE EventFIFO ------------------------------
(***************************************************************************)
(* What a window's event queue promises: the events delivered to a window  *)
(* are handed over one at a time, each once, in the order of delivery.     *)
(* Events are numbered in that order.                                      *)
(***************************************************************************)
EXTENDS Naturals, Sequences

VARIABLES delivered,  \* the number of the event delivered last
          pending,    \* the events delivered and not yet handed over
          handed      \* the number of events handed over

vars == <<delivered, pending, handed>>

Init ==
  /\ delivered = 0
  /\ pending = <<>>
  /\ handed = 0

Deliver ==
  /\ delivered' = delivered + 1
  /\ pending' = Append(pending, delivered')
  /\ UNCHANGED handed

HandOver ==
  /\ pending # <<>>
  /\ Head(pending) = handed + 1
  /\ pending' = Tail(pending)
  /\ handed' = handed + 1
  /\ UNCHANGED delivered

Next == Deliver \/ HandOver

Spec == Init /\ [][Next]_vars

=============================================================================
