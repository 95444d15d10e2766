--------------------------- MODULE MCEventDelivery ---------------------------
(* Instances of EventDelivery: a client that creates up to two windows. *)
EXTENDS EventDelivery

CONSTANTS w1, w2

OneWindow == {w1}
TwoWindows == {w1, w2}

EveryRequest == [w \in Windows |-> Requests]

\* Both windows are mapped and get events, and one of them is drawn into.
ShownAndDrawn ==
  [w \in Windows |-> {"selectExposure", "map"} \cup (IF w = w1 THEN {"draw"} ELSE {})]

=============================================================================
