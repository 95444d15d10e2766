---------------------------- MODULE MCEventQueue ----------------------------
(* Instances of EventQueue with a heap of a few nodes. *)
EXTENDS EventQueue, TLC

CONSTANTS n1, n2, n3

Heap == {n1, n2, n3}

NodeSymmetry == Permutations(Heap)

=============================================================================
