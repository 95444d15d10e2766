------------------------------ MODULE MCRWSync ------------------------------
(***************************************************************************)
(* An instance of RWSync: window threads draw, some of them map, the main  *)
(* thread only accepts windows.                                            *)
(***************************************************************************)
EXTENDS RWSync

CONSTANTS w1, w2, w3, main

ThreeWindows == {w1, w2, w3}
Mappers == {w1, w2, main}

=============================================================================
