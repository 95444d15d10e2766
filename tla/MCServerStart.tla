--------------------------- MODULE MCServerStart ---------------------------
(* A program that may be there before the server, and the root window.      *)
EXTENDS ServerStart
=============================================================================
