------------------------------- MODULE MCWire -------------------------------
(* Headers of two bytes; requests without a body, with one, of the largest   *)
(* size the server takes, and larger than the client's buffer.               *)
EXTENDS Wire
=============================================================================
