----------------------------- MODULE MCXpmHash -----------------------------
(* Four codes, any colours; the hash functions make all codes collide, make *)
(* runs that overlap, and make searches go round the end of the array.      *)
EXTENDS XpmHash

CONSTANTS a, b, c, d

MCNames == {a, b, c, d}

Hash(w, x, y, z) ==
  [n \in MCNames |-> CASE n = a -> w [] n = b -> x [] n = c -> y [] n = d -> z]

MCHashes ==
  {Hash(0, 0, 0, 0), Hash(0, 1, 2, 3), Hash(1, 0, 1, 5), Hash(7, 6, 0, 2),
   Hash(0, 4, 8, 12), Hash(0, 2, 6, 5)}

=============================================================================
