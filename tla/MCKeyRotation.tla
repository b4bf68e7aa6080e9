--------------------------- MODULE MCKeyRotation ---------------------------
(* Instances of KeyRotation for TLC. *)
EXTENDS KeyRotation, TLC

CONSTANTS h1, h2, h3

Pool1 == {h1}
Pool2 == {h1, h2}
Pool3 == {h1, h2, h3}
Interchangeable == Permutations(Threads)
=============================================================================
