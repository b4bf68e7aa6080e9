----------------------------- MODULE MCSessions -----------------------------
(* Instances of Sessions for TLC. *)
EXTENDS Sessions, TLC

CONSTANTS h1, h2, h3, alice, bob

Pool1 == {h1}
Pool2 == {h1, h2}
Pool3 == {h1, h2, h3}
Interchangeable == Permutations(Threads)
=============================================================================
