------------------------------ MODULE MCLogin ------------------------------
(* Instances of Login for TLC. *)
EXTENDS Login, TLC

CONSTANTS h1, h2

Interchangeable == Permutations(Handlers)
=============================================================================
