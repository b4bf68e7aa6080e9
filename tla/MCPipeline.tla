----------------------------- MODULE MCPipeline -----------------------------
(* Instances of Pipeline for TLC. *)
EXTENDS Pipeline, TLC

CONSTANTS h1, h2, v1, v2, r1, r2

Interchangeable == Permutations(Handlers)

=============================================================================
