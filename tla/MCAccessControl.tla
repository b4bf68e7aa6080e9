-------------------------- MODULE MCAccessControl --------------------------
(* Instances of AccessControl for TLC. *)
EXTENDS AccessControl

CONSTANTS root, ann, h1, h2, p1, p2
=============================================================================
