----------------------------- MODULE MCAuditLog -----------------------------
(* Instances of AuditLog for TLC. *)
EXTENDS AuditLog, TLC

CONSTANTS e1, e2, e3, e4, e5

MCEntries == {e1, e2, e3, e4, e5}

\* Three handlers that change and then record, and a lockout, whose handler goes
\* on to record the failed login.
MixedKinds == (e1 :> "after" @@ e2 :> "after" @@ e3 :> "with" @@ e4 :> "alone" @@ e5 :> "after")
Lockout == (e3 :> e4) @@ [e \in MCEntries |-> None]
=============================================================================
