--------------------------- MODULE TokenFamilies ---------------------------
(***************************************************************************)
(* What rotating refresh tokens promise: a session has one token at a      *)
(* time, each use replaces it by a token never in use before, and a        *)
(* session that has been closed stays closed.                              *)
(***************************************************************************)
EXTENDS Naturals

CONSTANT MaxTokens   \* bound on the tokens ever in use

Tokens == 1..MaxTokens

VARIABLES
  holder,   \* the token in use of each session, 0 before it is opened and after it is closed
  used      \* every token that is or was in use; a session is named by its first

Init ==
  /\ holder = [f \in Tokens |-> 0]
  /\ used = {}

Use(f, t) ==
  /\ t \in Tokens \ used
  /\ used' = used \cup {t}
  /\ holder' = [holder EXCEPT ![f] = t]

Open(t) == Use(t, t)

Rotate(f, t) == holder[f] # 0 /\ Use(f, t)

Close(sessions) ==
  /\ holder' = [f \in Tokens |-> IF f \in sessions THEN 0 ELSE holder[f]]
  /\ UNCHANGED used

Next ==
  \/ \E t \in Tokens : Open(t)
  \/ \E f, t \in Tokens : Rotate(f, t)
  \/ \E sessions \in SUBSET Tokens : Close(sessions)

Spec == Init /\ [][Next]_<<holder, used>>
=============================================================================
