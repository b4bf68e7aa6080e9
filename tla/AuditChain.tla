----------------------------- MODULE AuditChain -----------------------------
(***************************************************************************)
(* What a hash-chained log promises when the appends to it do not exclude  *)
(* one another: a sequence of confirmed entries that grows at its end,     *)
(* each entry recorded once, for as long as no append that was overtaken   *)
(* by another has forked it; after that nothing is confirmed any more.     *)
(***************************************************************************)
EXTENDS Sequences, Naturals

CONSTANT Entries   \* the entries that may be recorded

VARIABLES
  chain,      \* the entries a verification confirms, oldest first
  sound,      \* nothing has forked the log
  overtaken   \* an append under way has read an end that is no longer the end

Init == chain = <<>> /\ sound = TRUE /\ overtaken = FALSE

Recorded == {chain[i] : i \in 1..Len(chain)}

\* An append that was not overtaken; it may overtake others.
Record(e) ==
  /\ sound /\ sound' = TRUE
  /\ e \notin Recorded
  /\ chain' = Append(chain, e)
  /\ overtaken' \in BOOLEAN

\* An overtaken append takes a place that is taken: verification ends before it.
Fork ==
  /\ overtaken /\ overtaken' \in BOOLEAN
  /\ sound' = FALSE
  /\ \E n \in 0..(Len(chain) - 1) : chain' = SubSeq(chain, 1, n)

\* An append behind a fork.
Bury ==
  /\ ~sound
  /\ overtaken' \in BOOLEAN
  /\ UNCHANGED <<chain, sound>>

\* The overtaken appends fail.
GiveUp ==
  /\ overtaken' = FALSE
  /\ UNCHANGED <<chain, sound>>

Next == (\E e \in Entries : Record(e)) \/ Fork \/ Bury \/ GiveUp

Spec == Init /\ [][Next]_<<chain, sound, overtaken>>
=============================================================================
