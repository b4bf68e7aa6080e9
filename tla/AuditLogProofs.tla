--------------------------- MODULE AuditLogProofs ---------------------------
(***************************************************************************)
(* Proofs about AuditLog, for any set of entries, any mixture of handlers, *)
(* any pool size and either database.                                      *)
(***************************************************************************)
EXTENDS AuditLog, Sequences, FiniteSetTheorems, TLAPS

-----------------------------------------------------------------------------
(* Type correctness.                                                       *)

LEMMA InitTyped == Init => TypeOK
  BY NoneAssumption, FS_EmptySet DEF Init, TypeOK

\* Whatever a handler derives from a read of typed rows is a sequence number.
LEMMA NextAfterTyped ==
  ASSUME NEW rows, \A r \in rows : r.seq \in Nat, NEW b \in NextAfter(rows)
  PROVE  b.seq \in Nat \ {0}
  BY DEF NextAfter, Greatest

\* A step of any kind keeps the types.
LEMMA StepTyped == TypeOK /\ [Next]_vars => TypeOK'
  <1> SUFFICES ASSUME TypeOK, [Next]_vars PROVE TypeOK'
    OBVIOUS
  <1> USE DEF TypeOK
  <1>1. ASSUME NEW e \in Entries, Arrive(e) PROVE TypeOK'
    BY <1>1 DEF Arrive
  <1>2. ASSUME NEW e \in Entries, CommitChange(e) PROVE TypeOK'
    BY <1>2 DEF CommitChange
  <1>3. ASSUME NEW e \in Entries, FlushChange(e) PROVE TypeOK'
    BY <1>3 DEF FlushChange
  <1>4. ASSUME NEW e \in Entries, ReadLast(e) PROVE TypeOK'
    <2>1. PICK b \in NextAfter(log) : base' = [base EXCEPT ![e] = b]
      BY <1>4 DEF ReadLast
    <2>2. b.seq \in Nat \ {0}
      BY NextAfterTyped DEF RowOK
    <2> QED BY <1>4, <2>1, <2>2 DEF ReadLast
  <1>5. ASSUME NEW e \in Entries, Insert(e) PROVE TypeOK'
    <2> DEFINE new == Row(base[e].seq, e, base[e].prev)
    <2>1. RowOK(new)
      BY <1>5 DEF Insert, RowOK, Row
    <2>2. \A r \in log' : RowOK(r)
      BY <1>5, <2>1 DEF Insert
    <2>3. IsFiniteSet(log')
      BY <1>5, FS_AddElement DEF Insert
    <2> QED BY <1>5, <2>2, <2>3 DEF Insert, GoOn
  <1>6. ASSUME NEW e \in Entries, Fail(e) PROVE TypeOK'
    BY <1>6 DEF Fail
  <1>7. CASE Crash
    BY <1>7 DEF Crash
  <1>8. CASE UNCHANGED vars
    BY <1>8 DEF vars
  <1> QED
    BY <1>1, <1>2, <1>3, <1>4, <1>5, <1>6, <1>7, <1>8 DEF Next, Handle, Finished

\* Spec keeps every variable of the model within its type.
THEOREM Typing == Spec => []TypeOK
  BY InitTyped, StepTyped, PTL DEF Spec

-----------------------------------------------------------------------------
(* The shape of the log.                                                   *)

\* A handler that has read continues a row that is still in the log, whatever
\* has been appended since: rows are only added.
BaseContinues ==
  \A e \in Entries : pc[e] = "loaded" => Continues(base[e].seq, base[e].prev)

LinkInv == Linked /\ BaseContinues

\* What a read derives continues the log it read.
LEMMA NextAfterContinues ==
  ASSUME NEW b \in NextAfter(log)
  PROVE  Continues(b.seq, b.prev)
  BY DEF NextAfter, Greatest, Continues

\* Continuing a log is continuing any log that has its rows.
LEMMA ContinuesStays ==
  ASSUME log \subseteq log', NEW seq, NEW prev, Continues(seq, prev)
  PROVE  Continues(seq, prev)'
  BY DEF Continues

LEMMA StepLinked == TypeOK /\ LinkInv /\ [Next]_vars => LinkInv'
  <1> SUFFICES ASSUME TypeOK, LinkInv, [Next]_vars PROVE LinkInv'
    OBVIOUS
  <1> USE DEF LinkInv, Linked, BaseContinues
  <1>1. ASSUME log' = log, base' = base,
               \A e \in Entries : pc'[e] = "loaded" => pc[e] = "loaded"
        PROVE  LinkInv'
    BY <1>1 DEF Continues
  <1>2. ASSUME NEW e \in Entries, ReadLast(e) PROVE LinkInv'
    <2>1. PICK b \in NextAfter(log) : base' = [base EXCEPT ![e] = b]
      BY <1>2 DEF ReadLast
    <2>2. log' = log /\ pc' = [pc EXCEPT ![e] = "loaded"]
      BY <1>2 DEF ReadLast
    <2>3. Linked'
      BY <2>2 DEF Continues
    <2>4. ASSUME NEW f \in Entries, pc'[f] = "loaded"
          PROVE  Continues(base'[f].seq, base'[f].prev)
      BY <2>1, <2>2, <2>4, NextAfterContinues DEF TypeOK
    <2> QED BY <2>2, <2>3, <2>4 DEF Continues
  <1>3. ASSUME NEW e \in Entries, Insert(e) PROVE LinkInv'
    <2>1. /\ log' = log \cup {Row(base[e].seq, e, base[e].prev)}
          /\ base' = base
          /\ pc[e] = "loaded"
          /\ \A f \in Entries : pc'[f] = "loaded" => pc[f] = "loaded"
      BY <1>3 DEF Insert, GoOn
    <2>2. ASSUME NEW r \in log' PROVE Continues(r.seq, r.prev)'
      <3>1. Continues(r.seq, r.prev)
        BY <2>1 DEF Row
      <3> QED BY <2>1, <3>1, ContinuesStays
    <2>3. ASSUME NEW f \in Entries, pc'[f] = "loaded"
          PROVE  Continues(base[f].seq, base[f].prev)'
      <3>1. Continues(base[f].seq, base[f].prev)
        BY <2>1, <2>3 DEF TypeOK
      <3> QED BY <2>1, <3>1 DEF Continues
    <2> QED BY <2>1, <2>2, <2>3
  <1>4. ASSUME NEW e \in Entries, Arrive(e) \/ CommitChange(e) \/ FlushChange(e) \/ Fail(e)
        PROVE  LinkInv'
    BY <1>1, <1>4 DEF Arrive, CommitChange, FlushChange, Fail, TypeOK
  <1>5. CASE Crash
    BY <1>1, <1>5 DEF Crash, TypeOK
  <1>6. CASE UNCHANGED vars
    BY <1>1, <1>6 DEF vars
  <1> QED
    BY <1>2, <1>3, <1>4, <1>5, <1>6 DEF Next, Handle, Finished

\* However appends race, fail or crash, every row of the log continues a row of
\* the log, so sequence numbers have no gap and no row is orphaned.
THEOREM LogIsLinked == Spec => []Linked
  <1>1. Init => LinkInv
    BY DEF Init, LinkInv, Linked, BaseContinues
  <1> QED BY <1>1, Typing, StepLinked, PTL DEF Spec, LinkInv

-----------------------------------------------------------------------------
(* What verify_chain reports about a linked log.                           *)

LEMMA RowHash ==
  ASSUME NEW r, RowOK(r)
  PROVE  r.hash = Digest(r.seq, r.body, r.prev)
  <1>1. r = [seq |-> r.seq, body |-> r.body, prev |-> r.prev,
             hash |-> Digest(r.seq, r.body, r.prev)]
    BY DEF RowOK
  <1> QED BY <1>1

\* The order of a query over the log, position by position.
LEMMA OrderFacts ==
  ASSUME TypeOK, NEW s \in OrdersBySeq(log)
  PROVE  /\ \E n \in Nat : DOMAIN s = 1..n
         /\ \A i \in DOMAIN s : /\ s[i] \in log
                                 /\ s[i].seq \in Nat \ {0}
                                 /\ s[i].hash = Digest(s[i].seq, s[i].body, s[i].prev)
         /\ \A r \in log : \E i \in DOMAIN s : s[i] = r
         /\ \A i, j \in DOMAIN s : i < j => s[i] # s[j] /\ s[i].seq <= s[j].seq
  <1>1. Cardinality(log) \in Nat
    BY FS_CardinalityType DEF TypeOK
  <1>2. s \in [1..Cardinality(log) -> log]
    BY DEF OrdersBySeq
  <1>3. \A i \in DOMAIN s : s[i] \in log /\ RowOK(s[i])
    BY <1>1, <1>2 DEF TypeOK
  <1>4. \A i \in DOMAIN s : s[i].seq \in Nat \ {0}
    BY <1>3 DEF RowOK
  <1>5. \A i \in DOMAIN s : s[i].hash = Digest(s[i].seq, s[i].body, s[i].prev)
    BY <1>3, RowHash
  <1> QED BY <1>1, <1>2, <1>3, <1>4, <1>5 DEF OrdersBySeq

\* A row that follows a row with its own sequence number does not continue it.
LEMMA TiedIsBad ==
  ASSUME TypeOK, Linked, NEW s \in OrdersBySeq(log), NEW i \in DOMAIN s,
         i > 1, i - 1 \in DOMAIN s, s[i - 1].seq = s[i].seq
  PROVE  Bad(s, i)
  <1>1. /\ s[i - 1].hash = Digest(s[i - 1].seq, s[i - 1].body, s[i - 1].prev)
        /\ s[i].seq \in Nat /\ s[i] \in log
    BY OrderFacts
  <1>2. Continues(s[i].seq, s[i].prev)
    BY <1>1 DEF Linked
  <1>3. s[i - 1].hash # s[i].prev
    <2>1. CASE s[i].prev = GENESIS
      BY <1>1, <2>1 DEF Digest, GENESIS
    <2>2. CASE \E r \in log : s[i].seq = r.seq + 1 /\ s[i].prev = r.hash
      <3>1. PICK r \in log : s[i].seq = r.seq + 1 /\ s[i].prev = r.hash
        BY <2>2
      <3>2. r.hash = Digest(r.seq, r.body, r.prev) /\ r.seq \in Nat
        BY RowHash DEF TypeOK, RowOK
      <3> QED BY <1>1, <3>1, <3>2 DEF Digest
    <2> QED BY <1>2, <2>1, <2>2 DEF Continues
  <1> QED BY <1>3, i # 1 DEF Bad, PrevHash

\* Two positions with one sequence number make the later one bad.
LEMMA ForkIsBad ==
  ASSUME TypeOK, Linked, NEW s \in OrdersBySeq(log),
         NEW p \in DOMAIN s, NEW q \in DOMAIN s, p < q, s[p].seq = s[q].seq
  PROVE  Bad(s, q)
  <1>1. PICK n \in Nat : DOMAIN s = 1..n
    BY OrderFacts
  <1>2. q > 1 /\ q - 1 \in DOMAIN s /\ p <= q - 1
    BY <1>1
  <1>3. s[p].seq <= s[q - 1].seq /\ s[q - 1].seq <= s[q].seq
    BY SMTT(40), <1>1, <1>2, OrderFacts
  <1>4. s[q - 1].seq = s[q].seq
    BY <1>2, <1>3, OrderFacts
  <1> QED BY <1>2, <1>4, TiedIsBad

\* A row that is bad although its predecessor has another sequence number
\* continues a row that shares the predecessor's number.
LEMMA BadFollowsFork ==
  ASSUME TypeOK, Linked, NEW s \in OrdersBySeq(log), NEW i \in DOMAIN s, Bad(s, i)
  PROVE  /\ i > 1 /\ i - 1 \in DOMAIN s
         /\ \/ s[i - 1].seq = s[i].seq
            \/ \E k \in DOMAIN s : k < i - 1 /\ s[k].seq = s[i - 1].seq
  <1>1. PICK n \in Nat : DOMAIN s = 1..n
    BY OrderFacts
  <1>2. s[i].hash = Digest(s[i].seq, s[i].body, s[i].prev) /\ s[i] \in log
    BY OrderFacts
  <1>3. s[i].prev # PrevHash(s, i)
    BY <1>2 DEF Bad
  <1>4. CASE s[i].seq = 1 /\ s[i].prev = GENESIS
    <2>1. i > 1 /\ i - 1 \in DOMAIN s
      BY <1>1, <1>3, <1>4 DEF PrevHash
    <2>2. s[i - 1].seq = s[i].seq
      BY <1>4, <2>1, OrderFacts
    <2> QED BY <2>1, <2>2
  <1>5. CASE \E r \in log : s[i].seq = r.seq + 1 /\ s[i].prev = r.hash
    <2>1. PICK k \in DOMAIN s : s[i].seq = s[k].seq + 1 /\ s[i].prev = s[k].hash
      BY <1>5, OrderFacts
    <2>2. k < i
      BY <1>1, <2>1, OrderFacts
    <2>3. i > 1 /\ i - 1 \in DOMAIN s /\ k <= i - 1
      BY <1>1, <2>2
    <2>4. k # i - 1
      BY <1>3, <2>1, <2>3 DEF PrevHash
    <2>5. k < i - 1 /\ s[k].seq <= s[i - 1].seq /\ s[i - 1].seq <= s[i].seq
      <3>1. i \in Int /\ k \in Int /\ k < i - 1 /\ i - 1 < i
        BY <1>1, <2>3, <2>4
      <3>2. \A a, b \in DOMAIN s : a < b => s[a].seq <= s[b].seq
        BY OrderFacts
      <3> QED BY <2>3, <3>1, <3>2
    <2>6. s[k].seq \in Nat /\ s[i - 1].seq \in Nat /\ s[i].seq \in Nat
      BY <2>3, OrderFacts
    <2> QED BY <2>1, <2>3, <2>5, <2>6
  <1> QED BY <1>2, <1>4, <1>5 DEF Linked, Continues

\* The first bad row of a linked log is the second row of its smallest fork.
LEMMA FirstBadIsFirstFork ==
  ASSUME TypeOK, Linked
  PROVE  VerdictIsFirstFork
  <1> SUFFICES ASSUME NEW s \in OrdersBySeq(log), NEW i \in DOMAIN s, FirstBad(s, i)
               PROVE  /\ ForkAt(log, s[i].seq)
                      /\ \A j \in DOMAIN s : ForkAt(log, s[j].seq) => s[i].seq <= s[j].seq
    BY DEF VerdictIsFirstFork
  <1>1. PICK n \in Nat : DOMAIN s = 1..n
    BY OrderFacts
  <1>2. i > 1 /\ i - 1 \in DOMAIN s /\ i - 1 \in 1..(i - 1)
    BY <1>1, BadFollowsFork DEF FirstBad
  <1>3. s[i - 1].seq = s[i].seq
    <2>1. ASSUME NEW k \in DOMAIN s, k < i - 1, s[k].seq = s[i - 1].seq PROVE FALSE
      BY <1>2, <2>1, ForkIsBad DEF FirstBad
    <2> QED BY <2>1, BadFollowsFork DEF FirstBad
  <1>4. ForkAt(log, s[i].seq)
    <2>1. s[i - 1] # s[i] /\ s[i - 1] \in log /\ s[i] \in log
      BY <1>1, <1>2, OrderFacts
    <2> QED BY <1>3, <2>1 DEF ForkAt
  <1>5. ASSUME NEW j \in DOMAIN s, ForkAt(log, s[j].seq), ~(s[i].seq <= s[j].seq)
        PROVE  FALSE
    <2>1. PICK p \in DOMAIN s, q \in DOMAIN s :
             s[p] # s[q] /\ s[p].seq = s[j].seq /\ s[q].seq = s[j].seq
      BY <1>5, OrderFacts DEF ForkAt
    <2>2. PICK a \in DOMAIN s, b \in DOMAIN s :
             a < b /\ s[a].seq = s[j].seq /\ s[b].seq = s[j].seq
      BY <1>1, <2>1
    <2>3. Bad(s, b)
      BY <2>2, ForkIsBad
    <2>4. s[b].seq < s[i].seq
      BY <1>5, <2>2, OrderFacts
    <2>5. b < i
      BY <1>1, <2>4, OrderFacts
    <2> QED BY <1>1, <2>3, <2>5 DEF FirstBad
  <1> QED BY <1>4, <1>5

\* A fork never goes unreported.
LEMMA ForksReported ==
  ASSUME TypeOK, Linked
  PROVE  ForkIsReported
  <1> SUFFICES ASSUME NEW s \in OrdersBySeq(log), NEW j \in DOMAIN s, ForkAt(log, s[j].seq)
               PROVE  \E i \in DOMAIN s : Bad(s, i)
    BY DEF ForkIsReported, Intact
  <1>1. PICK n \in Nat : DOMAIN s = 1..n
    BY OrderFacts
  <1>2. PICK p \in DOMAIN s, q \in DOMAIN s :
           s[p] # s[q] /\ s[p].seq = s[j].seq /\ s[q].seq = s[j].seq
    BY OrderFacts DEF ForkAt
  <1>3. PICK a \in DOMAIN s, b \in DOMAIN s :
           a < b /\ s[a].seq = s[j].seq /\ s[b].seq = s[j].seq
    BY <1>1, <1>2
  <1> QED BY <1>3, ForkIsBad

\* On a log nobody altered, verify_chain objects exactly when two appends have
\* raced, and reports the smallest sequence number that two rows share, in
\* whatever order ties are returned.
THEOREM VerdictTheorem == Spec => []VerdictIsExact
  <1>1. TypeOK /\ Linked => VerdictIsExact
    BY FirstBadIsFirstFork, ForksReported DEF VerdictIsExact
  <1> QED BY <1>1, Typing, LogIsLinked, PTL

\* A log in which no two rows share a number verifies, in its only order.
LEMMA UnforkedIsIntact ==
  ASSUME TypeOK, Linked, ~Forked(log), NEW s \in OrdersBySeq(log)
  PROVE  Intact(s)
  <1> SUFFICES ASSUME NEW i \in DOMAIN s, Bad(s, i) PROVE FALSE
    BY DEF Intact
  <1>1. PICK n \in Nat : DOMAIN s = 1..n
    BY OrderFacts
  <1>2. PICK k \in DOMAIN s, l \in DOMAIN s : k < l /\ s[k].seq = s[l].seq
    BY <1>1, BadFollowsFork
  <1>3. s[k] # s[l] /\ s[k] \in log /\ s[l] \in log
    BY <1>2, OrderFacts
  <1> QED BY <1>2, <1>3 DEF Forked, ForkAt

-----------------------------------------------------------------------------
(* When the log does not fork.                                             *)

\* At most one handler is between its read of the tip and its insert.
Exclusive ==
  \A e, f \in Entries : pc[e] = "loaded" /\ pc[f] = "loaded" => e = f

\* What a handler read is still the tip.
Fresh == \A e \in Entries : pc[e] = "loaded" => base[e] \in NextAfter(log)

\* The sequence numbers are exactly 1 to the number of rows.
Dense ==
  \A i \in Nat : (\E r \in log : r.seq = i) <=> i \in 1..Cardinality(log)

ChainInv == Fresh /\ Dense /\ ~Forked(log)

LEMMA InitChain == Init => ChainInv
  <1> SUFFICES ASSUME Init PROVE ChainInv
    OBVIOUS
  <1>1. Cardinality(log) = 0
    BY FS_EmptySet DEF Init
  <1> QED BY <1>1 DEF Init, ChainInv, Fresh, Dense, Forked

\* What a fresh read derives is one past the number of rows.
LEMMA FreshSeq ==
  ASSUME TypeOK, Dense, NEW b \in NextAfter(log)
  PROVE  /\ b.seq = Cardinality(log) + 1
         /\ \A r \in log : r.seq # b.seq
  <1>1. Cardinality(log) \in Nat /\ (log # {} => Cardinality(log) # 0)
    BY FS_CardinalityType, FS_EmptySet DEF TypeOK
  <1>2. \A r \in log : r.seq \in Nat \ {0} /\ r.seq <= Cardinality(log)
    BY <1>1 DEF Dense, TypeOK, RowOK
  <1>3. CASE log = {}
    BY <1>3, FS_EmptySet DEF NextAfter
  <1>4. CASE log # {}
    <2>1. PICK e \in Greatest(log) : b = [seq |-> e.seq + 1, prev |-> e.hash]
      BY <1>4 DEF NextAfter
    <2>2. PICK r \in log : r.seq = Cardinality(log)
      BY <1>1, <1>4 DEF Dense
    <2>3. e \in log /\ Cardinality(log) <= e.seq
      BY <2>1, <2>2 DEF Greatest
    <2> QED BY <1>1, <1>2, <2>1, <2>3
  <1> QED BY <1>3, <1>4

\* An insert after a fresh read adds the next row.
LEMMA FreshInsert ==
  ASSUME TypeOK, ChainInv, NEW e \in Entries, Insert(e)
  PROVE  LET n == Cardinality(log)
             new == Row(n + 1, e, base[e].prev)
         IN  /\ n \in Nat
             /\ log' = log \cup {new}
             /\ new \notin log
             /\ \A r \in log : r.seq \in 1..n
             /\ Cardinality(log') = n + 1
  <1> DEFINE n == Cardinality(log)
             new == Row(n + 1, e, base[e].prev)
  <1>1. base[e] \in NextAfter(log)
    BY DEF Insert, ChainInv, Fresh
  <1>2. base[e].seq = n + 1 /\ \A r \in log : r.seq # n + 1
    BY <1>1, FreshSeq DEF ChainInv
  <1>3. log' = log \cup {new}
    BY <1>2 DEF Insert
  <1>4. new.seq = n + 1
    BY DEF Row
  <1>5. new \notin log
    BY <1>2, <1>4
  <1>6. Cardinality(log') = n + 1
    BY <1>3, <1>5, FS_AddElement DEF TypeOK
  <1>7. n \in Nat
    BY FS_CardinalityType DEF TypeOK
  <1>8. \A r \in log : r.seq \in 1..n
    BY DEF ChainInv, Dense, TypeOK, RowOK
  <1> QED BY <1>3, <1>5, <1>6, <1>7, <1>8

\* Appends that exclude each other keep the log a single chain.
LEMMA StepChain == TypeOK /\ Exclusive /\ ChainInv /\ [Next]_vars => ChainInv'
  <1> SUFFICES ASSUME TypeOK, Exclusive, ChainInv, [Next]_vars PROVE ChainInv'
    OBVIOUS
  <1>1. ASSUME log' = log, base' = base,
               \A e \in Entries : pc'[e] = "loaded" => pc[e] = "loaded"
        PROVE  ChainInv'
    BY <1>1 DEF ChainInv, Fresh, Dense, Forked, ForkAt
  <1>2. ASSUME NEW e \in Entries, ReadLast(e) PROVE ChainInv'
    <2>1. /\ log' = log
          /\ base'[e] \in NextAfter(log)
          /\ \A f \in Entries \ {e} : base'[f] = base[f] /\ pc'[f] = pc[f]
      BY <1>2 DEF ReadLast, TypeOK
    <2>2. Fresh'
      BY <2>1 DEF ChainInv, Fresh
    <2> QED BY <2>1, <2>2 DEF ChainInv, Dense, Forked, ForkAt
  <1>3. ASSUME NEW e \in Entries, Insert(e) PROVE ChainInv'
    <2> DEFINE n == Cardinality(log)
               new == Row(n + 1, e, base[e].prev)
    <2>1. /\ n \in Nat
          /\ log' = log \cup {new}
          /\ new \notin log
          /\ \A r \in log : r.seq \in 1..n
          /\ Cardinality(log') = n + 1
      BY <1>3, FreshInsert
    <2>2. new.seq = n + 1
      BY DEF Row
    <2>3. \A f \in Entries : pc'[f] # "loaded"
      BY <1>3 DEF Insert, GoOn, Exclusive, TypeOK
    <2>4. Dense'
      <3> SUFFICES ASSUME NEW i \in Nat
                   PROVE  (\E r \in log' : r.seq = i) <=> i \in 1..Cardinality(log')
        BY DEF Dense
      <3>1. (\E r \in log' : r.seq = i) <=> (\E r \in log : r.seq = i) \/ i = n + 1
        BY <2>1, <2>2
      <3>2. (\E r \in log : r.seq = i) <=> i \in 1..n
        BY DEF ChainInv, Dense
      <3> QED BY <2>1, <3>1, <3>2
    <2>5. ~Forked(log')
      <3> HIDE DEF new, n
      <3>1. \A r, q \in log : r # q => r.seq # q.seq
        BY DEF ChainInv, Forked, ForkAt
      <3>2. \A r \in log : r.seq # new.seq
        BY <2>1, <2>2
      <3> QED BY <2>1, <3>1, <3>2 DEF Forked, ForkAt
    <2> QED BY <2>3, <2>4, <2>5 DEF ChainInv, Fresh
  <1>4. ASSUME NEW e \in Entries, Arrive(e) \/ CommitChange(e) \/ FlushChange(e) \/ Fail(e)
        PROVE  ChainInv'
    BY <1>1, <1>4 DEF Arrive, CommitChange, FlushChange, Fail, TypeOK
  <1>5. CASE Crash
    BY <1>1, <1>5 DEF Crash, TypeOK
  <1>6. CASE UNCHANGED vars
    BY <1>1, <1>6 DEF vars
  <1> QED
    BY <1>2, <1>3, <1>4, <1>5, <1>6 DEF Next, Handle, Finished

\* Exclusive appends make every verification succeed.
LEMMA ExclusiveIsIntact ==
  ASSUME TypeOK, Linked, ChainInv
  PROVE  ChainIsIntact
  BY UnforkedIsIntact DEF ChainInv, ChainIsIntact

-----------------------------------------------------------------------------
(* One handler at a time.                                                  *)

OneActive == \A e, f \in Entries : Active(e) /\ Active(f) => e = f

LEMMA StepOneActive ==
  ASSUME PoolSize = 1
  PROVE  TypeOK /\ OneActive /\ [Next]_vars => OneActive'
  <1> SUFFICES ASSUME TypeOK, OneActive, [Next]_vars PROVE OneActive'
    OBVIOUS
  <1>1. ASSUME \A e \in Entries : Active(e)' => Active(e) PROVE OneActive'
    BY <1>1 DEF OneActive
  <1>2. ASSUME NEW e \in Entries, Arrive(e) PROVE OneActive'
    <2>1. ASSUME NEW g \in Busy PROVE FALSE
      <3>1. Busy = {g}
        BY <2>1 DEF OneActive, Busy
      <3>2. Cardinality(Busy) = 1
        BY <3>1, FS_Singleton
      <3> QED BY <1>2, <3>2 DEF Arrive
    <2>2. \A f \in Entries \ {e} : ~Active(f)'
      BY <1>2, <2>1 DEF Arrive, Active, Busy, TypeOK
    <2> QED BY <2>2 DEF OneActive
  <1>3. ASSUME NEW e \in Entries, CommitChange(e) \/ FlushChange(e) \/ ReadLast(e) \/ Fail(e)
        PROVE  OneActive'
    BY <1>1, <1>3 DEF CommitChange, FlushChange, ReadLast, Fail, Active, TypeOK
  <1>6. ASSUME NEW e \in Entries, Insert(e) PROVE OneActive'
    <2>1. \A f \in Entries : Active(f)' => f # e /\ (f = Follow[e] \/ Active(f))
      BY <1>6 DEF Insert, GoOn, Active
    <2>2. \A f \in Entries : Active(f)' => f = Follow[e]
      BY <1>6, <2>1 DEF OneActive, Active, Insert
    <2> QED BY <2>2 DEF OneActive
  <1>4. CASE Crash
    BY <1>1, <1>4 DEF Crash, Active, TypeOK
  <1>5. CASE UNCHANGED vars
    BY <1>1, <1>5 DEF vars, Active
  <1> QED
    BY <1>2, <1>3, <1>4, <1>5, <1>6 DEF Next, Handle, Finished

\* With one handler at a time the chain verifies in every reachable state,
\* whatever fails or crashes in between.
THEOREM SerialIsIntact ==
  ASSUME PoolSize = 1
  PROVE  Spec => []ChainIsIntact
  <1>1. Init => OneActive
    BY DEF Init, OneActive, Active
  <1>2. OneActive => Exclusive
    BY DEF OneActive, Exclusive, Active
  <1> QED
    BY <1>1, <1>2, Typing, LogIsLinked, InitChain, StepOneActive, StepChain,
       ExclusiveIsIntact, PTL DEF Spec

-----------------------------------------------------------------------------
(* Losing rows.                                                            *)

\* A row that continues another is orphaned when that one is lost: its link
\* then matches the row before it in no order of what remains.
LEMMA InnerLoss ==
  ASSUME TypeOK, Linked
  PROVE  InnerLossIsReported
  <1> SUFFICES ASSUME NEW r \in log, NEW q \in log, q.prev = r.hash,
                      NEW s \in OrdersBySeq(log \ {r}), Intact(s)
               PROVE  FALSE
    BY DEF InnerLossIsReported
  <1>1. RowOK(r) /\ RowOK(q) /\ Continues(q.seq, q.prev)
    BY DEF TypeOK, Linked
  <1>h. r.hash = Digest(r.seq, r.body, r.prev)
    BY <1>1, RowHash
  <1>2. q # r
    <2>1. q.prev # GENESIS
      BY <1>h DEF Digest, GENESIS
    <2>2. PICK t \in log : q.seq = t.seq + 1 /\ q.prev = t.hash
      BY <1>1, <2>1 DEF Continues
    <2>3. t.hash = Digest(t.seq, t.body, t.prev) /\ t.seq \in Nat
      BY RowHash DEF TypeOK, RowOK
    <2> QED BY <1>h, <2>2, <2>3 DEF Digest
  <1>3. IsFiniteSet(log \ {r}) /\ Cardinality(log \ {r}) \in Nat
    BY FS_RemoveElement, FS_CardinalityType DEF TypeOK
  <1>4. PICK i \in DOMAIN s : s[i] = q
    BY <1>2 DEF OrdersBySeq
  <1>5. q.prev = PrevHash(s, i)
    BY <1>4 DEF Intact, Bad
  <1>6. q.prev # GENESIS
    BY <1>h DEF Digest, GENESIS
  <1>7. i # 1 /\ i - 1 \in DOMAIN s /\ s[i - 1] \in log \ {r}
    <2>1. s \in [1..Cardinality(log \ {r}) -> log \ {r}]
      BY DEF OrdersBySeq
    <2>2. i # 1
      BY <1>5, <1>6 DEF PrevHash
    <2> QED BY <1>3, <2>1, <2>2
  <1>8. s[i - 1].hash = r.hash /\ RowOK(s[i - 1])
    BY <1>5, <1>7 DEF PrevHash, TypeOK
  <1>9. s[i - 1].seq = r.seq /\ s[i - 1].body = r.body /\ s[i - 1].prev = r.prev
    BY <1>h, <1>8, RowHash DEF Digest
  <1>10. s[i - 1] = r
    BY <1>1, <1>8, <1>9, Zenon DEF RowOK
  <1> QED BY <1>7, <1>10

\* Verification notices the loss of any row that a later row continues.
THEOREM InnerLossTheorem == Spec => []InnerLossIsReported
  BY Typing, LogIsLinked, InnerLoss, PTL

-----------------------------------------------------------------------------
(* The log and the changes it describes.                                   *)

\* Where a handler is tells what it has committed.
CommitInv ==
  /\ \A e \in Entries :
       Kind[e] = "after" => pc[e] \in {"idle", "running", "failed"} \/ e \in changes
  /\ \A e \in Entries : pc[e] = "committed" => Kind[e] = "after"
  /\ \A e \in Entries : pc[e] = "flushed" => Kind[e] = "with"
  /\ \A e \in Entries : pc[e] = "loaded" /\ Kind[e] = "with" => e \notin changes
  /\ \A e \in Entries : e \in changes => pc[e] # "idle" /\ pc[e] # "running" /\ pc[e] # "flushed"
  /\ \A r \in log : pc[r.body] = "done"
  /\ \A e, f \in Entries : Follow[e] = f /\ pc[f] # "idle" => pc[e] = "done"
  /\ \A e \in changes : Kind[e] = "after" \/ Recorded(e)
  /\ NothingInvented

LEMMA StepCommitInv == TypeOK /\ CommitInv /\ [Next]_vars => CommitInv'
  <1> SUFFICES ASSUME TypeOK, CommitInv, [Next]_vars PROVE CommitInv'
    OBVIOUS
  <1> USE DEF CommitInv, NothingInvented, TypeOK, RowOK
  <1>1. ASSUME NEW e \in Entries, Arrive(e) PROVE CommitInv'
    BY <1>1, FollowAssumption DEF Arrive, First, Recorded
  <1>2. ASSUME NEW e \in Entries, CommitChange(e) PROVE CommitInv'
    BY <1>2 DEF CommitChange, Recorded
  <1>3. ASSUME NEW e \in Entries, FlushChange(e) PROVE CommitInv'
    BY <1>3 DEF FlushChange, Recorded
  <1>4. ASSUME NEW e \in Entries, ReadLast(e) PROVE CommitInv'
    BY <1>4 DEF ReadLast, Recorded
  <1>5. ASSUME NEW e \in Entries, Insert(e) PROVE CommitInv'
    <2> DEFINE new == Row(base[e].seq, e, base[e].prev)
    <2>1. /\ log' = log \cup {new}
          /\ pc[e] = "loaded"
          /\ pc' = [f \in Entries |-> IF f = e THEN "done"
                                     ELSE IF f = Follow[e] THEN "running" ELSE pc[f]]
          /\ changes \subseteq changes' /\ changes' \subseteq changes \cup {e}
          /\ Kind[e] = "with" => e \in changes'
          /\ Kind[e] = "alone" => changes' = changes
      BY <1>5 DEF Insert, GoOn
    <2>2. new.body = e
      BY DEF Row
    <2> HIDE DEF new
    <2>3. Kind[e] = "alone" \/ e \in changes'
      BY <2>1, KindAssumption DEF KindSet
    <2>4. NothingInvented'
      BY <2>1, <2>2, <2>3
    <2>5. Follow[e] \in Entries => pc[Follow[e]] = "idle"
      BY <2>1
    <2>6. \A r \in log' : pc'[r.body] = "done"
      BY <2>1, <2>2, <2>5
    <2>7. \A f, g \in Entries : Follow[f] = g /\ pc'[g] # "idle" => pc'[f] = "done"
      <3> SUFFICES ASSUME NEW f \in Entries, NEW g \in Entries, Follow[f] = g,
                          pc'[g] # "idle"
                   PROVE  pc'[f] = "done"
        OBVIOUS
      <3>1. CASE f = e
        BY <2>1, <3>1
      <3>2. CASE f # e
        <4>1. g # Follow[e]
          BY <3>2, FollowAssumption, NoneAssumption
        <4>2. pc[g] # "idle"
          BY <2>1, <4>1
        <4>3. pc[f] = "done"
          BY <4>2
        <4> QED BY <2>1, <2>5, <4>3
      <3> QED BY <3>1, <3>2
    <2>8. \A f \in changes' : Kind[f] = "after" \/ Recorded(f)'
      <3>1. Recorded(e)'
        BY <2>1, <2>2 DEF Recorded
      <3> QED BY <2>1, <3>1 DEF Recorded
    <2>9. /\ \A f \in Entries :
               Kind[f] = "after" => pc'[f] \in {"idle", "running", "failed"} \/ f \in changes'
          /\ \A f \in Entries : pc'[f] = "committed" => Kind[f] = "after"
          /\ \A f \in Entries : pc'[f] = "flushed" => Kind[f] = "with"
          /\ \A f \in Entries : pc'[f] = "loaded" /\ Kind[f] = "with" => f \notin changes'
      BY <2>1
    <2>10. \A f \in Entries :
             f \in changes' => pc'[f] # "idle" /\ pc'[f] # "running" /\ pc'[f] # "flushed"
      BY <2>1, <2>5
    <2> QED BY <2>4, <2>6, <2>7, <2>8, <2>9, <2>10
  <1>6. ASSUME NEW e \in Entries, Fail(e) PROVE CommitInv'
    BY <1>6 DEF Fail, Active, Recorded
  <1>7. CASE Crash
    BY <1>7 DEF Crash, Active, Recorded
  <1>8. CASE UNCHANGED vars
    BY <1>8 DEF vars, Recorded
  <1> QED
    BY <1>1, <1>2, <1>3, <1>4, <1>5, <1>6, <1>7, <1>8 DEF Next, Handle, Finished

LEMMA CommitTheorem == Spec => []CommitInv
  <1>1. Init => CommitInv
    BY DEF Init, CommitInv, NothingInvented
  <1> QED BY <1>1, Typing, StepCommitInv, PTL DEF Spec

\* The log never reports a change that is not in the database.
THEOREM NothingInventedTheorem == Spec => []NothingInvented
  BY CommitTheorem, PTL DEF CommitInv

-----------------------------------------------------------------------------
(* How many changes the log misses.                                        *)

LossInv ==
  /\ IsFiniteSet(Busy) /\ Cardinality(Busy) <= PoolSize
  /\ IsFiniteSet(Lost) /\ Cardinality(Lost) <= PoolSize * faults

\* A part of a finite set is finite and no larger.
LEMMA Smaller ==
  ASSUME NEW S, NEW T, IsFiniteSet(T), S \subseteq T, NEW n \in Int, Cardinality(T) <= n
  PROVE  IsFiniteSet(S) /\ Cardinality(S) <= n
  <1>1. IsFiniteSet(S) /\ Cardinality(S) <= Cardinality(T)
    BY FS_Subset
  <1>2. Cardinality(S) \in Nat /\ Cardinality(T) \in Nat
    BY <1>1, FS_CardinalityType
  <1> QED BY <1>1, <1>2

LEMMA OneMore ==
  ASSUME NEW S, NEW x, IsFiniteSet(S), NEW n \in Nat, Cardinality(S) <= n
  PROVE  IsFiniteSet(S \cup {x}) /\ Cardinality(S \cup {x}) <= n + 1
  <1>1. /\ IsFiniteSet(S \cup {x})
        /\ Cardinality(S \cup {x}) = IF x \in S THEN Cardinality(S) ELSE Cardinality(S) + 1
    BY FS_AddElement
  <1>2. Cardinality(S) \in Nat
    BY FS_CardinalityType
  <1> QED BY <1>1, <1>2

\* One fault more allows as many more losses as handlers run.
LEMMA OneFaultMore ==
  ASSUME NEW p \in Nat, NEW n \in Nat
  PROVE  p * n \in Int /\ p * (n + 1) \in Int /\ p * (n + 1) = p * n + p
  OBVIOUS

LEMMA StepBusy ==
  ASSUME TypeOK, IsFiniteSet(Busy), Cardinality(Busy) <= PoolSize, [Next]_vars
  PROVE  (IsFiniteSet(Busy) /\ Cardinality(Busy) <= PoolSize)'
  <1>0. PoolSize \in Int /\ Cardinality(Busy) \in Nat
    BY PoolAssumption, FS_CardinalityType
  <1>1. ASSUME Busy' \subseteq Busy
        PROVE  IsFiniteSet(Busy') /\ Cardinality(Busy') <= PoolSize
    BY <1>0, <1>1, Smaller
  <1>2. ASSUME NEW e \in Entries, Arrive(e)
        PROVE  IsFiniteSet(Busy') /\ Cardinality(Busy') <= PoolSize
    <2>1. Busy' \subseteq Busy \cup {e}
      BY <1>2 DEF Busy, Active, Arrive, TypeOK
    <2>2. PoolSize - 1 \in Nat /\ Cardinality(Busy) <= PoolSize - 1
      BY <1>0, <1>2, PoolAssumption DEF Arrive
    <2>3. IsFiniteSet(Busy \cup {e}) /\ Cardinality(Busy \cup {e}) <= (PoolSize - 1) + 1
      BY <2>2, OneMore
    <2>4. (PoolSize - 1) + 1 = PoolSize
      BY <1>0
    <2> QED BY <1>0, <2>1, <2>3, <2>4, Smaller
  <1>3. ASSUME NEW e \in Entries, Insert(e)
        PROVE  IsFiniteSet(Busy') /\ Cardinality(Busy') <= PoolSize
    <2> DEFINE rest == Busy \ {e}
    <2>1. Busy' \subseteq rest \cup {Follow[e]}
      BY <1>3 DEF Busy, Active, Insert, GoOn
    <2>2. e \in Busy
      BY <1>3 DEF Insert, Busy, Active
    <2>3. IsFiniteSet(rest) /\ Cardinality(rest) = Cardinality(Busy) - 1
      BY <2>2, FS_RemoveElement
    <2> HIDE DEF rest
    <2>4. PoolSize - 1 \in Nat /\ Cardinality(rest) <= PoolSize - 1
      BY <1>0, <2>3, PoolAssumption
    <2>5. /\ IsFiniteSet(rest \cup {Follow[e]})
          /\ Cardinality(rest \cup {Follow[e]}) <= (PoolSize - 1) + 1
      BY <2>3, <2>4, OneMore
    <2>6. (PoolSize - 1) + 1 = PoolSize
      BY <1>0
    <2> QED BY <1>0, <2>1, <2>5, <2>6, Smaller
  <1>4. ASSUME NEW e \in Entries, CommitChange(e) \/ FlushChange(e) \/ ReadLast(e) \/ Fail(e)
        PROVE  Busy' \subseteq Busy
    BY <1>4 DEF CommitChange, FlushChange, ReadLast, Fail, Busy, Active, TypeOK
  <1>5. CASE Crash
    <2>1. Busy' \subseteq Busy
      BY <1>5 DEF Crash, Busy, Active
    <2> QED BY <1>1, <2>1
  <1>6. CASE UNCHANGED vars
    <2>1. Busy' \subseteq Busy
      BY <1>6 DEF vars, Busy, Active
    <2> QED BY <1>1, <2>1
  <1> QED
    BY <1>1, <1>2, <1>3, <1>4, <1>5, <1>6 DEF Next, Handle, Finished

\* Only a failure or a crash leaves a change behind.
LEMMA StepLost ==
  ASSUME TypeOK, CommitInv, [Next]_vars
  PROVE  \/ Lost' \subseteq Lost /\ faults' = faults
         \/ faults' = faults + 1 /\ \E e \in Busy : Lost' \subseteq Lost \cup {e}
         \/ faults' = faults + 1 /\ Lost' \subseteq Lost \cup Busy
  <1> USE DEF Lost, Recorded, Active
  <1>1. ASSUME NEW e \in Entries, Arrive(e) PROVE Lost' \subseteq Lost /\ faults' = faults
    BY <1>1 DEF Arrive, CommitInv, TypeOK
  <1>2. ASSUME NEW e \in Entries, CommitChange(e) PROVE Lost' \subseteq Lost /\ faults' = faults
    BY <1>2 DEF CommitChange, TypeOK
  <1>3. ASSUME NEW e \in Entries, FlushChange(e) \/ ReadLast(e)
        PROVE  Lost' \subseteq Lost /\ faults' = faults
    BY <1>3 DEF FlushChange, ReadLast, TypeOK
  <1>4. ASSUME NEW e \in Entries, Insert(e) PROVE Lost' \subseteq Lost /\ faults' = faults
    <2> DEFINE new == Row(base[e].seq, e, base[e].prev)
    <2>1. /\ log' = log \cup {new}
          /\ changes' \subseteq changes \cup {e}
          /\ \A f \in Entries : f # e /\ Active(f) => Active(f)'
          /\ faults' = faults
      BY <1>4 DEF Insert, GoOn, TypeOK
    <2>2. new.body = e
      BY DEF Row
    <2> HIDE DEF new
    <2>3. e \notin Lost'
      BY <2>1, <2>2
    <2> QED BY <2>1, <2>3 DEF TypeOK
  <1>5. ASSUME NEW e \in Entries, Fail(e)
        PROVE  e \in Busy /\ Lost' \subseteq Lost \cup {e} /\ faults' = faults + 1
    BY <1>5 DEF Fail, Busy, TypeOK
  <1>6. ASSUME Crash PROVE Lost' \subseteq Lost \cup Busy /\ faults' = faults + 1
    BY <1>6 DEF Crash, Busy, TypeOK
  <1>7. CASE UNCHANGED vars
    BY <1>7 DEF vars
  <1> QED
    BY <1>1, <1>2, <1>3, <1>4, <1>5, <1>6, <1>7 DEF Next, Handle, Finished

\* So the bound on the losses is inductive.
LEMMA StepLossInv == TypeOK /\ CommitInv /\ LossInv /\ [Next]_vars => LossInv'
  <1> SUFFICES ASSUME TypeOK, CommitInv, LossInv, [Next]_vars PROVE LossInv'
    OBVIOUS
  <1>1. (IsFiniteSet(Busy) /\ Cardinality(Busy) <= PoolSize)'
    BY StepBusy DEF LossInv
  <1>2. /\ PoolSize \in Nat /\ PoolSize # 0 /\ faults \in Nat
        /\ PoolSize * faults \in Int /\ PoolSize * (faults + 1) \in Int
        /\ PoolSize * (faults + 1) = PoolSize * faults + PoolSize
    BY PoolAssumption, OneFaultMore DEF TypeOK
  <1>3. /\ IsFiniteSet(Busy) /\ Cardinality(Busy) \in Nat /\ Cardinality(Busy) <= PoolSize
        /\ IsFiniteSet(Lost) /\ Cardinality(Lost) \in Nat
        /\ Cardinality(Lost) <= PoolSize * faults
    BY FS_CardinalityType DEF LossInv
  <1>4. CASE Lost' \subseteq Lost /\ faults' = faults
    <2>1. IsFiniteSet(Lost') /\ Cardinality(Lost') <= PoolSize * faults
      BY <1>2, <1>3, <1>4, Smaller
    <2> QED BY <1>1, <1>4, <2>1 DEF LossInv
  <1>5. ASSUME NEW S, IsFiniteSet(S), Cardinality(S) <= PoolSize,
               Lost' \subseteq Lost \cup S, faults' = faults + 1
        PROVE  LossInv'
    <2>1. Cardinality(S) \in Nat
      BY <1>5, FS_CardinalityType
    <2>2. /\ IsFiniteSet(Lost \cup S)
          /\ Cardinality(Lost \cup S) = Cardinality(Lost) + Cardinality(S) - Cardinality(Lost \cap S)
      BY <1>3, <1>5, FS_Union
    <2>3. Cardinality(Lost \cap S) \in Nat
      BY <1>3, FS_Subset, FS_CardinalityType
    <2>4. Cardinality(Lost \cup S) <= PoolSize * (faults + 1)
      BY <1>2, <1>3, <1>5, <2>1, <2>2, <2>3
    <2>5. IsFiniteSet(Lost') /\ Cardinality(Lost') <= PoolSize * (faults + 1)
      BY <1>2, <1>5, <2>2, <2>4, Smaller
    <2> QED BY <1>1, <1>5, <2>5 DEF LossInv
  <1>6. ASSUME NEW e \in Busy PROVE IsFiniteSet({e}) /\ Cardinality({e}) <= PoolSize
    <2>1. IsFiniteSet({e}) /\ Cardinality({e}) = 1
      BY FS_Singleton
    <2>2. 1 <= PoolSize
      BY PoolAssumption
    <2> QED BY <2>1, <2>2
  <1> QED BY <1>3, <1>4, <1>5, <1>6, StepLost

\* Whatever fails or crashes, the log misses no change that was pending when
\* record() was called, and of the others at most a pool's worth for each fault.
THEOREM LossesTheorem == Spec => []LossesAreFew
  <1>1. Init => LossInv
    <2> SUFFICES ASSUME Init PROVE LossInv
      OBVIOUS
    <2>1. Busy = {} /\ Lost = {} /\ faults = 0
      BY DEF Init, Busy, Active, Lost
    <2> QED BY <2>1, FS_EmptySet, PoolAssumption DEF LossInv
  <1>2. CommitInv /\ LossInv => LossesAreFew
    BY DEF CommitInv, LossInv, LossesAreFew, Lost
  <1> QED BY <1>1, <1>2, Typing, CommitTheorem, StepLossInv, PTL DEF Spec

-----------------------------------------------------------------------------
(* The log implements the promise of AuditChain.                           *)

\* The sequence numbers are 1 to m, those up to k are unique, and m is k or
\* k + 1 is the first that two rows share.
Shape(rows, m, k) ==
  /\ \A i \in Nat : (\E r \in rows : r.seq = i) <=> i \in 1..m
  /\ k <= m
  /\ \A i \in 1..k : ~ForkAt(rows, i)
  /\ k = m \/ ForkAt(rows, k + 1)

ShapeInv == \E m, k \in Nat : Shape(log, m, k)

\* The row with a given number.
At(i) == CHOOSE r \in log : r.seq = i

LEMMA AtUnique ==
  ASSUME NEW i, NEW r \in log, r.seq = i, ~ForkAt(log, i)
  PROVE  At(i) = r
  <1>1. At(i) \in log /\ At(i).seq = i
    BY DEF At
  <1> QED BY <1>1 DEF ForkAt

\* What a log of a given shape confirms.
ConfirmedIs(k) ==
  /\ Confirmed = [i \in 1..k |-> At(i).body]
  /\ \A i \in 1..k : At(i) \in log /\ At(i).seq = i
  /\ Confirmed \in Seq(Entries)
  /\ Len(Confirmed) = k
  /\ Promise!Recorded \subseteq {r.body : r \in log}

ShapeTells ==
  \A m, k \in Nat :
    TypeOK /\ Shape(log, m, k) => ConfirmedIs(k) /\ (Forked(log) <=> k # m)

LEMMA ConfirmedShape == ShapeTells
  <1> SUFFICES ASSUME NEW m \in Nat, NEW k \in Nat, TypeOK, Shape(log, m, k)
               PROVE  ConfirmedIs(k) /\ (Forked(log) <=> k # m)
    BY DEF ShapeTells
  <1>1. \A r \in log : r.seq \in 1..m
    BY DEF Shape, TypeOK, RowOK
  <1>2. Unforked = 1..k
    <2>1. ASSUME NEW i \in 1..k PROVE i \in Unforked
      <3>1. i \in {r.seq : r \in log}
        BY DEF Shape
      <3>2. ASSUME NEW r \in log, ForkAt(log, r.seq) PROVE i < r.seq
        BY <1>1, <3>2 DEF Shape
      <3> QED BY <3>1, <3>2 DEF Unforked
    <2>2. ASSUME NEW i \in Unforked PROVE i \in 1..k
      <3>1. i \in 1..m
        BY <1>1 DEF Unforked
      <3>2. ASSUME ForkAt(log, k + 1) PROVE i < k + 1
        <4>1. PICK r \in log : r.seq = k + 1
          BY <3>2 DEF ForkAt
        <4> QED BY <3>2, <4>1 DEF Unforked
      <3> QED BY <3>1, <3>2 DEF Shape
    <2> QED BY <2>1, <2>2
  <1>3. Confirmed = [i \in 1..k |-> At(i).body]
    BY <1>2 DEF Confirmed, At
  <1>4. \A i \in 1..k : At(i) \in log /\ At(i).seq = i
    BY DEF Shape, At
  <1>5. \A i \in 1..k : At(i).body \in Entries
    BY <1>4 DEF TypeOK, RowOK
  <1>6. Confirmed \in Seq(Entries) /\ Len(Confirmed) = k
    BY <1>3, <1>5
  <1>7. Promise!Recorded \subseteq {r.body : r \in log}
    <2>1. Promise!Recorded = {Confirmed[i] : i \in 1..k}
      BY <1>6 DEF Promise!Recorded
    <2>2. \A i \in 1..k : Confirmed[i] = At(i).body
      BY <1>3
    <2> QED BY <1>4, <2>1, <2>2
  <1>8. Forked(log) <=> k # m
    <2>1. ASSUME Forked(log), k = m PROVE FALSE
      BY <1>1, <2>1 DEF Forked, Shape
    <2>2. ASSUME k # m PROVE Forked(log)
      <3>1. ForkAt(log, k + 1)
        BY <2>2 DEF Shape
      <3>2. PICK r \in log : r.seq = k + 1
        BY <3>1 DEF ForkAt
      <3> QED BY <3>1, <3>2 DEF Forked
    <2> QED BY <2>1, <2>2
  <1> QED BY <1>3, <1>4, <1>6, <1>7, <1>8 DEF ConfirmedIs

LEMMA ConfirmedShapeNext == ShapeTells'
  BY ConfirmedShape, PTL

\* The tip of a log of a given shape.
LEMMA TipSeq ==
  ASSUME TypeOK, NEW m \in Nat, NEW k \in Nat, Shape(log, m, k), NEW b \in NextAfter(log)
  PROVE  b.seq = m + 1
  <1>1. \A r \in log : r.seq \in 1..m
    BY DEF Shape, TypeOK, RowOK
  <1>2. CASE log = {}
    <2>1. m = 0
      BY <1>2, 1 \in Nat DEF Shape
    <2> QED BY <1>2, <2>1 DEF NextAfter
  <1>3. CASE log # {}
    <2>1. PICK e \in Greatest(log) : b = [seq |-> e.seq + 1, prev |-> e.hash]
      BY <1>3 DEF NextAfter
    <2>2. m \in 1..m
      BY <1>1, <1>3
    <2>3. PICK r \in log : r.seq = m
      BY <2>2 DEF Shape
    <2>4. e \in log /\ m <= e.seq
      BY <2>1, <2>3 DEF Greatest
    <2>5. e.seq = m
      BY <1>1, <2>4
    <2> QED BY <2>1, <2>5
  <1> QED BY <1>2, <1>3

\* An insert into a log of a given shape: a new row, at most one past the end,
\* and overtaken if not there.
LEMMA InsertInto ==
  ASSUME TypeOK, LinkInv, CommitInv, NEW m \in Nat, NEW k \in Nat, Shape(log, m, k),
         NEW e \in Entries, Insert(e)
  PROVE  \E new : /\ log' = log \cup {new} /\ new \notin log
                  /\ new.body = e /\ new.seq \in 1..(m + 1)
                  /\ new.seq # m + 1 => Overtaken
                  /\ e \notin {r.body : r \in log}
  <1> DEFINE new == Row(base[e].seq, e, base[e].prev)
  <1>1. log' = log \cup {new} /\ pc[e] = "loaded"
    BY DEF Insert
  <1>2. new.seq = base[e].seq /\ new.body = e
    BY DEF Row
  <1> HIDE DEF new
  <1>3. \A r \in log : r.seq \in 1..m
    BY DEF Shape, TypeOK, RowOK
  <1>4. Continues(base[e].seq, base[e].prev)
    BY <1>1 DEF LinkInv, BaseContinues
  <1>5. base[e].seq \in 1..(m + 1)
    BY <1>3, <1>4 DEF Continues
  <1>6. ASSUME base[e].seq # m + 1 PROVE Overtaken
    <2>1. base[e] \notin NextAfter(log)
      BY <1>6, TipSeq
    <2> QED BY <1>1, <2>1 DEF Overtaken
  <1>7. e \notin {r.body : r \in log}
    BY <1>1 DEF CommitInv
  <1>8. new \notin log
    BY <1>2, <1>7
  <1> QED BY <1>1, <1>2, <1>5, <1>6, <1>7, <1>8

LEMMA ShapeIs ==
  ASSUME NEW rows, NEW m \in Nat, NEW k \in Nat,
         \A i \in Nat : (\E r \in rows : r.seq = i) <=> i \in 1..m,
         k <= m, \A i \in 1..k : ~ForkAt(rows, i), k = m \/ ForkAt(rows, k + 1)
  PROVE  Shape(rows, m, k)
  BY DEF Shape

\* Adding a row at the end of an unforked log.
LEMMA AppendShape ==
  ASSUME NEW m \in Nat, Shape(log, m, m), NEW new, log' = log \cup {new},
         new.seq = m + 1, \A r \in log : r.seq \in 1..m
  PROVE  Shape(log', m + 1, m + 1)
  <1>1. ASSUME NEW i \in Nat PROVE (\E r \in log' : r.seq = i) <=> i \in 1..(m + 1)
    <2>1. (\E r \in log' : r.seq = i) <=> (\E r \in log : r.seq = i) \/ i = m + 1
      OBVIOUS
    <2>2. (\E r \in log : r.seq = i) <=> i \in 1..m
      BY DEF Shape
    <2> QED BY <2>1, <2>2
  <1>2. ASSUME NEW i \in 1..(m + 1) PROVE ~ForkAt(log', i)
    <2>1. CASE i = m + 1
      BY <2>1 DEF ForkAt
    <2>2. CASE i \in 1..m
      <3>1. ~ForkAt(log, i) /\ new.seq # i
        BY <2>2 DEF Shape
      <3> QED BY <3>1 DEF ForkAt
    <2> QED BY <2>1, <2>2
  <1> DEFINE n == m + 1
  <1>3. n \in Nat /\ n <= n
    OBVIOUS
  <1>4. /\ \A i \in Nat : (\E r \in log' : r.seq = i) <=> i \in 1..n
        /\ \A i \in 1..n : ~ForkAt(log', i)
    BY <1>1, <1>2
  <1> HIDE DEF n
  <1>5. Shape(log', n, n)
    BY <1>3, <1>4, ShapeIs
  <1> QED BY <1>5 DEF n

\* Adding a row at a place that is taken, within the confirmed part.
LEMMA ForkShape ==
  ASSUME NEW m \in Nat, NEW k \in Nat, Shape(log, m, k), NEW new, new \notin log,
         log' = log \cup {new}, new.seq \in 1..k, \A r \in log : r.seq \in 1..m
  PROVE  Shape(log', m, new.seq - 1)
  <1> DEFINE s == new.seq
  <1>1. s \in 1..m /\ k <= m
    BY DEF Shape
  <1>2. ASSUME NEW i \in Nat PROVE (\E r \in log' : r.seq = i) <=> i \in 1..m
    <2>1. (\E r \in log : r.seq = i) <=> i \in 1..m
      BY DEF Shape
    <2> QED BY <1>1, <2>1
  <1>3. ASSUME NEW i \in 1..(s - 1) PROVE ~ForkAt(log', i)
    <2>1. ~ForkAt(log, i) /\ s # i
      BY DEF Shape
    <2> QED BY <2>1 DEF ForkAt
  <1>4. ForkAt(log', s)
    <2>1. PICK r \in log : r.seq = s
      BY <1>1 DEF Shape
    <2> QED BY <2>1 DEF ForkAt
  <1>5. (s - 1) + 1 = s /\ s - 1 <= m
    BY <1>1
  <1>6. s - 1 \in Nat
    BY <1>1
  <1> QED BY <1>2, <1>3, <1>4, <1>5, <1>6, ShapeIs

\* Adding a row behind the first fork.
LEMMA BuryShape ==
  ASSUME NEW m \in Nat, NEW k \in Nat, Shape(log, m, k), k # m, NEW new,
         log' = log \cup {new}, new.seq \in (k + 1)..(m + 1), \A r \in log : r.seq \in 1..m
  PROVE  \E n \in Nat : n # k /\ Shape(log', n, k)
  <1> DEFINE n == IF new.seq = m + 1 THEN m + 1 ELSE m
  <1>1. n \in Nat /\ k < n /\ k < m
    BY DEF Shape
  <1>2. ASSUME NEW i \in Nat PROVE (\E r \in log' : r.seq = i) <=> i \in 1..n
    <2>1. (\E r \in log' : r.seq = i) <=> (\E r \in log : r.seq = i) \/ i = new.seq
      OBVIOUS
    <2>2. (\E r \in log : r.seq = i) <=> i \in 1..m
      BY DEF Shape
    <2> QED BY <2>1, <2>2
  <1>3. ASSUME NEW i \in 1..k PROVE ~ForkAt(log', i)
    <2>1. ~ForkAt(log, i) /\ new.seq # i
      BY DEF Shape
    <2> QED BY <2>1 DEF ForkAt
  <1>4. ForkAt(log', k + 1)
    BY DEF Shape, ForkAt
  <1> HIDE DEF n
  <1>5. k <= n /\ n # k
    BY <1>1
  <1>6. Shape(log', n, k)
    BY <1>1, <1>2, <1>3, <1>4, <1>5, ShapeIs
  <1> QED BY <1>1, <1>5, <1>6

\* The rows that stay unique keep their places.
LEMMA AtStays ==
  ASSUME NEW m \in Nat, NEW k \in Nat, Shape(log, m, k), NEW j \in Nat, j <= k,
         log \subseteq log', \A i \in 1..j : ~ForkAt(log', i)
  PROVE  \A i \in 1..j : At(i)' = At(i)
  <1> SUFFICES ASSUME NEW i \in 1..j PROVE At(i)' = At(i)
    OBVIOUS
  <1>1. i \in 1..m /\ i \in Nat
    BY DEF Shape
  <1>2. PICK r \in log : r.seq = i
    BY <1>1 DEF Shape
  <1>3. At(i) \in log /\ At(i).seq = i
    BY <1>2 DEF At
  <1>4. At(i) \in log' /\ ~ForkAt(log', i)
    BY <1>3
  <1>5. At(i)' \in log' /\ At(i)'.seq = i
    BY <1>3, <1>4 DEF At
  <1> QED BY <1>3, <1>4, <1>5 DEF ForkAt

\* Every insert is a step of the promise, and leaves the log with a shape.
LEMMA InsertImplements ==
  ASSUME TypeOK, TypeOK', LinkInv, CommitInv, ShapeInv, NEW e \in Entries, Insert(e)
  PROVE  (Promise!Record(e) \/ Promise!Fork \/ Promise!Bury) /\ ShapeInv'
  <1>1. PICK m \in Nat, k \in Nat : Shape(log, m, k)
    BY DEF ShapeInv
  <1>2. PICK new : /\ log' = log \cup {new} /\ new \notin log
                   /\ new.body = e /\ new.seq \in 1..(m + 1)
                   /\ new.seq # m + 1 => Overtaken
                   /\ e \notin {r.body : r \in log}
    BY <1>1, InsertInto
  <1>3. /\ k <= m /\ \A r \in log : r.seq \in 1..m
        /\ log \subseteq log'
    BY <1>1, <1>2 DEF Shape, TypeOK, RowOK
  <1>4. /\ Confirmed = [i \in 1..k |-> At(i).body]
        /\ \A i \in 1..k : At(i) \in log /\ At(i).seq = i
        /\ Confirmed \in Seq(Entries)
        /\ Len(Confirmed) = k
        /\ Promise!Recorded \subseteq {r.body : r \in log}
        /\ Forked(log) <=> k # m
    BY <1>1, ConfirmedShape DEF ShapeTells, ConfirmedIs
  <1>5. Overtaken' \in BOOLEAN
    BY DEF Overtaken
  <1>6. CASE k = m /\ new.seq = m + 1
    <2>1. Shape(log', m + 1, m + 1)
      BY <1>1, <1>2, <1>3, <1>6, AppendShape
    <2>2. /\ Confirmed' = [i \in 1..(m + 1) |-> At(i)'.body]
          /\ ~Forked(log')
      BY <2>1, ConfirmedShapeNext DEF ShapeTells, ConfirmedIs
    <2>3. \A i \in 1..(m + 1) : ~ForkAt(log', i)
      BY <2>1 DEF Shape
    <2>4. \A i \in 1..m : At(i)' = At(i)
      BY <1>1, <1>3, <1>6, <2>3, AtStays
    <2>5. At(m + 1)' = new
      <3>1. new \in log' /\ ~ForkAt(log', m + 1)
        BY <1>2, <2>3
      <3>2. At(m + 1)' \in log' /\ At(m + 1)'.seq = m + 1
        BY <1>6, <3>1 DEF At
      <3> QED BY <1>6, <3>1, <3>2 DEF ForkAt
    <2>6. Confirmed' = Append(Confirmed, e)
      <3>1. Confirmed' = [i \in 1..(m + 1) |-> IF i = m + 1 THEN e ELSE Confirmed[i]]
        <4>1. \A i \in 1..m : At(i)'.body = Confirmed[i]
          BY <1>4, <1>6, <2>4
        <4>2. \A i \in 1..(m + 1) : i # m + 1 => i \in 1..m
          OBVIOUS
        <4> QED BY <1>2, <2>2, <2>5, <4>1, <4>2
      <3>2. Append(Confirmed, e) = [i \in 1..(m + 1) |-> IF i = m + 1 THEN e ELSE Confirmed[i]]
        BY <1>4, <1>6
      <3> QED BY <3>1, <3>2
    <2>7. ~Forked(log) /\ e \notin Promise!Recorded
      BY <1>2, <1>4, <1>6
    <2>8. Promise!Record(e)
      BY <1>5, <2>2, <2>6, <2>7 DEF Promise!Record
    <2>9. ShapeInv'
      BY <2>1 DEF ShapeInv
    <2> QED BY <2>8, <2>9
  <1>7. CASE new.seq \in 1..k
    <2> DEFINE j == new.seq - 1
    <2>1. j \in Nat /\ j \in 0..(k - 1) /\ j <= k /\ j # m
      BY <1>3, <1>7
    <2>2. Shape(log', m, j)
      BY <1>1, <1>2, <1>3, <1>7, ForkShape
    <2> HIDE DEF j
    <2>3. Confirmed' = [i \in 1..j |-> At(i)'.body] /\ Forked(log')
      BY <2>1, <2>2, ConfirmedShapeNext DEF ShapeTells, ConfirmedIs
    <2>4. \A i \in 1..j : At(i)' = At(i)
      <3>1. \A i \in 1..j : ~ForkAt(log', i)
        BY <2>2 DEF Shape
      <3> QED BY <1>1, <1>3, <2>1, <3>1, AtStays
    <2>5. Confirmed' = SubSeq(Confirmed, 1, j)
      <3>1. \A i \in 1..j : At(i)'.body = Confirmed[i]
        BY <1>4, <2>1, <2>4
      <3>2. Confirmed' = [i \in 1..j |-> Confirmed[i]]
        BY <2>3, <3>1
      <3>3. SubSeq(Confirmed, 1, j) = [i \in 1..j |-> Confirmed[i]]
        BY <1>4, <2>1
      <3> QED BY <3>2, <3>3
    <2>6. Overtaken
      BY <1>2, <1>3, <1>7
    <2>7. Promise!Fork
      BY <1>4, <1>5, <2>1, <2>3, <2>5, <2>6 DEF Promise!Fork
    <2>8. ShapeInv'
      BY <2>1, <2>2 DEF ShapeInv
    <2> QED BY <2>7, <2>8
  <1>8. CASE k # m /\ new.seq \in (k + 1)..(m + 1)
    <2>1. PICK n \in Nat : n # k /\ Shape(log', n, k)
      BY <1>1, <1>2, <1>3, <1>8, BuryShape
    <2>2. Confirmed' = [i \in 1..k |-> At(i)'.body] /\ Forked(log')
      BY <2>1, ConfirmedShapeNext DEF ShapeTells, ConfirmedIs
    <2>3. \A i \in 1..k : At(i)' = At(i)
      <3>1. \A i \in 1..k : ~ForkAt(log', i)
        BY <2>1 DEF Shape
      <3> QED BY <1>1, <1>3, <3>1, AtStays
    <2>4. Confirmed' = Confirmed
      BY <1>4, <2>2, <2>3
    <2>5. Promise!Bury
      BY <1>4, <1>5, <1>8, <2>2, <2>4 DEF Promise!Bury
    <2>6. ShapeInv'
      BY <2>1 DEF ShapeInv
    <2> QED BY <2>5, <2>6
  <1> QED BY <1>2, <1>3, <1>6, <1>7, <1>8

\* Of the other steps, only the failure of an overtaken append is visible.
LEMMA OtherImplements ==
  ASSUME TypeOK, [Next]_vars, log' = log
  PROVE  /\ Promise!Next \/ UNCHANGED <<Confirmed, ~Forked(log), Overtaken>>
         /\ ShapeInv => ShapeInv'
  <1>1. Confirmed' = Confirmed /\ Forked(log') = Forked(log)
    BY DEF Confirmed, Unforked, ForkAt, Forked
  <1>2. ShapeInv => ShapeInv'
    BY DEF ShapeInv, Shape, ForkAt
  <1>3. Overtaken' => Overtaken
    BY DEF Next, Handle, Arrive, CommitChange, FlushChange, ReadLast, Insert, GoOn, Fail,
           Crash, Finished, vars, Overtaken, TypeOK, NextAfter, Greatest
  <1>4. CASE Overtaken' = Overtaken
    BY <1>1, <1>2, <1>4
  <1>5. CASE Overtaken' = FALSE
    BY <1>1, <1>2, <1>5 DEF Promise!Next, Promise!GiveUp
  <1> QED BY <1>3, <1>4, <1>5 DEF Overtaken

LEMMA StepImplements ==
  TypeOK /\ TypeOK' /\ LinkInv /\ CommitInv /\ ShapeInv /\ [Next]_vars
    => [Promise!Next]_<<Confirmed, ~Forked(log), Overtaken>> /\ ShapeInv'
  <1> SUFFICES ASSUME TypeOK, TypeOK', LinkInv, CommitInv, ShapeInv, [Next]_vars
               PROVE  /\ Promise!Next \/ UNCHANGED <<Confirmed, ~Forked(log), Overtaken>>
                      /\ ShapeInv'
    OBVIOUS
  <1>1. log' = log \/ \E e \in Entries : Insert(e)
    BY DEF Next, Handle, Arrive, CommitChange, FlushChange, ReadLast, Fail, Crash, Finished,
           vars
  <1> QED BY <1>1, InsertImplements, OtherImplements DEF Promise!Next

LEMMA InitImplements == Init => Promise!Init /\ ShapeInv
  <1> SUFFICES ASSUME Init PROVE Promise!Init /\ ShapeInv
    OBVIOUS
  <1>1. log = {} /\ Unforked = {} /\ Overtaken = FALSE /\ Forked(log) = FALSE
    BY DEF Init, Unforked, Overtaken, Forked
  <1>2. Confirmed = <<>>
    BY <1>1 DEF Confirmed
  <1>3. Shape(log, 0, 0)
    BY <1>1 DEF Shape
  <1> QED BY <1>1, <1>2, <1>3 DEF Promise!Init, ShapeInv

LEMMA LinkTheorem == Spec => []LinkInv
  <1>1. Init => LinkInv
    BY DEF Init, LinkInv, Linked, BaseContinues
  <1> QED BY <1>1, Typing, StepLinked, PTL DEF Spec

\* For any handlers, any pool and either database: what verify_chain confirms
\* is an append-only sequence until an overtaken append forks the log, and is
\* only cut back from then on.
THEOREM ImplementsChainTheorem == Spec => ImplementsChain
  BY Typing, LinkTheorem, CommitTheorem, InitImplements, StepImplements, PTL
  DEF Spec, ImplementsChain, Promise!Spec

\* One handler at a time: every step that changes the log adds one entry to the
\* end of what verifies.
THEOREM SerialOnlyGrows ==
  ASSUME PoolSize = 1
  PROVE  Spec => [][\E e \in Entries : Promise!Record(e)]_log
  <1>1. Init => OneActive
    BY DEF Init, OneActive, Active
  <1>2. OneActive => Exclusive
    BY DEF OneActive, Exclusive, Active
  <1>3. /\ TypeOK /\ TypeOK' /\ LinkInv /\ CommitInv /\ ShapeInv /\ ChainInv
        /\ [Next]_vars
        => [\E e \in Entries : Promise!Record(e)]_log
    <2> SUFFICES ASSUME TypeOK, TypeOK', LinkInv, CommitInv, ShapeInv, ChainInv,
                        Next, log' # log
                 PROVE  \E e \in Entries : Promise!Record(e)
      BY DEF vars
    <2>1. PICK f \in Entries : Insert(f)
      BY DEF Next, Handle, Arrive, CommitChange, FlushChange, ReadLast, Fail, Crash, Finished,
             vars
    <2>2. Promise!Record(f) \/ Promise!Fork \/ Promise!Bury
      BY <2>1, InsertImplements
    <2>3. ~Overtaken /\ ~Forked(log)
      BY DEF ChainInv, Fresh, Overtaken
    <2> QED BY <2>2, <2>3 DEF Promise!Fork, Promise!Bury
  <1> QED
    BY <1>1, <1>2, <1>3, Typing, LinkTheorem, CommitTheorem, InitImplements, StepImplements,
       InitChain, StepOneActive, StepChain, PTL DEF Spec

-----------------------------------------------------------------------------
(* The write lock.                                                         *)

\* A change that is pending has not been committed by anything else.
Pending ==
  \A e \in Entries :
    /\ pc[e] = "committed" => Kind[e] = "after"
    /\ pc[e] = "flushed" => Kind[e] = "with"
    /\ \/ pc[e] \in {"idle", "running"}
       \/ Kind[e] = "with" /\ pc[e] \in {"flushed", "loaded"}
       => e \notin changes

LockInv == Pending /\ LockIsPending /\ LockedReadIsFresh

LEMMA StepLockInv == TypeOK /\ CommitInv /\ LockInv /\ [Next]_vars => LockInv'
  <1> SUFFICES ASSUME TypeOK, CommitInv, LockInv, [Next]_vars PROVE LockInv'
    OBVIOUS
  <1> USE DEF LockInv, Pending, LockIsPending, LockedReadIsFresh
  <1>0. /\ pc \in [Entries -> {"idle", "running", "committed", "flushed", "loaded",
                              "done", "failed"}]
        /\ writer \in Entries \cup {None}
        /\ DOMAIN base = Entries
    BY DEF TypeOK
  <1>1. ASSUME NEW e \in Entries, Arrive(e) \/ CommitChange(e) PROVE LockInv'
    BY <1>0, <1>1, NoneAssumption DEF Arrive, CommitChange, MayWrite
  <1>2. ASSUME NEW e \in Entries, FlushChange(e) PROVE LockInv'
    BY <1>0, <1>2, NoneAssumption DEF FlushChange, MayWrite
  <1>3. ASSUME NEW e \in Entries, ReadLast(e) PROVE LockInv'
    <2>1. PICK b \in NextAfter(log) : base' = [base EXCEPT ![e] = b]
      BY <1>3 DEF ReadLast
    <2>2. base'[e] \in NextAfter(log) /\ \A f \in Entries : f # e => base'[f] = base[f]
      BY <1>0, <2>1
    <2>3. /\ pc' = [pc EXCEPT ![e] = "loaded"]
          /\ UNCHANGED <<log, changes, writer>>
          /\ \/ pc[e] \in {"committed", "flushed"}
             \/ pc[e] = "running" /\ Kind[e] = "alone"
      BY <1>3 DEF ReadLast
    <2>4. Pending' /\ LockIsPending'
      BY <1>0, <2>3, NoneAssumption
    <2>5. LockedReadIsFresh'
      BY <1>0, <2>2, <2>3 DEF NextAfter
    <2> QED BY <2>4, <2>5
  <1>4. ASSUME NEW e \in Entries, Insert(e) PROVE LockInv'
    <2>1. /\ writer' = None
          /\ \A f \in Entries : f # e /\ f # Follow[e] => pc'[f] = pc[f]
          /\ Follow[e] \in Entries /\ Follow[e] # e => pc'[Follow[e]] = "running"
          /\ pc'[e] = "done"
          /\ changes' \subseteq changes \cup {e}
      BY <1>0, <1>4 DEF Insert, GoOn
    <2>2. Follow[e] \in Entries => pc[Follow[e]] = "idle"
      BY <1>4, <1>0 DEF Insert, CommitInv
    <2> QED BY <1>0, <2>1, <2>2, NoneAssumption
  <1>5. ASSUME NEW e \in Entries, Fail(e) PROVE LockInv'
    BY <1>0, <1>5, NoneAssumption DEF Fail, Active
  <1>6. CASE Crash
    BY <1>0, <1>6, NoneAssumption DEF Crash, Active
  <1>7. CASE UNCHANGED vars
    BY <1>7 DEF vars
  <1> QED
    BY <1>1, <1>2, <1>3, <1>4, <1>5, <1>6, <1>7 DEF Next, Handle, Finished

LEMMA LockTheorem == Spec => []LockInv
  <1>1. Init => LockInv
    BY NoneAssumption DEF Init, LockInv, Pending, LockIsPending, LockedReadIsFresh
  <1> QED BY <1>1, Typing, CommitTheorem, StepLockInv, PTL DEF Spec

\* Whoever holds SQLite's write lock has a change pending, and nothing else.
THEOREM LockIsPendingTheorem == Spec => []LockIsPending
  BY LockTheorem, PTL DEF LockInv

\* What record() has read under the write lock is still the log's tip when it
\* inserts, however many handlers append without pending changes.
THEOREM LockedReadTheorem == Spec => []LockedReadIsFresh
  BY LockTheorem, PTL DEF LockInv

=============================================================================
