------------------------------ MODULE AuditLog ------------------------------
(***************************************************************************)
(* The hash-chained audit log (app/audit.py) as its callers use it.        *)
(*                                                                         *)
(* Request handlers run concurrently in the server's thread pool, each on  *)
(* a database session of its own.  Every entry they leave in the log is    *)
(* written by record(): read the row with the greatest sequence number,    *)
(* build the next row from it, insert and commit.  The read takes no lock  *)
(* and the table has no unique constraint on seq (app/models.py:193), so   *)
(* other appends may commit between the read and the insert.               *)
(*                                                                         *)
(* An entry reaches record() in one of three ways (constant Kind):         *)
(*   "after"  the handler has already committed the change it describes    *)
(*            (set_role, triage, refresh, ...);                            *)
(*   "with"   the change is still pending in the session: record()'s own   *)
(*            SELECT flushes it and record()'s commit commits it (the      *)
(*            account lockout and the rehash of a password, in login);     *)
(*   "alone"  nothing was changed (a failed login, an export).             *)
(*                                                                         *)
(* A handler may go on to record another entry (constant Follow): the      *)
(* login that locks an account records the lockout and then, with nothing  *)
(* pending any more, the failed login (app/routers/auth.py:86-95); one     *)
(* with a recovery code and an import record several as well.              *)
(***************************************************************************)
EXTENDS Integers, FiniteSets

CONSTANTS
  Entries,    \* the audit entries that may be requested
  Kind,       \* how each entry reaches record(): [Entries -> KindSet]
  Follow,     \* the entry its handler goes on to record, None after the last
  PoolSize,   \* how many handlers the thread pool runs at once
  WriteLock,  \* TRUE: one writing transaction at a time (SQLite); FALSE: PostgreSQL
  MaxFaults,  \* bound on failed handlers and process crashes
  None        \* no entry: nothing follows; no session holds the write lock

KindSet == {"after", "with", "alone"}

ASSUME KindAssumption == Kind \in [Entries -> KindSet]
ASSUME FollowAssumption ==
  /\ Follow \in [Entries -> Entries \cup {None}]
  /\ \A e, f \in Entries : Follow[e] = Follow[f] /\ Follow[e] # None => e = f
ASSUME PoolAssumption == PoolSize \in Nat \ {0}
ASSUME WriteLockAssumption == WriteLock \in BOOLEAN
ASSUME MaxFaultsAssumption == MaxFaults \in Nat
ASSUME NoneAssumption == None \notin Entries

VARIABLES
  log,      \* the committed rows of audit_log
  changes,  \* the entries whose described change is committed
  pc,       \* where the handler of each entry is with it
  base,     \* the row contents each handler has derived from its read
  writer,   \* the entry whose open transaction holds SQLite's write lock
  faults    \* failures so far

vars == <<log, changes, pc, base, writer, faults>>

-----------------------------------------------------------------------------
(* Rows.                                                                   *)

GENESIS == <<>>

\* SHA-256 over seq, prev and the described fields, taken to be collision-free:
\* the digest is the value of what it covers.
Digest(seq, body, prev) == <<seq, body, prev>>

Row(seq, body, prev) ==
  [seq |-> seq, body |-> body, prev |-> prev, hash |-> Digest(seq, body, prev)]

Greatest(rows) == {e \in rows : \A f \in rows : f.seq <= e.seq}

\* Mutants: seq from a count of the rows; seq not advanced; rows sorted upwards.
CountedNext(rows) ==
  IF rows = {} THEN {[seq |-> 1, prev |-> GENESIS]}
               ELSE {[seq |-> Cardinality(rows) + 1, prev |-> e.hash] : e \in Greatest(rows)}
RepeatedNext(rows) ==
  IF rows = {} THEN {[seq |-> 1, prev |-> GENESIS]}
               ELSE {[seq |-> e.seq, prev |-> e.hash] : e \in Greatest(rows)}
OldestNext(rows) ==
  IF rows = {} THEN {[seq |-> 1, prev |-> GENESIS]}
               ELSE {[seq |-> e.seq + 1, prev |-> e.hash] :
                       e \in {r \in rows : \A q \in rows : r.seq <= q.seq}}

\* What a read of the log's tip says the next row's seq and prev must be.
NextAfter(rows) ==
  IF rows = {} THEN {[seq |-> 1, prev |-> GENESIS]}
               ELSE {[seq |-> e.seq + 1, prev |-> e.hash] : e \in Greatest(rows)}

-----------------------------------------------------------------------------
(* Verification.  verify_chain reads the rows in some order of seq (rows   *)
(* with equal seq come in an order the query leaves open) and stops at the *)
(* first one that does not continue the chain.                             *)

OrdersBySeq(rows) ==
  {s \in [1..Cardinality(rows) -> rows] :
     /\ \A e \in rows : \E i \in DOMAIN s : s[i] = e
     /\ \A i, j \in DOMAIN s : i < j => s[i] # s[j] /\ s[i].seq <= s[j].seq}

PrevHash(s, i) == IF i = 1 THEN GENESIS ELSE s[i - 1].hash

\* Mutant: a row's digest is checked, its link to the row before is not.
BadDigest(s, i) == s[i].hash # Digest(s[i].seq, s[i].body, s[i].prev)

Bad(s, i) ==
  \/ s[i].prev # PrevHash(s, i)
  \/ s[i].hash # Digest(s[i].seq, s[i].body, PrevHash(s, i))

FirstBad(s, i) == Bad(s, i) /\ \A j \in 1..(i - 1) : ~Bad(s, j)

Intact(s) == \A i \in DOMAIN s : ~Bad(s, i)

-----------------------------------------------------------------------------
(* Handlers.                                                               *)

\* A handler is at work on the entry, and at work on no other.
Active(e) == pc[e] \in {"running", "committed", "flushed", "loaded"}

Busy == {e \in Entries : Active(e)}

\* The entries a request begins with.
First(e) == \A f \in Entries : Follow[f] # e

\* A session may write when no other session's transaction holds the lock.
MayWrite(e) == writer \in {None, e}

Init ==
  /\ log = {}
  /\ changes = {}
  /\ pc = [e \in Entries |-> "idle"]
  /\ base = [e \in Entries |-> [seq |-> 0, prev |-> GENESIS]]
  /\ writer = None
  /\ faults = 0

\* The thread pool takes up a request.
Arrive(e) ==
  /\ pc[e] = "idle"
  /\ First(e)
  /\ Cardinality(Busy) < PoolSize
  /\ pc' = [pc EXCEPT ![e] = "running"]
  /\ UNCHANGED <<log, changes, base, writer, faults>>

\* The handler commits its change, then will call record().
CommitChange(e) ==
  /\ pc[e] = "running"
  /\ Kind[e] = "after"
  /\ MayWrite(e)
  /\ changes' = changes \cup {e}
  /\ pc' = [pc EXCEPT ![e] = "committed"]
  /\ UNCHANGED <<log, base, writer, faults>>

\* record()'s SELECT first flushes the pending change, which on SQLite takes
\* the write lock until record()'s commit.
FlushChange(e) ==
  /\ pc[e] = "running"
  /\ Kind[e] = "with"
  /\ MayWrite(e)
  /\ writer' = IF WriteLock THEN e ELSE writer
  /\ pc' = [pc EXCEPT ![e] = "flushed"]
  /\ UNCHANGED <<log, changes, base, faults>>

ReadLast(e) ==
  /\ \/ pc[e] \in {"committed", "flushed"}
     \/ pc[e] = "running" /\ Kind[e] = "alone"
  /\ \E b \in NextAfter(log) : base' = [base EXCEPT ![e] = b]
  /\ pc' = [pc EXCEPT ![e] = "loaded"]
  /\ UNCHANGED <<log, changes, writer, faults>>

\* Once its entry is recorded, the handler ends or turns to the one that follows.
GoOn(e) ==
  pc' = [f \in Entries |-> IF f = e THEN "done"
                          ELSE IF f = Follow[e] THEN "running" ELSE pc[f]]

\* Mutants: the transaction stays open; the row is added and never committed.
InsertOpen(e) ==
  /\ pc[e] = "loaded"
  /\ MayWrite(e)
  /\ log' = log \cup {Row(base[e].seq, e, base[e].prev)}
  /\ changes' = IF Kind[e] = "with" THEN changes \cup {e} ELSE changes
  /\ GoOn(e)
  /\ UNCHANGED <<base, writer, faults>>
InsertUncommitted(e) ==
  /\ pc[e] = "loaded"
  /\ MayWrite(e)
  /\ writer' = None
  /\ GoOn(e)
  /\ UNCHANGED <<log, changes, base, faults>>

\* Insert and commit; a pending change is committed with the row.
Insert(e) ==
  /\ pc[e] = "loaded"
  /\ MayWrite(e)
  /\ log' = log \cup {Row(base[e].seq, e, base[e].prev)}
  /\ changes' = IF Kind[e] = "with" THEN changes \cup {e} ELSE changes
  /\ writer' = None
  /\ GoOn(e)
  /\ UNCHANGED <<base, faults>>

\* The database raises (lock timeout, lost connection): the session rolls back
\* and the handler ends, entries it had still to record are not written.
Fail(e) ==
  /\ Active(e)
  /\ faults < MaxFaults
  /\ faults' = faults + 1
  /\ pc' = [pc EXCEPT ![e] = "failed"]
  /\ writer' = IF writer = e THEN None ELSE writer
  /\ UNCHANGED <<log, changes, base>>

\* The process dies: every running handler is lost, open transactions roll back.
Crash ==
  /\ faults < MaxFaults
  /\ Busy # {}
  /\ faults' = faults + 1
  /\ pc' = [e \in Entries |-> IF Active(e) THEN "failed" ELSE pc[e]]
  /\ writer' = None
  /\ UNCHANGED <<log, changes, base>>

\* Every request has been answered.
Finished ==
  /\ Busy = {}
  /\ \A e \in Entries : First(e) => pc[e] # "idle"
  /\ UNCHANGED vars

Handle(e) == CommitChange(e) \/ FlushChange(e) \/ ReadLast(e) \/ Insert(e)

Next ==
  \/ \E e \in Entries : Arrive(e) \/ Handle(e) \/ Fail(e)
  \/ Crash
  \/ Finished

Spec == Init /\ [][Next]_vars

\* A thread of the pool keeps running its handler.
FairSpec == Spec /\ \A e \in Entries : WF_vars(Handle(e))

-----------------------------------------------------------------------------
(* Properties.                                                             *)

RowOK(r) ==
  /\ r.seq \in Nat \ {0}
  /\ r.body \in Entries
  /\ r = [seq |-> r.seq, body |-> r.body, prev |-> r.prev,
          hash |-> Digest(r.seq, r.body, r.prev)]

\* Types: every row carries the digest of its own contents.
TypeOK ==
  /\ IsFiniteSet(log) /\ \A r \in log : RowOK(r)
  /\ changes \in SUBSET Entries
  /\ pc \in [Entries -> {"idle", "running", "committed", "flushed", "loaded",
                         "done", "failed"}]
  /\ DOMAIN base = Entries
  /\ \A e \in Entries : base[e].seq \in Nat
  /\ \A e \in Entries : pc[e] = "loaded" => base[e].seq # 0
  /\ writer \in Entries \cup {None}
  /\ faults \in Nat

\* What row contents continue some row of the log (or start it).
Continues(seq, prev) ==
  \/ seq = 1 /\ prev = GENESIS
  \/ \E r \in log : seq = r.seq + 1 /\ prev = r.hash

\* Every row of the log continues a row of the log: whatever appends race, the
\* rows form a tree rooted at GENESIS and the sequence numbers have no gap
\* (record(), audit.py:50-54).
Linked == \A r \in log : Continues(r.seq, r.prev)

\* Two rows carry one sequence number: two handlers read the same tip.
ForkAt(rows, n) == \E r, q \in rows : r # q /\ r.seq = n /\ q.seq = n

Forked(rows) == \E r \in rows : ForkAt(rows, r.seq)

\* Where verify_chain objects to an unaltered log, it reports the smallest
\* sequence number that two rows share.
VerdictIsFirstFork ==
  \A s \in OrdersBySeq(log) : \A i \in DOMAIN s :
    FirstBad(s, i) => /\ ForkAt(log, s[i].seq)
                      /\ \A j \in DOMAIN s : ForkAt(log, s[j].seq) => s[i].seq <= s[j].seq

\* Two rows with one sequence number never verify.
ForkIsReported ==
  \A s \in OrdersBySeq(log) :
    (\E i \in DOMAIN s : ForkAt(log, s[i].seq)) => ~Intact(s)

\* verify_chain objects to an unaltered log exactly when two appends raced, at
\* the smallest sequence number that two rows share, whichever order the query
\* returns tied rows in (audit.py:74-86).
VerdictIsExact == VerdictIsFirstFork /\ ForkIsReported

\* Losing any row that a later row continues is reported: the remaining rows
\* verify in no order (README.md:101, SECURITY.md:19).
InnerLossIsReported ==
  \A r \in log :
    (\E q \in log : q.prev = r.hash) =>
      \A s \in OrdersBySeq(log \ {r}) : ~Intact(s)

\* An entry that describes a change is in the log only if the change is in the
\* database: nothing is reported that did not happen.
NothingInvented == \A r \in log : Kind[r.body] = "alone" \/ r.body \in changes

\* A handler holds the write lock only while its change is pending.
LockIsPending ==
  writer # None => /\ pc[writer] \in {"flushed", "loaded"}
                   /\ Kind[writer] = "with"
                   /\ writer \notin changes

\* While one change-with-audit transaction is open on SQLite, no other append
\* commits: the tip it read is still the tip when it inserts.
LockedReadIsFresh ==
  \A e \in Entries :
    writer = e /\ pc[e] = "loaded" => base[e] \in NextAfter(log)

\* A handler the pool runs always ends: its entry is recorded, or the handler
\* has failed.  Waiting for the write lock starves nobody.
Recorded(e) == \E r \in log : r.body = e

EveryRequestIsRecorded ==
  \A e \in Entries : pc[e] = "running" ~> Recorded(e) \/ pc[e] = "failed"

\* The committed changes that no entry describes and nobody will record any more.
Lost == {e \in changes : ~Recorded(e) /\ ~Active(e)}

\* Only a failure or a crash between a handler's commit and record()'s keeps a
\* committed change out of the log, each no more changes than handlers were
\* running, and never one that was left pending for record() to commit
\* (admin.py:76 and auth.py:86-91).
LossesAreFew ==
  /\ \A e \in Lost : Kind[e] = "after"
  /\ Cardinality(Lost) <= PoolSize * faults

-----------------------------------------------------------------------------
(* What verify_chain confirms of the log, and the promise it keeps: the    *)
(* row with sequence number i is the i-th entry, up to the first fork.     *)

Unforked == {i \in {r.seq : r \in log} : \A r \in log : ForkAt(log, r.seq) => i < r.seq}

Confirmed == [i \in Unforked |-> (CHOOSE r \in log : r.seq = i).body]

\* A handler about to insert has read a tip that no longer is one.
Overtaken == \E e \in Entries : pc[e] = "loaded" /\ base[e] \notin NextAfter(log)

Promise == INSTANCE AuditChain WITH
             chain <- Confirmed, sound <- ~Forked(log), overtaken <- Overtaken

\* Whatever handlers run, the confirmed entries only grow at their end, each
\* recorded once, until an append that was overtaken between its read and its
\* insert forks the log; from then on they are only ever cut back (record(),
\* audit.py:50-69, as verify_chain sees it, audit.py:74-86).
ImplementsChain == Promise!Spec

-----------------------------------------------------------------------------
(* What the documentation says, and the code does not keep.                *)

\* "chain_intact" of an application that nobody has tampered with
\* (app/models.py:188, tests/test_api.py:152): it needs handlers that do not
\* overlap.
ChainIsIntact == \A s \in OrdersBySeq(log) : Intact(s)

\* "the audit log is appended in the same transaction as the change it
\* describes" (docs/ARCHITECTURE.md:48): then no handler could end, in any way,
\* with its change committed and its entry not.
ChangesAreRecorded == Lost = {}
=============================================================================
