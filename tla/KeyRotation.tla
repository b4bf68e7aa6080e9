---------------------------- MODULE KeyRotation ----------------------------
(***************************************************************************)
(* Field encryption and the rotation of its master key                     *)
(* (app/security/crypto.py, app/security/rotation.py and rotate_keys in    *)
(* app/routers/admin.py).                                                  *)
(*                                                                         *)
(* A handler that stores something seals it under the process's vault and  *)
(* commits the row later; triage and MFA enrolment seal a column of a row  *)
(* that is there.  A rotation reads the tables one after the other         *)
(* in the order of PLAN, seals every row again under a key it has just     *)
(* generated, commits once, records itself in the audit log and returns    *)
(* the key; the operator then configures it and restarts.  Handlers of     *)
(* both kinds run in one thread pool.                                      *)
(*                                                                         *)
(* The sealed columns and blind indexes a row is inserted with move        *)
(* together, so they are one field; the column set later is another.  Of a *)
(* field only the key it is under is modelled.  Keys are numbered as they  *)
(* are generated, rows as they are inserted.                               *)
(***************************************************************************)
EXTENDS Integers, FiniteSets

CONSTANTS
  Threads,    \* the thread pool
  NTables,    \* the tables of PLAN are 1..NTables: users is the first, audit_log the
              \* last, alerts the one before it
  MaxRows,    \* bound on the rows ever inserted
  MaxKeys,    \* bound on the keys ever generated
  MaxFaults,  \* bound on failed handlers and process crashes
  WriteLock,  \* TRUE: one writing transaction at a time (SQLite)
  None        \* no thread

ASSUME TablesAssumption == NTables \in Nat /\ NTables >= 3
ASSUME RowsAssumption == MaxRows \in Nat /\ MaxRows >= 2
ASSUME KeysAssumption == MaxKeys \in Nat \ {0}
ASSUME FaultsAssumption == MaxFaults \in Nat
ASSUME LockAssumption == WriteLock \in BOOLEAN
ASSUME ThreadAssumption == None \notin Threads

Tables == 1..NTables
Keys == 1..MaxKeys
NoKey == 0
UserTable == 1
AlertTable == NTables - 1
AuditTable == NTables

\* What a row was inserted with, and the column set later: users.mfa_secret_sealed
\* and alerts.resolution_note_sealed.
Fields == (1..MaxRows) \X {"value", "note"}

VARIABLES
  last,     \* how many rows there are; they are 1..last
  table,    \* the table of each row
  under,    \* the key each field is sealed under, NoKey when it is empty
  env,      \* the key the process was started with (settings are cached)
  vault,    \* the key of the cached vault, NoKey when there is none
  made,     \* how many keys have been generated
  known,    \* the keys the operator has
  job,      \* what each thread is doing
  writer,   \* the thread whose open transaction holds locks
  faults    \* failures so far

store == <<last, table, under>>
keys == <<env, vault, made, known>>
vars == <<store, keys, job, writer, faults>>

Rows == 1..last

\* A thread with nothing to do.  A job holds the key it seals under (a rotation
\* opens under) and the table of the row to insert; the row whose note it sets and
\* the key that note was under; for a rotation the new key, the table it reads
\* next, the fields it has sealed again and, as history, the fields that were
\* there when it began and have not been set since.
Idle == [at |-> "idle", table |-> 1, key |-> NoKey, row |-> 1, seen |-> NoKey,
         new |-> NoKey, moved |-> {}, due |-> {}]

\* Threads that have generated a key which the operator may not have yet.
Answering == {"committed", "recorded", "answering"}

At(h, place) == job[h].at = place

MayWrite(h) == writer \in {None, h}

\* The rows a rotation has flushed: it holds their locks until it ends.
Flushed(r) ==
  /\ writer # None
  /\ table[r] < job[writer].table - 1
  /\ \E f \in job[writer].moved : f[1] = r

Sealed == {f \in Fields : under[f] # NoKey}

\* The vault is built from the settings on first use.
Vault == IF vault = NoKey THEN env ELSE vault

\* The first administrator and the record of its creation have been sealed.
Init ==
  /\ last = 2
  /\ table = [r \in 1..MaxRows |-> IF r = 2 THEN AuditTable ELSE 1]
  /\ under = [f \in Fields |-> IF f \in {<<1, "value">>, <<2, "value">>} THEN 1 ELSE NoKey]
  /\ env = 1
  /\ vault = 1
  /\ made = 1
  /\ known = {1}
  /\ job = [h \in Threads |-> Idle]
  /\ writer = None
  /\ faults = 0

-----------------------------------------------------------------------------
(* Storing.                                                                *)

Seal(h, t) ==
  /\ At(h, "idle")
  /\ vault' = Vault
  /\ job' = [job EXCEPT ![h] = [Idle EXCEPT !.at = "sealed", !.table = t, !.key = Vault]]
  /\ UNCHANGED <<store, env, made, known, writer, faults>>

Insert(t, k) ==
  /\ last < MaxRows
  /\ last' = last + 1
  /\ table' = [table EXCEPT ![last'] = t]
  /\ under' = [under EXCEPT ![<<last', "value">>] = k]

Store(h) ==
  /\ At(h, "sealed")
  /\ WriteLock => MayWrite(h)
  /\ Insert(job[h].table, job[h].key)
  /\ job' = [job EXCEPT ![h] = Idle]
  /\ UNCHANGED <<keys, writer, faults>>

\* Triage, and MFA enrolment: the row is loaded and its note sealed.
Note(h, r) ==
  /\ At(h, "idle")
  /\ table[r] \in {UserTable, AlertTable}
  /\ vault' = Vault
  /\ job' = [job EXCEPT ![h] = [Idle EXCEPT !.at = "noting", !.key = Vault, !.row = r,
                                            !.seen = under[<<r, "note">>]]]
  /\ UNCHANGED <<store, env, made, known, writer, faults>>

\* The UPDATE.  Enrolment's is conditional on the secret being the one it loaded,
\* and is refused otherwise.
SetNote(h) ==
  LET field == <<job[h].row, "note">> IN
  /\ At(h, "noting")
  /\ IF WriteLock THEN MayWrite(h) ELSE ~Flushed(job[h].row)
  /\ IF table[job[h].row] = UserTable /\ under[field] # job[h].seen
     THEN /\ job' = [job EXCEPT ![h] = Idle]
          /\ UNCHANGED under
     ELSE /\ job' = [g \in Threads |-> IF g = h THEN Idle ELSE [job[g] EXCEPT !.due = @ \ {field}]]
          /\ under' = [under EXCEPT ![field] = job[h].key]
  /\ UNCHANGED <<last, table, keys, writer, faults>>

-----------------------------------------------------------------------------
(* Rotation.                                                               *)

RotateBegin(h) ==
  /\ At(h, "idle")
  /\ made < MaxKeys
  /\ made' = made + 1
  /\ vault' = Vault
  /\ job' = [job EXCEPT ![h] = [Idle EXCEPT !.at = "rotating", !.key = Vault, !.new = made',
                                           !.due = Sealed]]
  /\ UNCHANGED <<store, env, known, writer, faults>>

\* Mutant of Selected: the audit log is not in PLAN.
SelectedSparingAudit(h) ==
  {f \in Sealed : table[f[1]] = job[h].table /\ table[f[1]] # AuditTable}

\* The fields that are not empty in what a SELECT of the next table returns.
Selected(h) == {f \in Sealed : table[f[1]] = job[h].table}

\* Mutant of RotateTable: fields that do not open are passed over.
RotateReadable(h) ==
  /\ At(h, "rotating")
  /\ job[h].table <= NTables
  /\ job[h].moved # {} => MayWrite(h)
  /\ writer' = IF job[h].moved # {} THEN h ELSE writer
  /\ job' = [job EXCEPT ![h] = [@ EXCEPT !.table = @ + 1,
                !.moved = @ \cup {f \in Selected(h) : under[f] = job[h].key}]]
  /\ UNCHANGED <<store, keys, faults>>

\* Reading the next table first flushes what was sealed again so far, which
\* takes its locks (on SQLite the database's).  A field that does not open under
\* the old key ends the rotation: everything is rolled back.
RotateTable(h) ==
  /\ At(h, "rotating")
  /\ job[h].table <= NTables
  /\ job[h].moved # {} => MayWrite(h)
  /\ IF \A f \in Selected(h) : under[f] = job[h].key
     THEN /\ writer' = IF job[h].moved # {} THEN h ELSE writer
          /\ job' = [job EXCEPT ![h] = [@ EXCEPT !.table = job[h].table + 1,
                                                 !.moved = job[h].moved \cup Selected(h)]]
     ELSE /\ writer' = IF writer = h THEN None ELSE writer
          /\ job' = [job EXCEPT ![h] = Idle]
  /\ UNCHANGED <<store, keys, faults>>

RotateCommit(h) ==
  /\ At(h, "rotating")
  /\ job[h].table > NTables
  /\ MayWrite(h)
  /\ under' = [f \in Fields |-> IF f \in job[h].moved THEN job[h].new ELSE under[f]]
  /\ writer' = None
  /\ job' = [job EXCEPT ![h] = [@ EXCEPT !.at = "committed"]]
  /\ UNCHANGED <<last, table, keys, faults>>

\* The audit entry's detail is sealed under the process's vault.
RotateRecord(h) ==
  /\ At(h, "committed")
  /\ WriteLock => MayWrite(h)
  /\ Insert(AuditTable, Vault)
  /\ vault' = Vault
  /\ job' = [job EXCEPT ![h] = [@ EXCEPT !.at = "recorded"]]
  /\ UNCHANGED <<env, made, known, writer, faults>>

\* Mutant of RotateReset: the key is left out of the response.
ResetAndForget(h) ==
  /\ At(h, "recorded")
  /\ vault' = NoKey
  /\ job' = [job EXCEPT ![h] = Idle]
  /\ UNCHANGED <<store, env, made, known, writer, faults>>

RotateReset(h) ==
  /\ At(h, "recorded")
  /\ vault' = NoKey
  /\ job' = [job EXCEPT ![h] = [@ EXCEPT !.at = "answering"]]
  /\ UNCHANGED <<store, env, made, known, writer, faults>>

\* The response reaches the operator: the only time the key is shown.
RotateAnswer(h) ==
  /\ At(h, "answering")
  /\ known' = known \cup {job[h].new}
  /\ job' = [job EXCEPT ![h] = Idle]
  /\ UNCHANGED <<store, env, vault, made, writer, faults>>

-----------------------------------------------------------------------------
(* The environment.                                                        *)

\* The operator configures a newer key and restarts.
Deploy(k) ==
  /\ \A h \in Threads : At(h, "idle")
  /\ k \in known
  /\ k > env
  /\ env' = k
  /\ vault' = NoKey
  /\ UNCHANGED <<store, made, known, job, writer, faults>>

\* The handler's transaction fails and rolls back, or its response is lost.
Fail(h) ==
  /\ ~At(h, "idle")
  /\ faults < MaxFaults
  /\ faults' = faults + 1
  /\ job' = [job EXCEPT ![h] = Idle]
  /\ writer' = IF writer = h THEN None ELSE writer
  /\ UNCHANGED <<store, keys>>

\* The process dies and is started again as it was configured.
Crash ==
  /\ \E h \in Threads : ~At(h, "idle")
  /\ faults < MaxFaults
  /\ faults' = faults + 1
  /\ job' = [h \in Threads |-> Idle]
  /\ writer' = None
  /\ vault' = NoKey
  /\ UNCHANGED <<store, env, made, known>>

Rotate(h) ==
  \/ RotateBegin(h) \/ RotateTable(h) \/ RotateCommit(h)
  \/ RotateRecord(h) \/ RotateReset(h) \/ RotateAnswer(h)

Next ==
  \/ \E h \in Threads : \/ \E t \in Tables : Seal(h, t)
                      \/ Store(h)
                      \/ \E r \in Rows : Note(h, r)
                      \/ SetNote(h)
                      \/ Rotate(h)
                      \/ Fail(h)
  \/ \E k \in Keys : Deploy(k)
  \/ Crash

Spec == Init /\ [][Next]_vars

-----------------------------------------------------------------------------
(* Properties.                                                             *)

Jobs ==
  [at : {"idle", "sealed", "noting", "rotating"} \cup Answering, table : 1..(NTables + 1),
   key : Keys \cup {NoKey}, row : 1..MaxRows, seen : Keys \cup {NoKey},
   new : Keys \cup {NoKey}, moved : SUBSET Fields, due : SUBSET Fields]

\* Types.  Every row is under a key that has been generated, and the cached
\* vault is the configured one.
TypeOK ==
  /\ last \in 0..MaxRows
  /\ table \in [1..MaxRows -> Tables]
  /\ under \in [Fields -> NoKey..made]
  /\ \A f \in Fields : under[f] # NoKey => f[1] \in Rows
  /\ \A r \in Rows : under[<<r, "value">>] # NoKey
  /\ made \in Keys
  /\ env \in known
  /\ vault \in {NoKey, env}
  /\ known \in SUBSET (1..made)
  /\ job \in [Threads -> Jobs]
  /\ writer \in Threads \cup {None}
  /\ \A h \in Threads : job[h].due \subseteq Sealed
  /\ faults \in 0..MaxFaults

\* When a rotation is about to return its key, that key opens every field that
\* was there when it began and has not been set since, whatever was stored,
\* rotated or rolled back meanwhile (rotation.py:121-153).
RotationIsComplete ==
  \A h \in Threads : job[h].at \in Answering => \A f \in job[h].due : under[f] = job[h].new

\* While some field is under another key than the configured one, no rotation
\* moves anything: "Anything that cannot be opened under the old key aborts the
\* rotation" (rotation.py:125).
StaleFieldBlocks ==
  [][(\E g \in Sealed : under[g] # env) =>
       \A f \in Fields : under'[f] # under[f] => under'[f] = env]_vars

\* Unless something fails, the operator has every key that fields are under, or a
\* handler is on its way to return it.
KeyIsReturned ==
  faults = 0 =>
    \A f \in Sealed : \/ under[f] \in known
                      \/ \E h \in Threads : job[h].at \in Answering /\ job[h].new = under[f]

-----------------------------------------------------------------------------
(* What the documentation says, and the code does not keep.                *)

\* "A partial rotation is worse than none: the fields left behind become
\* unreadable the moment the old key is retired" (admin.py:136): when the
\* operator has restarted with the newest key, every field opens under it.
NothingLeftBehind ==
  (\A h \in Threads : At(h, "idle")) /\ (\A k \in known : k <= env) =>
    \A f \in Sealed : under[f] = env
=============================================================================
