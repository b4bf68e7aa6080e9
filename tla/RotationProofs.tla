--------------------------- MODULE RotationProofs ---------------------------
(***************************************************************************)
(* Proofs about KeyRotation, for any thread pool and any number of tables, *)
(* rows, keys and faults, on either database.                              *)
(***************************************************************************)
EXTENDS KeyRotation, TLAPS

\* The fields that are always there: the first administrator's, which every
\* rotation reads first, and the one of the entry about it, read last.
First == <<1, "value">>
Entry == <<2, "value">>

Grounded == last >= 2 /\ table[1] = UserTable /\ table[2] = AuditTable

\* Whoever is busy seals under the configured key, for it is configured anew
\* only when nobody is, and a rotation's key is a later one.
KeysOK ==
  \A h \in Threads :
    /\ ~At(h, "idle") => job[h].key = env
    /\ At(h, "sealed") => job[h].table \in Tables
    /\ At(h, "noting") => job[h].row \in Rows
    /\ At(h, "rotating") \/ job[h].at \in Answering => env < job[h].new /\ job[h].new <= made
    /\ job[h].moved \subseteq Sealed

IInv == TypeOK /\ Grounded /\ KeysOK

USE TablesAssumption, RowsAssumption, KeysAssumption, FaultsAssumption, LockAssumption, ThreadAssumption

LEMMA IdleTyped == Idle \in Jobs
  BY DEF Idle, Jobs, Keys, NoKey, Fields, Answering

LEMMA InitInv == Init => IInv
  BY IdleTyped
  DEF Init, IInv, TypeOK, Grounded, KeysOK, Tables, Keys, NoKey, UserTable, AuditTable, Fields, Rows,
      Sealed, At, Idle, Answering

\* What a step does with the fields: they are never emptied.
LEMMA InsertTyped ==
  ASSUME IInv, NEW t \in Tables, NEW k \in Keys, k <= made, Insert(t, k)
  PROVE  /\ last' \in 0..MaxRows /\ last' = last + 1
         /\ table' \in [1..MaxRows -> Tables]
         /\ under' \in [Fields -> NoKey..made]
         /\ \A f \in Fields : under'[f] # NoKey => f[1] \in Rows'
         /\ \A r \in Rows' : under'[<<r, "value">>] # NoKey
         /\ Sealed \subseteq Sealed'
         /\ Grounded'
         /\ \A f \in Sealed : under'[f] = under[f] /\ table'[f[1]] = table[f[1]]
         /\ \A f \in Fields : under'[f] = under[f] \/ under'[f] = k
  BY SMTT(40) DEF Insert, IInv, TypeOK, Grounded, Fields, Rows, Sealed, NoKey, Keys, Tables, UserTable, AuditTable

\* Everything but the jobs, which a step that stores nothing leaves typed.
TypesRest ==
  /\ last \in 0..MaxRows
  /\ table \in [1..MaxRows -> Tables]
  /\ under \in [Fields -> NoKey..made]
  /\ \A f \in Fields : under[f] # NoKey => f[1] \in Rows
  /\ \A r \in Rows : under[<<r, "value">>] # NoKey
  /\ made \in Keys
  /\ env \in known
  /\ vault \in {NoKey, env}
  /\ known \in SUBSET (1..made)
  /\ writer \in Threads \cup {None}
  /\ faults \in 0..MaxFaults
  /\ Grounded

\* One handler's job.
JobOK(h) ==
  /\ job[h] \in Jobs
  /\ job[h].due \subseteq Sealed
  /\ job[h].moved \subseteq Sealed
  /\ ~At(h, "idle") => job[h].key = env
  /\ At(h, "sealed") => job[h].table \in Tables
  /\ At(h, "noting") => job[h].row \in Rows
  /\ At(h, "rotating") \/ job[h].at \in Answering => env < job[h].new /\ job[h].new <= made

LEMMA Parts == IInv <=> TypesRest /\ job \in [Threads -> Jobs] /\ \A h \in Threads : JobOK(h)
  BY DEF IInv, TypeOK, TypesRest, KeysOK, JobOK

LEMMA VaultFacts ==
  ASSUME TypesRest
  PROVE  Vault = env /\ env \in Keys /\ env <= made /\ env # NoKey
  BY DEF TypesRest, Vault, Keys, NoKey

LEMMA StepRest ==
  ASSUME IInv, [Next]_vars
  PROVE  TypesRest' /\ Sealed \subseteq Sealed'
  <1>0. TypesRest /\ (\A h \in Threads : JobOK(h)) /\ Vault = env /\ env \in Keys /\ env <= made
        /\ env # NoKey
    BY Parts, VaultFacts
  <1> USE <1>0 DEF TypesRest
  <1>1. ASSUME NEW h \in Threads, NEW t \in Tables, Seal(h, t) PROVE TypesRest' /\ Sealed \subseteq Sealed'
    BY <1>1 DEF Seal, store, Grounded, Sealed, Rows
  <1>2. ASSUME NEW h \in Threads, Store(h) PROVE TypesRest' /\ Sealed \subseteq Sealed'
    <2>1. job[h].key = env /\ job[h].table \in Tables
      BY <1>2 DEF Store, At, JobOK, Jobs, Tables
    <2> QED BY <1>2, <2>1, InsertTyped DEF Store, keys
  <1>3. ASSUME NEW h \in Threads, NEW r \in Rows, Note(h, r) PROVE TypesRest' /\ Sealed \subseteq Sealed'
    BY <1>3 DEF Note, store, Grounded, Sealed, Rows
  <1>4. ASSUME NEW h \in Threads, SetNote(h) PROVE TypesRest' /\ Sealed \subseteq Sealed'
    <2> DEFINE f == <<job[h].row, "note">>
    <2>1. job[h].key = env /\ job[h].row \in Rows /\ Rows \subseteq 1..MaxRows
      BY <1>4 DEF SetNote, At, JobOK, Rows
    <2>2. f \in Fields /\ f[1] \in Rows /\ f[2] = "note"
      BY <2>1 DEF Fields
    <2>3. under' = under \/ under' = [under EXCEPT ![f] = env]
      BY <1>4, <2>1 DEF SetNote
    <2>4. \A r \in Rows : <<r, "value">> \in Fields /\ <<r, "value">> # f
      BY <2>1 DEF Fields
    <2> HIDE DEF f
    <2>5. under' \in [Fields -> NoKey..made]
      BY <2>2, <2>3 DEF NoKey, Keys
    <2>6. \A g \in Fields : under'[g] = under[g] \/ (g = f /\ under'[g] = env)
      BY <2>2, <2>3
    <2>7. \A g \in Fields : under'[g] # NoKey => g[1] \in Rows
      BY <2>2, <2>6
    <2>8. Sealed \subseteq Sealed'
      BY <2>6 DEF Sealed
    <2>9. \A r \in Rows : under'[<<r, "value">>] # NoKey
      BY <2>4, <2>6
    <2> QED BY <1>4, <2>5, <2>7, <2>8, <2>9 DEF SetNote, keys, Grounded, Rows
  <1>5. ASSUME NEW h \in Threads, RotateBegin(h) PROVE TypesRest' /\ Sealed \subseteq Sealed'
    BY <1>5 DEF RotateBegin, store, Grounded, Sealed, Rows, Keys, NoKey
  <1>6. ASSUME NEW h \in Threads, RotateTable(h) PROVE TypesRest' /\ Sealed \subseteq Sealed'
    BY <1>6 DEF RotateTable, store, keys, Grounded, Sealed, Rows
  <1>7. ASSUME NEW h \in Threads, RotateCommit(h) PROVE TypesRest' /\ Sealed \subseteq Sealed'
    <2>1. job[h].new \in 1..made /\ job[h].moved \subseteq Sealed
      BY <1>7 DEF RotateCommit, At, JobOK, Jobs, Keys, NoKey
    <2> QED BY SMTT(40), <1>7, <2>1 DEF RotateCommit, keys, Grounded, Sealed, Rows, NoKey, Fields
  <1>8. ASSUME NEW h \in Threads, RotateRecord(h) PROVE TypesRest' /\ Sealed \subseteq Sealed'
    <2>1. AuditTable \in Tables /\ Insert(AuditTable, env)
      BY <1>8 DEF RotateRecord, AuditTable, Tables
    <2> QED BY <1>8, <2>1, InsertTyped DEF RotateRecord
  <1>9. ASSUME NEW h \in Threads, RotateReset(h) \/ RotateAnswer(h) PROVE TypesRest' /\ Sealed \subseteq Sealed'
    <2>1. job[h].new \in 1..made
      BY <1>9 DEF RotateReset, RotateAnswer, At, Answering, JobOK, Jobs, Keys, NoKey
    <2> QED BY <1>9, <2>1 DEF RotateReset, RotateAnswer, store, Grounded, Sealed, Rows
  <1>10. ASSUME NEW k \in Keys, Deploy(k) PROVE TypesRest' /\ Sealed \subseteq Sealed'
    BY <1>10 DEF Deploy, store, Grounded, Sealed, Rows
  <1>11. ASSUME NEW h \in Threads, Fail(h) PROVE TypesRest' /\ Sealed \subseteq Sealed'
    BY <1>11 DEF Fail, store, keys, Grounded, Sealed, Rows
  <1>12. ASSUME Crash PROVE TypesRest' /\ Sealed \subseteq Sealed'
    BY <1>12 DEF Crash, store, Grounded, Sealed, Rows
  <1>13. ASSUME UNCHANGED vars PROVE TypesRest' /\ Sealed \subseteq Sealed'
    BY <1>13 DEF vars, store, keys, Grounded, Sealed, Rows
  <1> QED
    BY <1>1, <1>2, <1>3, <1>4, <1>5, <1>6, <1>7, <1>8, <1>9, <1>10, <1>11, <1>12, <1>13 DEF Next, Rotate

\* A job that a step leaves alone, and an idle one, stay as they should be.
LEMMA JobStays ==
  ASSUME IInv, [Next]_vars, NEW g \in Threads, JobOK(g), job'[g] = job[g], env' = env
  PROVE  JobOK(g)'
  <1>1. TypesRest /\ TypesRest' /\ Sealed \subseteq Sealed'
    BY StepRest, Parts
  <1>2. made \in Int /\ last \in Int
    BY <1>1 DEF TypesRest, Keys
  <1>3. made' = made \/ made' = made + 1
    BY DEF Next, Rotate, Seal, Store, Note, SetNote, RotateBegin, RotateTable, RotateCommit,
       RotateRecord, RotateReset, RotateAnswer, Deploy, Fail, Crash, vars, keys
  <1>4. last' = last \/ last' = last + 1
    BY ZenonT(60) DEF Next, Rotate, Seal, Store, Note, SetNote, RotateBegin, RotateTable, RotateCommit,
       RotateRecord, RotateReset, RotateAnswer, Deploy, Fail, Crash, Insert, vars, store
  <1>5. \A r \in Rows : r \in Rows'
    BY <1>2, <1>4 DEF Rows
  <1>6. job[g].new \in Int
    BY DEF JobOK, Jobs, Keys, NoKey
  <1> QED BY <1>1, <1>2, <1>3, <1>5, <1>6 DEF JobOK, At

LEMMA IdleJob == ASSUME NEW g \in Threads, job'[g] = Idle PROVE JobOK(g)'
  BY IdleTyped DEF JobOK, Idle, At, Answering

LEMMA StepJob ==
  ASSUME IInv, [Next]_vars
  PROVE  job' \in [Threads -> Jobs] /\ \A g \in Threads : JobOK(g)'
  <1>0. /\ TypesRest /\ TypesRest' /\ Sealed \subseteq Sealed'
        /\ \A g \in Threads : JobOK(g)
        /\ job \in [Threads -> Jobs]
        /\ Vault = env /\ env \in Keys /\ env <= made
    BY Parts, VaultFacts, StepRest
  <1>q. \A g \in Threads : JobOK(g)' => job'[g] \in Jobs
    BY DEF JobOK
  <1> DEFINE Goal == job' \in [Threads -> Jobs] /\ \A g \in Threads : JobOK(g)'
  <1>a. ASSUME NEW h \in Threads, NEW j \in Jobs, job' = [job EXCEPT ![h] = j], env' = env, JobOK(h)'
        PROVE  Goal
    <2>1. \A g \in Threads \ {h} : job'[g] = job[g]
      BY <1>0, <1>a
    <2> QED BY <1>0, <1>a, <2>1, JobStays
  <1>b. ASSUME NEW h \in Threads, job' = [job EXCEPT ![h] = Idle], env' = env PROVE Goal
    BY <1>0, <1>a, <1>b, IdleTyped, IdleJob
  <1>1. ASSUME NEW h \in Threads, NEW t \in Tables, Seal(h, t) PROVE Goal
    <2> DEFINE j == [Idle EXCEPT !.at = "sealed", !.table = t, !.key = env]
    <2>0. t \in 1..(NTables + 1)
      BY DEF Tables
    <2>1. j \in Jobs /\ j.at = "sealed" /\ j.table = t /\ j.key = env /\ j.moved = {} /\ j.due = {}
      BY <1>0, <2>0, IdleTyped DEF Idle, Jobs
    <2>2. job' = [job EXCEPT ![h] = j] /\ env' = env /\ job'[h] = j
      BY <1>0, <1>1 DEF Seal
    <2>3. JobOK(h)'
      BY <2>1, <2>2 DEF JobOK, At, Answering
    <2> QED BY <1>a, <2>1, <2>2, <2>3
  <1>2. ASSUME NEW h \in Threads, Store(h) PROVE Goal
    BY <1>b, <1>2 DEF Store, keys
  <1>3. ASSUME NEW h \in Threads, NEW r \in Rows, Note(h, r) PROVE Goal
    <2> DEFINE j == [Idle EXCEPT !.at = "noting", !.key = env, !.row = r, !.seen = under[<<r, "note">>]]
    <2>1. r \in 1..MaxRows /\ <<r, "note">> \in Fields /\ under[<<r, "note">>] \in Keys \cup {NoKey}
      BY SMTT(40), <1>0 DEF TypesRest, Rows, Fields, Keys, NoKey
    <2>2. j \in Jobs /\ j.at = "noting" /\ j.row = r /\ j.key = env /\ j.moved = {} /\ j.due = {}
      BY <1>0, <2>1, IdleTyped DEF Idle, Jobs
    <2>3. job' = [job EXCEPT ![h] = j] /\ env' = env /\ job'[h] = j /\ Rows' = Rows
      BY <1>0, <1>3 DEF Note, store, Rows
    <2> HIDE DEF j
    <2>4. JobOK(h)'
      BY <2>2, <2>3 DEF JobOK, At, Answering
    <2> QED BY <1>a, <2>2, <2>3, <2>4
  <1>4. ASSUME NEW h \in Threads, SetNote(h) PROVE Goal
    <2> DEFINE f == <<job[h].row, "note">>
    <2>1. CASE job' = [job EXCEPT ![h] = Idle]
      BY <1>b, <1>4, <2>1 DEF SetNote, keys
    <2>2. CASE job' = [g \in Threads |-> IF g = h THEN Idle ELSE [job[g] EXCEPT !.due = @ \ {f}]]
      <3>1. ASSUME NEW g \in Threads, g # h PROVE JobOK(g)'
        <4> DEFINE j == [job[g] EXCEPT !.due = @ \ {f}]
        <4>1. /\ j \in Jobs /\ j.at = job[g].at /\ j.key = job[g].key /\ j.table = job[g].table
              /\ j.row = job[g].row /\ j.new = job[g].new /\ j.moved = job[g].moved
              /\ j.due \subseteq job[g].due
          BY <1>0, <3>1 DEF Jobs
        <4>2. job'[g] = j /\ env' = env /\ made' = made /\ Rows' = Rows
          BY <1>4, <2>2, <3>1 DEF SetNote, keys, Rows
        <4> HIDE DEF j
        <4> QED BY <1>0, <4>1, <4>2 DEF JobOK, At
      <3>2. JobOK(h)'
        BY <2>2, IdleJob
      <3> QED BY <1>q, <2>2, <3>1, <3>2
    <2> QED BY <1>4, <2>1, <2>2 DEF SetNote
  <1>5. ASSUME NEW h \in Threads, RotateBegin(h) PROVE Goal
    <2> DEFINE j == [Idle EXCEPT !.at = "rotating", !.key = env, !.new = made', !.due = Sealed]
    <2>0. made \in Int /\ env \in Int
      BY <1>0 DEF TypesRest, Keys
    <2>1. made' = made + 1 /\ made' \in Keys /\ Sealed \subseteq Fields /\ Sealed' = Sealed
      BY <1>0, <1>5 DEF RotateBegin, TypesRest, Keys, Sealed, store
    <2>2. j \in Jobs /\ j.at = "rotating" /\ j.new = made' /\ j.key = env /\ j.moved = {} /\ j.due = Sealed
      BY <1>0, <2>1, IdleTyped DEF Idle, Jobs
    <2>3. job' = [job EXCEPT ![h] = j] /\ env' = env /\ job'[h] = j
      BY <1>0, <1>5 DEF RotateBegin
    <2> HIDE DEF j
    <2>4. JobOK(h)'
      BY <1>0, <2>0, <2>1, <2>2, <2>3 DEF JobOK, At, Answering
    <2> QED BY <1>a, <2>2, <2>3, <2>4
  <1>6. ASSUME NEW h \in Threads, RotateTable(h) PROVE Goal
    <2> DEFINE j == [job[h] EXCEPT !.table = job[h].table + 1, !.moved = job[h].moved \cup Selected(h)]
    <2>1. CASE job' = [job EXCEPT ![h] = Idle]
      BY <1>b, <1>6, <2>1 DEF RotateTable, keys
    <2>2. CASE job' = [job EXCEPT ![h] = j]
      <3>1. /\ job[h].table \in 1..NTables /\ job[h].at = "rotating" /\ env' = env /\ made' = made
            /\ Sealed' = Sealed /\ Selected(h) \subseteq Sealed /\ Sealed \subseteq Fields
        BY <1>0, <1>6 DEF RotateTable, keys, store, Jobs, At, Sealed, Selected
      <3>0. /\ job[h].table + 1 \in 1..(NTables + 1)
            /\ job[h].moved \cup Selected(h) \in SUBSET Fields
        BY <1>0, <3>1 DEF Jobs
      <3>2. /\ j \in Jobs /\ j.at = "rotating" /\ j.key = job[h].key /\ j.new = job[h].new
            /\ j.moved = job[h].moved \cup Selected(h) /\ j.due = job[h].due
        BY ZenonT(60), <1>0, <3>0, <3>1 DEF Jobs
      <3>3. job'[h] = j
        BY <1>0, <2>2
      <3> HIDE DEF j
      <3>4. JobOK(h)'
        BY <1>0, <3>1, <3>2, <3>3 DEF JobOK, At
      <3> QED BY <1>a, <2>2, <3>1, <3>2, <3>4
    <2>3. CASE \A f \in Selected(h) : under[f] = job[h].key
      BY <1>6, <2>2, <2>3 DEF RotateTable
    <2>4. CASE ~\A f \in Selected(h) : under[f] = job[h].key
      BY <1>6, <2>1, <2>4 DEF RotateTable
    <2> QED BY <2>3, <2>4
  <1>7. ASSUME NEW h \in Threads, NEW place \in Answering, job' = [job EXCEPT ![h] = [@ EXCEPT !.at = place]],
               At(h, "rotating") \/ job[h].at \in Answering, env' = env, made' = made
        PROVE  Goal
    <2> DEFINE j == [job[h] EXCEPT !.at = place]
    <2>1. /\ j \in Jobs /\ j.at = place /\ j.key = job[h].key /\ j.new = job[h].new
          /\ j.moved = job[h].moved /\ j.due = job[h].due
      BY <1>0 DEF Jobs
    <2>2. job'[h] = j /\ job' = [job EXCEPT ![h] = j]
      BY <1>0, <1>7
    <2> HIDE DEF j
    <2>3. JobOK(h)'
      BY <1>0, <1>7, <2>1, <2>2 DEF JobOK, At, Answering
    <2> QED BY <1>a, <1>7, <2>1, <2>2, <2>3
  <1>8. ASSUME NEW h \in Threads, RotateCommit(h) \/ RotateRecord(h) \/ RotateReset(h) PROVE Goal
    BY <1>7, <1>8 DEF RotateCommit, RotateRecord, RotateReset, keys, Answering, At
  <1>9. ASSUME NEW h \in Threads, RotateAnswer(h) \/ Fail(h) PROVE Goal
    BY <1>b, <1>9 DEF RotateAnswer, Fail, keys
  <1>10. ASSUME NEW k \in Keys, Deploy(k) PROVE Goal
    BY <1>0, <1>q, <1>10 DEF Deploy, store, JobOK, At, Answering, Sealed
  <1>11. ASSUME Crash PROVE Goal
    BY <1>11, <1>q, IdleJob DEF Crash
  <1>12. ASSUME UNCHANGED vars PROVE Goal
    BY <1>0, <1>12, JobStays DEF vars, keys
  <1> QED
    BY <1>1, <1>2, <1>3, <1>4, <1>5, <1>6, <1>8, <1>9, <1>10, <1>11, <1>12 DEF Next, Rotate

LEMMA StepInv == IInv /\ [Next]_vars => IInv'
  <1> SUFFICES ASSUME IInv, [Next]_vars PROVE IInv'
    OBVIOUS
  <1>1. TypesRest' /\ job' \in [Threads -> Jobs] /\ \A h \in Threads : JobOK(h)'
    BY StepRest, StepJob
  <1> QED BY <1>1 DEF IInv, TypeOK, TypesRest, KeysOK, JobOK

LEMMA Invariance == Spec => []IInv
  BY InitInv, StepInv, PTL DEF Spec

\* The state has its type for any number of threads, tables, rows, keys and
\* faults: every field is under a key that has been generated, and whatever a
\* rotation holds was there.
THEOREM RotationTyping == Spec => []TypeOK
  BY Invariance, PTL DEF IInv

-----------------------------------------------------------------------------
(* Why rotations do not mix.  A rotation that has read two tables holds    *)
(* the write locks, for it has read the first administrator, whom every    *)
(* rotation moves; and it reads the entry about that administrator last.   *)
(* Whoever commits has therefore read everything under the configured key, *)
(* and leaves that entry under another one until the operator restarts, so *)
(* no second rotation commits before.                                      *)

Reading(h) ==
  At(h, "rotating") =>
    /\ job[h].table >= 2 => First \in job[h].moved
    /\ job[h].table >= 3 => writer = h
    /\ job[h].table > NTables => under[Entry] = env /\ Entry \in job[h].moved
    /\ \A f \in job[h].due : table[f[1]] < job[h].table => f \in job[h].moved
    /\ under[Entry] = env => \A f \in Sealed : table[f[1]] < job[h].table => under[f] = env

Answered(h) ==
  job[h].at \in Answering => under[Entry] # env /\ \A f \in job[h].due : under[f] = job[h].new

Apart == \A h \in Threads : Reading(h) /\ Answered(h)

\* What the proofs below use of the invariant above.
LEMMA Basics ==
  ASSUME IInv
  PROVE  /\ \A h \in Threads : /\ job[h] \in Jobs /\ job[h].table \in Int
                               /\ job[h].due \subseteq Sealed /\ job[h].moved \subseteq Sealed
                               /\ ~At(h, "idle") => job[h].key = env
                               /\ At(h, "rotating") => env < job[h].new
         /\ Vault = env /\ env \in Int /\ env # NoKey /\ env \in Keys /\ env <= made
         /\ First \in Sealed /\ Entry \in Sealed /\ Sealed \subseteq Fields
         /\ table[1] = UserTable /\ table[2] = AuditTable
         /\ \A f \in Sealed : table[f[1]] \in Tables /\ f[1] \in Rows
         /\ under \in [Fields -> Int]
  <1>1. TypesRest /\ \A h \in Threads : JobOK(h)
    BY Parts
  <1>2. Vault = env /\ env \in Int /\ env # NoKey /\ env \in Keys /\ env <= made
    BY <1>1, VaultFacts DEF Keys
  <1>3. \A h \in Threads : job[h].table \in Int
    BY <1>1 DEF JobOK, Jobs
  <1>4. First \in Sealed /\ Entry \in Sealed /\ Sealed \subseteq Fields
    BY <1>1 DEF TypesRest, Grounded, Rows, First, Entry, Sealed, Fields
  <1>5. \A f \in Sealed : table[f[1]] \in Tables /\ f[1] \in Rows
    BY <1>1 DEF TypesRest, Rows, Sealed, Fields
  <1>6. under \in [Fields -> Int]
    BY <1>1 DEF TypesRest, NoKey, Keys
  <1> QED BY <1>1, <1>2, <1>3, <1>4, <1>5, <1>6 DEF JobOK, TypesRest, Grounded

\* A thread is not disturbed by what seals under the configured key, leaves the
\* entry alone and does not take the locks from it.
LEMMA Undisturbed ==
  ASSUME IInv, NEW g \in Threads, Reading(g), Answered(g), env' = env,
         At(g, "rotating")' => At(g, "rotating"),
         job'[g].at \in Answering => job[g].at \in Answering,
         job'[g].table = job[g].table, job'[g].moved = job[g].moved, job'[g].new = job[g].new,
         job'[g].due \subseteq job[g].due,
         \A f \in job'[g].due : under'[f] = under[f],
         writer = g => writer' = g,
         \A f \in Sealed : table'[f[1]] = table[f[1]],
         \A f \in Fields : under'[f] = under[f] \/ under'[f] = env,
         under'[Entry] = under[Entry]
  PROVE  Reading(g)' /\ Answered(g)'
  <1>1. ASSUME NEW f \in Sealed', under'[f] # env PROVE f \in Sealed /\ under'[f] = under[f]
    BY <1>1 DEF Sealed
  <1>2. Sealed' \subseteq Fields
    BY DEF Sealed
  <1> QED BY <1>1, <1>2, Basics DEF Reading, Answered

LEMMA NotRotating ==
  ASSUME NEW g \in Threads, ~At(g, "rotating")', job'[g].at \notin Answering
  PROVE  Reading(g)' /\ Answered(g)'
  BY DEF Reading, Answered

LEMMA BecomesIdle == ASSUME NEW g \in Threads, job'[g] = Idle PROVE Reading(g)' /\ Answered(g)'
  BY NotRotating DEF Idle, At, Answering

LEMMA InsertApart ==
  ASSUME IInv, NEW t \in Tables, Insert(t, env), NEW g \in Threads, Reading(g), Answered(g),
         env' = env, writer' = writer, job'[g].table = job[g].table, job'[g].moved = job[g].moved,
         job'[g].new = job[g].new, job'[g].due = job[g].due,
         At(g, "rotating")' => At(g, "rotating"),
         job'[g].at \in Answering => job[g].at \in Answering
  PROVE  Reading(g)' /\ Answered(g)'
  <1>1. /\ \A f \in Sealed : under'[f] = under[f] /\ table'[f[1]] = table[f[1]]
        /\ \A f \in Fields : under'[f] = under[f] \/ under'[f] = env
    BY InsertTyped, Basics
  <1> QED BY <1>1, Undisturbed, Basics

LEMMA TableApart ==
  ASSUME IInv, Apart, NEW h \in Threads, RotateTable(h), NEW g \in Threads
  PROVE  Reading(g)' /\ Answered(g)'
  <1>0. job \in [Threads -> Jobs] /\ Reading(g) /\ Answered(g)
    BY DEF IInv, TypeOK, Apart
  <1>1. env' = env /\ under' = under /\ table' = table /\ Sealed' = Sealed
    BY DEF RotateTable, keys, store, Sealed
  <1>2. writer = g /\ g # h => writer' = g
    BY ThreadAssumption DEF RotateTable, MayWrite
  <1>3. CASE g # h
    <2>1. job'[g] = job[g]
      BY <1>0, <1>3 DEF RotateTable
    <2> QED BY <1>0, <1>1, <1>2, <1>3, <2>1, Undisturbed, Basics DEF At
  <1>4. CASE g = h /\ ~\A f \in Selected(h) : under[f] = job[h].key
    BY <1>0, <1>4, BecomesIdle DEF RotateTable
  <1>5. CASE g = h /\ \A f \in Selected(h) : under[f] = job[h].key
    <2>1. /\ job'[h] = [job[h] EXCEPT !.table = job[h].table + 1,
                                      !.moved = job[h].moved \cup Selected(h)]
          /\ job[h].moved # {} => writer' = h
      BY <1>0, <1>5 DEF RotateTable
    <2>2. job[h] \in Jobs /\ At(h, "rotating") /\ job[h].key = env /\ job[h].table \in 1..NTables
      BY <1>0, Basics DEF RotateTable, At, Jobs
    <2>3. /\ job'[h].at = "rotating" /\ job'[h].table = job[h].table + 1 /\ job'[h].due = job[h].due
          /\ job'[h].moved = job[h].moved \cup Selected(h)
      BY <2>1, <2>2 DEF Jobs, At
    <2>4. \A f \in Sealed : table[f[1]] = job[h].table => f \in Selected(h) /\ under[f] = env
      BY <1>5, <2>2 DEF Selected
    <2>5. \A f \in Sealed : table[f[1]] \in Int
      BY Basics DEF Tables
    <2>6. table[First[1]] = 1 /\ table[Entry[1]] = NTables
      BY Basics DEF First, Entry, UserTable, AuditTable
    <2>7. job[h].table >= 1 => First \in job'[h].moved
      BY <1>0, <1>5, <2>2, <2>3, <2>4, <2>6, Basics DEF Reading
    <2>8. job[h].table >= 2 => writer' = h
      BY <1>0, <1>5, <2>1, <2>2 DEF Reading
    <2>9. job[h].table >= NTables => under[Entry] = env /\ Entry \in job'[h].moved
      BY <2>2, <2>3, <2>4, <2>6, Basics
    <2>10. \A f \in job[h].due : table[f[1]] < job[h].table + 1 => f \in job'[h].moved
      BY <1>0, <1>5, <2>2, <2>3, <2>4, <2>5, Basics DEF Reading
    <2>11. under[Entry] = env => \A f \in Sealed : table[f[1]] < job[h].table + 1 => under[f] = env
      BY <1>0, <1>5, <2>2, <2>4, <2>5 DEF Reading
    <2>12. job[h].table \in Int /\ NTables \in Int
      BY <2>2
    <2>13. Reading(h)'
      BY <1>1, <2>3, <2>7, <2>8, <2>9, <2>10, <2>11, <2>12 DEF Reading, At
    <2>14. Answered(h)'
      BY <2>3 DEF Answered, Answering
    <2> QED BY <1>5, <2>13, <2>14
  <1> QED BY <1>3, <1>4, <1>5

\* What whoever commits has seen.
LEMMA CommitFacts ==
  ASSUME IInv, Apart, NEW h \in Threads, RotateCommit(h)
  PROVE  /\ under[Entry] = env /\ under'[Entry] = job[h].new /\ job[h].new # env
         /\ \A f \in Sealed : under[f] = env
         /\ \A f \in job[h].due : under'[f] = job[h].new
         /\ \A g \in Threads \ {h} : writer # g
  <1>0. job \in [Threads -> Jobs] /\ Reading(h) /\ job[h].table > NTables /\ At(h, "rotating")
    BY DEF IInv, TypeOK, Apart, RotateCommit
  <1>1. under[Entry] = env /\ Entry \in job[h].moved
    BY <1>0 DEF Reading
  <1>2. under'[Entry] = job[h].new /\ job[h].new # env
    BY <1>0, <1>1, Basics DEF RotateCommit, Jobs, Keys, NoKey
  <1>3. \A f \in Sealed : table[f[1]] < job[h].table
    BY <1>0, Basics DEF Tables
  <1>4. \A f \in Sealed : under[f] = env
    BY <1>0, <1>1, <1>3 DEF Reading
  <1>5. \A f \in job[h].due : f \in job[h].moved /\ f \in Fields
    BY <1>0, <1>3, Basics DEF Reading
  <1>6. \A f \in job[h].due : under'[f] = job[h].new
    BY <1>5 DEF RotateCommit
  <1>7. \A g \in Threads \ {h} : writer # g
    BY ThreadAssumption DEF RotateCommit, MayWrite
  <1> QED BY <1>1, <1>2, <1>4, <1>6, <1>7

LEMMA CommitApart ==
  ASSUME IInv, Apart, NEW h \in Threads, RotateCommit(h), NEW g \in Threads
  PROVE  Reading(g)' /\ Answered(g)'
  <1>0. job \in [Threads -> Jobs] /\ Reading(g) /\ Answered(g) /\ job[g].table \in Int
    BY Basics DEF IInv, TypeOK, Apart
  <1>1. env' = env /\ table' = table
    BY DEF RotateCommit, keys
  <1>2. CASE g = h
    <2>1. job'[h] = [job[h] EXCEPT !.at = "committed"]
      BY <1>0 DEF RotateCommit
    <2>2. job'[h].at = "committed" /\ job'[h].due = job[h].due /\ job'[h].new = job[h].new
      BY <1>0, <2>1 DEF Jobs
    <2> QED BY <1>1, <1>2, <2>2, CommitFacts DEF Reading, Answered, At
  <1>3. CASE g # h
    <2>1. job'[g] = job[g]
      BY <1>0, <1>3 DEF RotateCommit
    <2>2. job[g].at \notin Answering
      BY <1>0, CommitFacts DEF Answered
    <2>3. At(g, "rotating") => ~(job[g].table >= 3) /\ ~(job[g].table > NTables)
      BY <1>0, <1>3, CommitFacts, TablesAssumption DEF Reading
    <2> QED BY <1>0, <1>1, <2>1, <2>2, <2>3, CommitFacts DEF Reading, Answered, At
  <1> QED BY <1>2, <1>3

LEMMA InitApart == Init => Apart
  BY DEF Init, Apart, Reading, Answered, At, Idle, Answering

LEMMA StepApart ==
  ASSUME IInv, Apart, [Next]_vars
  PROVE  Apart'
  <1> SUFFICES ASSUME NEW g \in Threads PROVE Reading(g)' /\ Answered(g)'
    BY DEF Apart
  <1>0. job \in [Threads -> Jobs] /\ Reading(g) /\ Answered(g)
    BY DEF IInv, TypeOK, Apart
  <1>a. ASSUME store' = store, env' = env, writer' = writer, job'[g] = job[g]
        PROVE  Reading(g)' /\ Answered(g)'
    BY <1>0, <1>a, Undisturbed, Basics DEF store, At
  <1>1. ASSUME NEW h \in Threads, NEW t \in Tables, Seal(h, t) PROVE Reading(g)' /\ Answered(g)'
    <2>1. CASE g = h
      BY <1>0, <1>1, <2>1, NotRotating DEF Seal, Idle, At, Answering
    <2>2. CASE g # h
      BY <1>0, <1>1, <1>a, <2>2 DEF Seal
    <2> QED BY <2>1, <2>2
  <1>2. ASSUME NEW h \in Threads, Store(h) PROVE Reading(g)' /\ Answered(g)'
    <2>1. CASE g = h
      BY <1>0, <1>2, <2>1, BecomesIdle DEF Store
    <2>2. CASE g # h
      <3>1. job[h].table \in Tables /\ job[h].key = env
        BY <1>2, Parts DEF JobOK, Store, At
      <3>2. Insert(job[h].table, env) /\ env' = env /\ writer' = writer /\ job'[g] = job[g]
        BY <1>0, <1>2, <2>2, <3>1 DEF Store, keys
      <3> QED BY <1>0, <3>1, <3>2, InsertApart DEF At
    <2> QED BY <2>1, <2>2
  <1>3. ASSUME NEW h \in Threads, NEW r \in Rows, Note(h, r) PROVE Reading(g)' /\ Answered(g)'
    <2>1. CASE g = h
      BY <1>0, <1>3, <2>1, NotRotating DEF Note, Idle, At, Answering
    <2>2. CASE g # h
      BY <1>0, <1>3, <1>a, <2>2 DEF Note
    <2> QED BY <2>1, <2>2
  <1>4. ASSUME NEW h \in Threads, SetNote(h) PROVE Reading(g)' /\ Answered(g)'
    <2> DEFINE f == <<job[h].row, "note">>
    <2>0. /\ env' = env /\ writer' = writer /\ table' = table /\ last' = last
          /\ job[h].key = env /\ f # Entry
      BY <1>4, Basics DEF SetNote, keys, At, Entry
    <2>1. CASE g = h
      BY <1>0, <1>4, <2>1, BecomesIdle DEF SetNote
    <2>2. CASE g # h /\ job' = [job EXCEPT ![h] = Idle] /\ under' = under
      BY <1>0, <1>4, <1>a, <2>0, <2>2 DEF store
    <2>3. CASE /\ g # h
               /\ job' = [i \in Threads |-> IF i = h THEN Idle ELSE [job[i] EXCEPT !.due = @ \ {f}]]
               /\ under' = [under EXCEPT ![f] = job[h].key]
      <3>1. job'[g] = [job[g] EXCEPT !.due = @ \ {f}]
        BY <2>3
      <3>2. /\ job'[g].at = job[g].at /\ job'[g].table = job[g].table /\ job'[g].new = job[g].new
            /\ job'[g].moved = job[g].moved /\ job'[g].due = job[g].due \ {f}
        BY <1>0, <3>1 DEF Jobs
      <3>3. \A e \in Fields : under'[e] = under[e] \/ (e = f /\ under'[e] = env)
        BY <2>0, <2>3, Basics
      <3> HIDE DEF f
      <3>4. \A e \in job'[g].due : under'[e] = under[e]
        BY <3>2, <3>3, Basics
      <3>5. under'[Entry] = under[Entry]
        BY <2>0, <3>3, Basics
      <3>6. At(g, "rotating")' => At(g, "rotating")
        BY <3>2 DEF At
      <3> QED BY <1>0, <2>0, <3>2, <3>3, <3>4, <3>5, <3>6, Undisturbed
    <2> QED BY <1>4, <2>1, <2>2, <2>3 DEF SetNote
  <1>5. ASSUME NEW h \in Threads, RotateBegin(h) PROVE Reading(g)' /\ Answered(g)'
    <2>1. CASE g = h
      <3>1. /\ job'[h].at = "rotating" /\ job'[h].table = 1 /\ job'[h].due = Sealed
            /\ store' = store /\ Sealed' = Sealed
        BY <1>0, <1>5 DEF RotateBegin, Idle, Sealed, store
      <3>2. \A e \in Sealed : table'[e[1]] \in Int /\ ~(table'[e[1]] < 1)
        BY <3>1, Basics DEF Tables, store
      <3> QED BY <2>1, <3>1, <3>2, TablesAssumption DEF Reading, Answered, Answering, At
    <2>2. CASE g # h
      BY <1>0, <1>5, <1>a, <2>2 DEF RotateBegin
    <2> QED BY <2>1, <2>2
  <1>6. ASSUME NEW h \in Threads, RotateTable(h) PROVE Reading(g)' /\ Answered(g)'
    BY <1>6, TableApart
  <1>7. ASSUME NEW h \in Threads, RotateCommit(h) PROVE Reading(g)' /\ Answered(g)'
    BY <1>7, CommitApart
  <1>8. ASSUME NEW h \in Threads, RotateRecord(h) PROVE Reading(g)' /\ Answered(g)'
    <2>1. Insert(AuditTable, env) /\ AuditTable \in Tables /\ env' = env /\ writer' = writer
      BY <1>8, Basics, TablesAssumption DEF RotateRecord, AuditTable, Tables
    <2>2. /\ job'[g].table = job[g].table /\ job'[g].moved = job[g].moved
          /\ job'[g].new = job[g].new /\ job'[g].due = job[g].due
          /\ At(g, "rotating")' => At(g, "rotating")
          /\ job'[g].at \in Answering => job[g].at \in Answering
      BY <1>0, <1>8 DEF RotateRecord, Jobs, At, Answering
    <2> QED BY <1>0, <2>1, <2>2, InsertApart
  <1>9. ASSUME NEW h \in Threads, RotateReset(h) PROVE Reading(g)' /\ Answered(g)'
    <2>1. store' = store /\ env' = env /\ writer' = writer
      BY <1>9 DEF RotateReset, store
    <2>2. /\ job'[g].table = job[g].table /\ job'[g].moved = job[g].moved
          /\ job'[g].new = job[g].new /\ job'[g].due = job[g].due
          /\ At(g, "rotating")' => At(g, "rotating")
          /\ job'[g].at \in Answering => job[g].at \in Answering
      BY <1>0, <1>9 DEF RotateReset, Jobs, At, Answering
    <2> QED BY <1>0, <2>1, <2>2, Undisturbed, Basics DEF store
  <1>10. ASSUME NEW h \in Threads, RotateAnswer(h) PROVE Reading(g)' /\ Answered(g)'
    <2>1. CASE g = h
      BY <1>0, <1>10, <2>1, BecomesIdle DEF RotateAnswer
    <2>2. CASE g # h
      BY <1>0, <1>10, <1>a, <2>2 DEF RotateAnswer
    <2> QED BY <2>1, <2>2
  <1>11. ASSUME NEW h \in Threads, Fail(h) PROVE Reading(g)' /\ Answered(g)'
    <2>1. CASE g = h
      BY <1>0, <1>11, <2>1, BecomesIdle DEF Fail
    <2>2. CASE g # h
      BY <1>0, <1>11, <2>2, Undisturbed, Basics DEF Fail, store, keys, At
    <2> QED BY <2>1, <2>2
  <1>12. ASSUME NEW k \in Keys, Deploy(k) PROVE Reading(g)' /\ Answered(g)'
    BY <1>0, <1>12, NotRotating DEF Deploy, At, Answering
  <1>13. ASSUME Crash PROVE Reading(g)' /\ Answered(g)'
    BY <1>13, BecomesIdle DEF Crash
  <1>14. ASSUME UNCHANGED vars PROVE Reading(g)' /\ Answered(g)'
    BY <1>14, <1>a DEF vars, keys
  <1> QED
    BY <1>1, <1>2, <1>3, <1>4, <1>5, <1>6, <1>7, <1>8, <1>9, <1>10, <1>11, <1>12, <1>13, <1>14
    DEF Next, Rotate

LEMMA ApartInvariance == Spec => [](IInv /\ Apart)
  <1>1. IInv /\ Apart /\ [Next]_vars => Apart'
    BY StepApart
  <1> QED BY Invariance, InitApart, <1>1, PTL DEF Spec

\* When a rotation is about to return its key, that key opens every field that
\* was there when it began and has not been set since, for any number of threads,
\* tables, rows, keys and faults (rotation.py:121-153).
THEOREM CompleteRotation == Spec => []RotationIsComplete
  <1>1. Apart => RotationIsComplete
    BY DEF Apart, Answered, RotationIsComplete
  <1> QED BY ApartInvariance, <1>1, PTL

\* While a field is under another key than the configured one, no step of any
\* thread moves a field (rotation.py:125).
THEOREM StaleFieldTheorem == Spec => StaleFieldBlocks
  <1> DEFINE Moves == (\E g \in Sealed : under[g] # env) =>
                        \A f \in Fields : under'[f] # under[f] => under'[f] = env
  <1>1. ASSUME IInv, Apart, [Next]_vars PROVE Moves
    <2>0. \A f \in Fields : UNCHANGED under => under'[f] = under[f]
      OBVIOUS
    <2>1. ASSUME NEW h \in Threads, RotateCommit(h) PROVE Moves
      BY <1>1, <2>1, CommitFacts
    <2>2. ASSUME NEW h \in Threads, Store(h) PROVE Moves
      <3>1. job[h].table \in Tables /\ job[h].key = env
        BY <1>1, <2>2, Parts DEF JobOK, Store, At
      <3> QED BY <1>1, <2>2, <3>1, InsertTyped, Basics DEF Store
    <2>3. ASSUME NEW h \in Threads, RotateRecord(h) PROVE Moves
      <3>1. AuditTable \in Tables /\ Insert(AuditTable, env)
        BY <1>1, <2>3, Basics, TablesAssumption DEF RotateRecord, AuditTable, Tables
      <3> QED BY <1>1, <3>1, InsertTyped, Basics
    <2>4. ASSUME NEW h \in Threads, SetNote(h) PROVE Moves
      <3>1. job[h].key = env
        BY <1>1, <2>4, Basics DEF SetNote, At
      <3> QED BY <1>1, <2>4, <3>1, Basics DEF SetNote
    <2>5. CASE UNCHANGED under
      BY <2>5
    <2> QED BY <1>1, <2>1, <2>2, <2>3, <2>4, <2>5
            DEF Next, Rotate, Seal, Note, RotateBegin, RotateTable, RotateReset, RotateAnswer,
                Deploy, Fail, Crash, vars, store
  <1>2. IInv /\ Apart /\ [Next]_vars => [Moves]_vars
    BY <1>1
  <1> QED BY ApartInvariance, <1>2, PTL DEF Spec, StaleFieldBlocks

\* A key that the operator has, or is about to get.
Owned(k) == k \in known \/ \E h \in Threads : job[h].at \in Answering /\ job[h].new = k

LEMMA StaysReturned ==
  ASSUME IInv, IInv', KeyIsReturned, faults' = 0 => faults = 0, env' = env,
         \A k \in Int : Owned(k) => Owned(k)',
         \A f \in Fields : \A k \in Int : under'[f] = k => under[f] = k \/ k = env \/ Owned(k)'
  PROVE  KeyIsReturned'
  <1> SUFFICES ASSUME faults' = 0, NEW f \in Sealed', NEW k \in Int, k = under'[f] PROVE Owned(k)'
    <2>1. \A f \in Sealed' : under'[f] \in Int
      BY DEF IInv, TypeOK, Sealed, NoKey, Keys
    <2> QED BY <2>1 DEF KeyIsReturned, Owned
  <1>1. f \in Fields /\ k # NoKey
    BY DEF Sealed
  <1>2. Owned(env)
    BY DEF IInv, TypeOK, Owned
  <1>3. under[f] = k => Owned(k)
    BY <1>1 DEF Sealed, KeyIsReturned, Owned
  <1> QED BY <1>1, <1>2, <1>3, Basics

\* Unless something fails, the operator has every key that fields are under, or
\* a handler is on its way to return it (admin.py:142-166).
THEOREM ReturnedKey == Spec => []KeyIsReturned
  <1>1. Init => KeyIsReturned
    BY DEF Init, KeyIsReturned, Sealed, NoKey
  <1>2. ASSUME IInv, IInv', KeyIsReturned, [Next]_vars PROVE KeyIsReturned'
    <2>0. job \in [Threads -> Jobs] /\ faults \in Nat
      BY <1>2 DEF IInv, TypeOK
    <2>a. ASSUME NEW h \in Threads, NEW j, job' = [job EXCEPT ![h] = j], known' = known,
                 job[h].at \in Answering => j.at \in Answering /\ j.new = job[h].new
          PROVE  \A k \in Int : Owned(k) => Owned(k)'
      BY <2>0, <2>a DEF Owned
    <2>b. ASSUME UNCHANGED <<under, env>>, faults' = faults, \A k \in Int : Owned(k) => Owned(k)'
          PROVE  KeyIsReturned'
      BY <1>2, <2>b, StaysReturned
    <2>c. ASSUME NEW t \in Tables, Insert(t, env), env' = env, faults' = faults,
                 \A k \in Int : Owned(k) => Owned(k)'
          PROVE  KeyIsReturned'
      <3>1. \A f \in Fields : under'[f] = under[f] \/ under'[f] = env
        BY <1>2, <2>c, InsertTyped, Basics
      <3> QED BY <1>2, <2>c, <3>1, StaysReturned
    <2>1. ASSUME NEW h \in Threads, NEW t \in Tables, Seal(h, t) PROVE KeyIsReturned'
      BY <2>1, <2>a, <2>b DEF Seal, store, At, Answering
    <2>2. ASSUME NEW h \in Threads, Store(h) PROVE KeyIsReturned'
      <3>1. job[h].table \in Tables /\ job[h].key = env
        BY <1>2, <2>2, Parts DEF JobOK, Store, At
      <3> QED BY <2>2, <2>a, <2>c, <3>1 DEF Store, keys, At, Answering
    <2>3. ASSUME NEW h \in Threads, NEW r \in Rows, Note(h, r) PROVE KeyIsReturned'
      BY <2>3, <2>a, <2>b DEF Note, store, At, Answering
    <2>4. ASSUME NEW h \in Threads, SetNote(h) PROVE KeyIsReturned'
      <3>1. job[h].key = env /\ env' = env /\ faults' = faults /\ known' = known
        BY <1>2, <2>4, Basics DEF SetNote, At, keys
      <3>2. \A f \in Fields : under'[f] = under[f] \/ under'[f] = env
        BY <1>2, <2>4, <3>1, Basics DEF SetNote
      <3>3. ASSUME NEW g \in Threads, job[g].at \in Answering
            PROVE  job'[g].at = job[g].at /\ job'[g].new = job[g].new
        BY <2>0, <2>4, <3>3 DEF SetNote, At, Answering, Jobs
      <3>4. \A k \in Int : Owned(k) => Owned(k)'
        BY <3>1, <3>3 DEF Owned
      <3> QED BY <1>2, <3>1, <3>2, <3>4, StaysReturned
    <2>5. ASSUME NEW h \in Threads, RotateBegin(h) PROVE KeyIsReturned'
      BY <2>5, <2>a, <2>b DEF RotateBegin, store, At, Answering
    <2>6. ASSUME NEW h \in Threads, RotateTable(h) PROVE KeyIsReturned'
      <3>1. \E j : job' = [job EXCEPT ![h] = j] /\ job[h].at \notin Answering
        BY <2>6 DEF RotateTable, At, Answering
      <3> QED BY <2>6, <2>a, <2>b, <3>1 DEF RotateTable, store, keys
    <2>7. ASSUME NEW h \in Threads, RotateCommit(h) PROVE KeyIsReturned'
      <3>1. /\ job' = [job EXCEPT ![h] = [job[h] EXCEPT !.at = "committed"]]
            /\ known' = known /\ env' = env /\ faults' = faults /\ job[h].at \notin Answering
        BY <2>7 DEF RotateCommit, keys, At, Answering
      <3>2. job'[h].at \in Answering /\ job'[h].new = job[h].new
        BY <2>0, <3>1 DEF Jobs, Answering
      <3>3. \A k \in Int : Owned(k) => Owned(k)'
        BY <2>a, <3>1
      <3>4. \A f \in Fields : under'[f] = under[f] \/ under'[f] = job[h].new
        BY <2>7 DEF RotateCommit
      <3>5. \A k \in Int : k = job[h].new => Owned(k)'
        BY <3>2 DEF Owned
      <3> QED BY <1>2, <3>1, <3>3, <3>4, <3>5, StaysReturned
    <2>8. ASSUME NEW h \in Threads, RotateRecord(h) PROVE KeyIsReturned'
      <3>1. AuditTable \in Tables /\ Insert(AuditTable, env)
        BY <1>2, <2>8, Basics, TablesAssumption DEF RotateRecord, AuditTable, Tables
      <3>2. job' = [job EXCEPT ![h] = [job[h] EXCEPT !.at = "recorded"]]
        BY <2>8 DEF RotateRecord
      <3>3. [job[h] EXCEPT !.at = "recorded"].at \in Answering
            /\ [job[h] EXCEPT !.at = "recorded"].new = job[h].new
        BY <2>0 DEF Jobs, Answering
      <3> QED BY <2>8, <2>a, <2>c, <3>1, <3>2, <3>3 DEF RotateRecord
    <2>9. ASSUME NEW h \in Threads, RotateReset(h) PROVE KeyIsReturned'
      <3>2. job' = [job EXCEPT ![h] = [job[h] EXCEPT !.at = "answering"]]
        BY <2>9 DEF RotateReset
      <3>3. [job[h] EXCEPT !.at = "answering"].at \in Answering
            /\ [job[h] EXCEPT !.at = "answering"].new = job[h].new
        BY <2>0 DEF Jobs, Answering
      <3> QED BY <2>9, <2>a, <2>b, <3>2, <3>3 DEF RotateReset, store
    <2>10. ASSUME NEW h \in Threads, RotateAnswer(h) PROVE KeyIsReturned'
      <3>1. \A g \in Threads \ {h} : job'[g] = job[g]
        BY <2>0, <2>10 DEF RotateAnswer
      <3>2. \A k \in Int : Owned(k) => Owned(k)'
        BY <2>10, <3>1 DEF RotateAnswer, Owned
      <3> QED BY <2>10, <2>b, <3>2 DEF RotateAnswer, store
    <2>11. ASSUME (\E h \in Threads : Fail(h)) \/ Crash PROVE KeyIsReturned'
      <3>1. faults' # 0
        BY <2>0, <2>11 DEF Fail, Crash
      <3> QED BY <3>1 DEF KeyIsReturned
    <2>12. ASSUME NEW k \in Keys, Deploy(k) PROVE KeyIsReturned'
      BY <1>2, <2>12 DEF Deploy, store, KeyIsReturned, Sealed
    <2>13. ASSUME UNCHANGED vars PROVE KeyIsReturned'
      BY <1>2, <2>13 DEF vars, store, keys, KeyIsReturned, Sealed
    <2> QED
      BY <1>2, <2>1, <2>2, <2>3, <2>4, <2>5, <2>6, <2>7, <2>8, <2>9, <2>10, <2>11, <2>12, <2>13
      DEF Next, Rotate
  <1> QED BY Invariance, <1>1, <1>2, PTL DEF Spec
=============================================================================
