--------------------------- MODULE SessionsProofs ---------------------------
(***************************************************************************)
(* Proofs about Sessions, for any thread pool, any accounts and any number *)
(* of tokens, password changes and faults, on either database.             *)
(***************************************************************************)
EXTENDS Sessions, FiniteSetTheorems, TLAPS

-----------------------------------------------------------------------------
(* Type correctness needs what a handler's place says of its job.          *)

\* What a handler has loaded and inserted when it gets to a place.
JobPlace(j) ==
  /\ j.at \in {"verified", "ready", "checked", "changing"} => j.user \in Users
  /\ j.at \in {"loaded", "ready", "issued", "replay", "burning", "logout"} => j.token \in Rows
  /\ j.at = "ready" => j.user = owner[j.token]
  /\ j.at \in {"issued", "respond"} => j.new \in Rows
  /\ j.at = "issued" => parent[j.new] = j.token
  /\ j.at = "respond" => parent[j.new] \in revoked \cup {NoToken}

JobsOK == \A h \in Threads : JobPlace(job[h])

\* Rows have an owner and a family; numbers not yet used have no successor.
RowsOK ==
  /\ \A t \in Rows : owner[t] \in Users /\ family[t] \in Tokens
  /\ \A t \in Tokens \ Rows : replacedBy[t] = NoToken

IInv == TypeOK /\ JobsOK /\ RowsOK

\* What no step takes back: rows stay, keep their columns, and stay revoked.
Keeps ==
  /\ Rows \subseteq Rows'
  /\ \A t \in Rows : /\ owner'[t] = owner[t]
                     /\ family'[t] = family[t]
                     /\ parent'[t] = parent[t]
  /\ revoked \subseteq revoked'

LEMMA InitInv == Init => IInv
  BY MaxTokensAssumption, MaxFaultsAssumption, NoneAssumption
  DEF Init, IInv, TypeOK, JobsOK, JobPlace, RowsOK, Rows, Tokens, NoToken, Idle, Jobs, Places

\* A step that inserts no row and keeps the rows' columns.
LEMMA JobStays ==
  ASSUME IInv, Keeps, NEW h \in Threads, job'[h] = job[h]
  PROVE  (job[h] \in Jobs /\ JobPlace(job[h]))'
  <1>1. job[h] \in Jobs /\ JobPlace(job[h])
    BY DEF IInv, TypeOK, JobsOK
  <1>2. (job[h] \in Jobs)'
    BY <1>1 DEF Keeps, Jobs
  <1>3. JobPlace(job[h])'
    BY <1>1 DEF Keeps, JobPlace, Jobs
  <1> QED BY <1>2, <1>3

\* Every step keeps the rows there are, and only issuing adds one.
LEMMA StepKeeps == IInv /\ [Next]_vars => Keeps
  <1> SUFFICES ASSUME IInv, [Next]_vars PROVE Keeps
    OBVIOUS
  <1> USE DEF Keeps
  <1>0. last \in Nat
    BY MaxTokensAssumption DEF IInv, TypeOK
  <1>1. ASSUME NEW h \in Threads, NEW place, NEW p, NEW s, Issue(h, place, p, s) PROVE Keeps
    BY <1>0, <1>1 DEF Issue, IInv, TypeOK, Rows, Tokens
  <1>2. ASSUME table' = table, parent' = parent PROVE Keeps
    BY <1>2 DEF table, Rows
  <1>3. ASSUME UNCHANGED <<last, owner, family, parent>>, revoked \subseteq revoked' PROVE Keeps
    BY <1>3 DEF Rows
  <1>4. ASSUME NEW h \in Threads, Request(h) PROVE Keeps
    BY <1>2, <1>4 DEF Request, Verify, PasswordCheck, LoadRow, LogoutLoad, lineage
  <1>5. ASSUME NEW h \in Threads, Refresh(h) PROVE Keeps
    <2>1. CASE LoadUser(h) \/ ReplaySelect(h)
      BY <1>2, <2>1 DEF LoadUser, ReplaySelect, lineage
    <2>2. CASE RefreshIssue(h)
      BY <1>1, <2>2 DEF RefreshIssue
    <2>3. CASE RefreshRevoke(h) \/ ReplayRevoke(h)
      BY <1>3, <2>3 DEF RefreshRevoke, ReplayRevoke, lineage
    <2> QED BY <1>5, <2>1, <2>2, <2>3 DEF Refresh
  <1>6. ASSUME NEW h \in Threads, Continue(h) PROVE Keeps
    <2>1. CASE LoginIssue(h)
      BY <1>1, <2>1 DEF LoginIssue
    <2>2. CASE Respond(h) \/ PasswordSelect(h)
      BY <1>2, <2>2 DEF Respond, PasswordSelect, lineage
    <2>3. CASE LogoutRevoke(h) \/ PasswordCommit(h)
      BY <1>3, <2>3 DEF LogoutRevoke, PasswordCommit, lineage
    <2> QED BY <1>5, <1>6, <2>1, <2>2, <2>3 DEF Continue
  <1>7. ASSUME \/ \E h \in Threads : Fail(h)
               \/ \E u \in Users : Disable(u)
               \/ \E t \in Rows : Expire(t)
               \/ Crash
               \/ UNCHANGED vars
        PROVE  Keeps
    BY <1>2, <1>7 DEF Fail, Disable, Expire, Crash, vars, lineage
  <1> QED BY <1>4, <1>6, <1>7 DEF Next

\* It is enough to look at the job of the handler that takes the step.
LEMMA JobStep ==
  ASSUME IInv, Keeps, NEW h \in Threads,
         \E j : job' = [job EXCEPT ![h] = j],
         (job[h] \in Jobs /\ JobPlace(job[h]))'
  PROVE  (job \in [Threads -> Jobs] /\ JobsOK)'
  <1>1. \A g \in Threads : (job[g] \in Jobs /\ JobPlace(job[g]))'
    <2> TAKE g \in Threads
    <2>1. CASE g = h
      BY <2>1
    <2>2. CASE g # h
      BY <2>2, JobStays DEF IInv, TypeOK
    <2> QED BY <2>1, <2>2
  <1> QED BY <1>1 DEF JobsOK, IInv, TypeOK

\* A job that has been given up says nothing of the table.
LEMMA IdleOK == (Idle \in Jobs /\ JobPlace(Idle))'
  BY DEF Idle, Jobs, JobPlace, Places

\* What issuing leaves the handler with: the new row, issued for the token its
\* handler gave.
LEMMA IssueFacts ==
  ASSUME IInv, NEW h \in Threads, NEW place \in Places, NEW p, NEW s, Issue(h, place, p, s)
  PROVE  /\ job'[h].at = place
         /\ job'[h].new = last + 1
         /\ job'[h].user = job[h].user
         /\ job'[h].token = job[h].token
         /\ (job[h] \in Jobs)'
         /\ last + 1 \in Tokens
         /\ last + 1 \in Rows'
         /\ parent'[last + 1] = p
         /\ owner'[last + 1] = job[h].user
         /\ family'[last + 1] = IF p = NoToken THEN last + 1 ELSE family[p]
         /\ revoked' = revoked
         /\ last' = last + 1
         /\ job' = [job EXCEPT ![h] = job'[h]]
  <1> DEFINE n == last + 1
  <1>1. /\ job \in [Threads -> Jobs]
        /\ last \in Nat
        /\ parent \in [Tokens -> Tokens \cup {NoToken}]
        /\ owner \in [Tokens -> Users \cup {None}]
        /\ family \in [Tokens -> Tokens \cup {NoToken}]
    BY MaxTokensAssumption DEF IInv, TypeOK
  <1>2. /\ n \in Tokens
        /\ last' = n
        /\ job' = [job EXCEPT ![h] = [job[h] EXCEPT !.at = place, !.new = n]]
        /\ parent' = [parent EXCEPT ![n] = p]
        /\ owner' = [owner EXCEPT ![n] = job[h].user]
        /\ family' = [family EXCEPT ![n] = IF p = NoToken THEN n ELSE family[p]]
        /\ revoked' = revoked
    BY <1>1 DEF Issue
  <1>3. n \in Rows' /\ Rows \subseteq Rows'
    BY <1>1, <1>2 DEF Rows
  <1>4. job'[h] = [job[h] EXCEPT !.at = place, !.new = n]
    BY <1>1, <1>2
  <1>5. (job[h] \in Jobs)'
    BY ZenonT(60), <1>1, <1>3, <1>4 DEF Jobs
  <1>6. /\ job'[h].at = place
        /\ job'[h].new = n
        /\ job'[h].user = job[h].user
        /\ job'[h].token = job[h].token
    BY <1>1, <1>4 DEF Jobs
  <1> QED BY <1>1, <1>2, <1>3, <1>4, <1>5, <1>6

LEMMA StepJob ==
  ASSUME IInv, Keeps, NEW h \in Threads, Request(h) \/ Continue(h) \/ Fail(h)
  PROVE  (job \in [Threads -> Jobs] /\ JobsOK)'
  <1> DEFINE Good == (job[h] \in Jobs /\ JobPlace(job[h]))'
  <1>0. /\ job \in [Threads -> Jobs]
        /\ job[h] \in Jobs
        /\ JobPlace(job[h])
        /\ active \subseteq Users
        /\ delivered \subseteq Rows
        /\ revoked \subseteq Rows
        /\ password \in [Users -> Nat]
        /\ last \in Nat
        /\ Rows \subseteq Tokens
    BY MaxTokensAssumption DEF IInv, TypeOK, JobsOK, Rows, Tokens
  <1>1. ASSUME NEW u \in Users, Verify(h, u) PROVE Good
    BY <1>0, <1>1 DEF Verify, Idle, Jobs, JobPlace, Places, table
  <1>2. ASSUME NEW u \in Users, PasswordCheck(h, u) PROVE Good
    BY <1>0, <1>2 DEF PasswordCheck, Idle, Jobs, JobPlace, Places, table
  <1>3. ASSUME NEW t \in Rows, LoadRow(h, t) PROVE Good
    <2>1. /\ job'[h] = [Idle EXCEPT !.at = IF t \in revoked THEN "replay" ELSE "loaded",
                                    !.token = t]
          /\ last' = last
      BY <1>0, <1>3 DEF LoadRow, table
    <2> DEFINE place == IF t \in revoked THEN "replay" ELSE "loaded"
    <2>2. job'[h] = [at |-> place, user |-> None, token |-> t, new |-> NoToken,
                     seen |-> {}, proof |-> 0]
      BY <2>1 DEF Idle
    <2>3. place \in {"replay", "loaded"}
      OBVIOUS
    <2> HIDE DEF place
    <2>4. t \in Rows'
      BY DEF Keeps
    <2>5. (job[h] \in Jobs)'
      BY <2>2, <2>3, <2>4 DEF Jobs, Places
    <2>6. JobPlace(job[h])'
      BY <2>2, <2>3, <2>4 DEF JobPlace
    <2> QED BY <2>5, <2>6
  <1>4. ASSUME NEW t \in Rows, LogoutLoad(h, t) PROVE Good
    BY ZenonT(60), <1>0, <1>4 DEF LogoutLoad, Idle, Jobs, JobPlace, Places, table, Rows
  <1>5. ASSUME LoginIssue(h) PROVE Good
    <2>1. Issue(h, "respond", NoToken, job[h].proof)
      BY <1>5 DEF LoginIssue
    <2> QED BY <2>1, IssueFacts DEF JobPlace, Places
  <1>6. ASSUME RefreshIssue(h) PROVE Good
    <2>1. Issue(h, "issued", job[h].token, secret[job[h].token]) /\ job[h].at = "ready"
      BY <1>6 DEF RefreshIssue, At
    <2>2. job[h].token \in Rows'
      BY <1>0, <2>1 DEF JobPlace, Keeps
    <2> QED BY <2>1, <2>2, IssueFacts DEF JobPlace, Places
  <1>7. ASSUME LoadUser(h) PROVE Good
    BY <1>0, <1>7 DEF LoadUser, At, Idle, Jobs, JobPlace, Places, table, Rows
  <1>8. ASSUME RefreshRevoke(h) PROVE Good
    BY <1>0, <1>8 DEF RefreshRevoke, At, Jobs, JobPlace, Places, lineage, Rows
  <1>9. ASSUME ReplaySelect(h) PROVE Good
    BY <1>0, <1>9 DEF ReplaySelect, At, Jobs, JobPlace, Places, table, Rows, Family
  <1>10. ASSUME PasswordSelect(h) PROVE Good
    BY <1>0, <1>10 DEF PasswordSelect, At, Jobs, JobPlace, Places, table, Rows, Live
  <1>11. ASSUME ReplayRevoke(h) \/ LogoutRevoke(h) \/ PasswordCommit(h) \/ Respond(h) \/ Fail(h) PROVE Good
    <2>1. job'[h] = Idle
      BY <1>0, <1>11 DEF ReplayRevoke, LogoutRevoke, PasswordCommit, Respond, Fail
    <2> QED BY <2>1, IdleOK DEF Idle
  <1>12. Good
    BY <1>1, <1>2, <1>3, <1>4, <1>5, <1>6, <1>7, <1>8, <1>9, <1>10, <1>11
    DEF Request, Continue, Refresh
  <1>13. \E j : job' = [job EXCEPT ![h] = j]
    BY DEF Request, Continue, Refresh, Verify, PasswordCheck, LoadRow, LogoutLoad, LoginIssue,
           RefreshIssue, Issue, LoadUser, RefreshRevoke, ReplaySelect, PasswordSelect, ReplayRevoke,
           LogoutRevoke, PasswordCommit, Respond, Fail
  <1> QED BY <1>12, <1>13, JobStep

\* The types of everything but the jobs.
TypesRest ==
  /\ last \in 0..MaxTokens
  /\ owner \in [Tokens -> Users \cup {None}]
  /\ family \in [Tokens -> Tokens \cup {NoToken}]
  /\ revoked \in SUBSET Rows
  /\ replacedBy \in [Tokens -> Tokens \cup {NoToken}]
  /\ expired \in SUBSET Rows
  /\ active \in SUBSET Users
  /\ password \in [Users -> Nat]
  /\ delivered \in SUBSET Rows
  /\ writer \in Threads \cup {None}
  /\ parent \in [Tokens -> Tokens \cup {NoToken}]
  /\ secret \in [Tokens -> Nat]
  /\ burned \in SUBSET Tokens
  /\ late \in [Users -> Nat]
  /\ faults \in 0..MaxFaults

LEMMA IssueTypes ==
  ASSUME IInv, NEW h \in Threads, NEW place \in Places, NEW p \in Rows \cup {NoToken},
         NEW s \in Nat, Issue(h, place, p, s), job[h].user \in Users
  PROVE  (TypesRest /\ RowsOK)'
  <1> DEFINE n == last + 1
  <1>1. TypesRest /\ RowsOK /\ Rows \subseteq Tokens
    BY MaxTokensAssumption DEF IInv, TypeOK, TypesRest, Rows, Tokens
  <1>2. Rows' = Rows \cup {n} /\ n \in Tokens /\ n \notin Rows /\ last' \in 0..MaxTokens
    BY <1>1, MaxTokensAssumption DEF Issue, TypesRest, Rows, Tokens
  <1>3. (IF p = NoToken THEN n ELSE family[p]) \in Tokens
    BY <1>1, <1>2 DEF RowsOK
  <1>4. /\ owner' = [owner EXCEPT ![n] = job[h].user]
        /\ family' = [family EXCEPT ![n] = IF p = NoToken THEN n ELSE family[p]]
        /\ parent' = [parent EXCEPT ![n] = p]
        /\ secret' = [secret EXCEPT ![n] = s]
        /\ late' = IF job[h].user \in active THEN late
                   ELSE [late EXCEPT ![job[h].user] = @ + 1]
        /\ UNCHANGED <<revoked, replacedBy, expired, active, password, delivered, writer,
                       burned, faults>>
    BY DEF Issue, accounts
  <1>5. late' \in [Users -> Nat]
    BY <1>1, <1>4 DEF TypesRest
  <1>6. TypesRest'
    BY <1>1, <1>2, <1>3, <1>4, <1>5 DEF TypesRest
  <1>7. RowsOK'
    BY <1>1, <1>2, <1>3, <1>4 DEF RowsOK, TypesRest
  <1> QED BY <1>6, <1>7

LEMMA StepTypesRest == IInv /\ Keeps /\ [Next]_vars => (TypesRest /\ RowsOK)'
  <1> SUFFICES ASSUME IInv, Keeps, [Next]_vars PROVE (TypesRest /\ RowsOK)'
    OBVIOUS
  <1>0. /\ TypesRest
        /\ RowsOK
        /\ Rows \subseteq Tokens
        /\ \A h \in Threads : job[h] \in Jobs /\ JobPlace(job[h])
    BY MaxTokensAssumption DEF IInv, TypeOK, TypesRest, JobsOK, Rows, Tokens
  \* Steps that leave the table and its history alone.
  <1>1. ASSUME UNCHANGED <<table, lineage>>, expired' \subseteq Rows, active' \subseteq Users,
               delivered' \subseteq Rows, password' = password, burned' = burned,
               writer' \in Threads \cup {None}, faults' \in 0..MaxFaults
        PROVE  (TypesRest /\ RowsOK)'
    BY <1>0, <1>1 DEF TypesRest, RowsOK, table, lineage, Rows
  \* Steps that revoke rows.
  <1>2. ASSUME UNCHANGED <<last, owner, family, lineage, expired, active, delivered, faults>>,
               revoked' \subseteq Rows, password' \in [Users -> Nat], burned' \subseteq Tokens,
               writer' \in Threads \cup {None},
               \/ replacedBy' = replacedBy
               \/ \E t, n \in Rows : replacedBy' = [replacedBy EXCEPT ![t] = n]
        PROVE  (TypesRest /\ RowsOK)'
    BY <1>0, <1>2 DEF TypesRest, RowsOK, lineage, Rows
  <1>3. ASSUME NEW h \in Threads, Request(h) PROVE (TypesRest /\ RowsOK)'
    BY <1>0, <1>1, <1>3 DEF Request, Verify, PasswordCheck, LoadRow, LogoutLoad, accounts, TypesRest
  <1>4. ASSUME NEW h \in Threads, LoginIssue(h) PROVE (TypesRest /\ RowsOK)'
    BY <1>0, <1>4, IssueTypes DEF LoginIssue, At, JobPlace, Jobs, Places
  <1>5. ASSUME NEW h \in Threads, RefreshIssue(h) PROVE (TypesRest /\ RowsOK)'
    <2>1. job[h].user \in Users /\ job[h].token \in Rows /\ secret[job[h].token] \in Nat
      BY <1>0, <1>5 DEF RefreshIssue, At, JobPlace, TypesRest
    <2> QED BY <1>5, <2>1, IssueTypes DEF RefreshIssue, Places
  <1>6. ASSUME NEW h \in Threads, LoadUser(h) \/ ReplaySelect(h) \/ PasswordSelect(h) \/ Respond(h) \/ Fail(h)
        PROVE  (TypesRest /\ RowsOK)'
    <2>1. At(h, "respond") => job[h].new \in Rows
      BY <1>0 DEF At, JobPlace
    <2> QED BY <1>0, <1>1, <1>6, <2>1, MaxFaultsAssumption
            DEF LoadUser, ReplaySelect, PasswordSelect, Respond, Fail, accounts, TypesRest, table
  <1>7. ASSUME NEW h \in Threads, RefreshRevoke(h) PROVE (TypesRest /\ RowsOK)'
    <2>1. job[h].token \in Rows /\ job[h].new \in Rows
      BY <1>0, <1>7 DEF RefreshRevoke, At, JobPlace
    <2> QED BY <1>0, <1>2, <1>7, <2>1 DEF RefreshRevoke, accounts, TypesRest
  <1>8. ASSUME NEW h \in Threads, ReplayRevoke(h) PROVE (TypesRest /\ RowsOK)'
    <2>1. job[h].token \in Rows /\ job[h].seen \subseteq Rows
      BY <1>0, <1>8 DEF ReplayRevoke, At, JobPlace, Jobs
    <2>2. family[job[h].token] \in Tokens
      BY <1>0, <2>1 DEF RowsOK
    <2> QED BY <1>0, <1>2, <1>8, <2>1, <2>2 DEF ReplayRevoke, accounts, TypesRest
  <1>9. ASSUME NEW h \in Threads, LogoutRevoke(h) PROVE (TypesRest /\ RowsOK)'
    <2>1. job[h].token \in Rows
      BY <1>0, <1>9 DEF LogoutRevoke, At, JobPlace
    <2> QED BY <1>0, <1>2, <1>9, <2>1 DEF LogoutRevoke, accounts, TypesRest
  <1>10. ASSUME NEW h \in Threads, PasswordCommit(h) PROVE (TypesRest /\ RowsOK)'
    <2>1. job[h].user \in Users /\ job[h].seen \subseteq Rows
      BY <1>0, <1>10 DEF PasswordCommit, At, JobPlace, Jobs
    <2>2. password' \in [Users -> Nat]
      BY <1>0, <1>10, <2>1 DEF PasswordCommit, TypesRest
    <2> QED BY <1>0, <1>2, <1>10, <2>1, <2>2 DEF PasswordCommit, TypesRest
  <1>11. ASSUME \/ \E u \in Users : Disable(u)
                \/ \E t \in Rows : Expire(t)
                \/ Crash
                \/ UNCHANGED vars
         PROVE  (TypesRest /\ RowsOK)'
    BY <1>0, <1>1, <1>11, MaxFaultsAssumption
    DEF Disable, Expire, Crash, vars, accounts, TypesRest
  <1> QED
    BY <1>3, <1>4, <1>5, <1>6, <1>7, <1>8, <1>9, <1>10, <1>11 DEF Next, Continue, Refresh

LEMMA StepInv == IInv /\ [Next]_vars => IInv'
  <1> SUFFICES ASSUME IInv, [Next]_vars PROVE IInv'
    OBVIOUS
  <1>1. Keeps
    BY StepKeeps
  <1>2. (TypesRest /\ RowsOK)'
    BY <1>1, StepTypesRest
  <1>3. (job \in [Threads -> Jobs] /\ JobsOK)'
    <2>1. CASE \E h \in Threads : Request(h) \/ Continue(h) \/ Fail(h)
      BY <1>1, <2>1, StepJob
    <2>2. CASE Crash
      BY <2>2, IdleOK DEF Crash, JobsOK
    <2>3. CASE job' = job
      BY <1>1, <2>3, JobStays DEF JobsOK, IInv, TypeOK
    <2> QED BY <2>1, <2>2, <2>3 DEF Next, Disable, Expire, vars
  <1> QED BY <1>2, <1>3 DEF IInv, TypeOK, TypesRest

LEMMA Invariance == Spec => []IInv
  BY InitInv, StepInv, PTL DEF Spec

\* Every variable of the session model keeps its type: handlers, clients and
\* revocations refer to rows that exist.
THEOREM SessionsTyping == Spec => []TypeOK
  BY Invariance, PTL DEF IInv

-----------------------------------------------------------------------------
(* Lineage.                                                                *)

\* What a step may do to the table: nothing, revoke rows, or insert one that is
\* issued for nothing or for the row its handler has loaded.
LEMMA StepTable ==
  ASSUME IInv, [Next]_vars
  PROVE  \/ last' = last
         \/ \E h \in Threads : LoginIssue(h) \/ RefreshIssue(h)
  BY DEF Next, Request, Verify, PasswordCheck, LoadRow, LogoutLoad, Continue, Refresh, LoadUser,
         RefreshRevoke, ReplaySelect, PasswordSelect, ReplayRevoke, LogoutRevoke, PasswordCommit,
         Respond, Fail, Disable, Expire, Crash, vars, table

LEMMA StepLineage == IInv /\ LineageOK /\ [Next]_vars => LineageOK'
  <1> SUFFICES ASSUME IInv, LineageOK, [Next]_vars PROVE LineageOK'
    OBVIOUS
  <1> DEFINE Fits(t) ==
        /\ owner[t] \in Users
        /\ IF parent[t] = NoToken
           THEN family[t] = t
           ELSE /\ parent[t] < t
                /\ owner[t] = owner[parent[t]]
                /\ family[t] = family[parent[t]]
  <1>0. /\ last \in Nat
        /\ parent \in [Tokens -> Tokens \cup {NoToken}]
        /\ Rows \subseteq Tokens
        /\ \A h \in Threads : JobPlace(job[h])
    BY MaxTokensAssumption DEF IInv, TypeOK, Tokens, Rows, JobsOK
  <1>1. Keeps
    BY StepKeeps
  \* The parent of a row is a row, so what the row was issued for stays too.
  <1>2. ASSUME NEW t \in Rows PROVE Fits(t)'
    <2>1. Fits(t)
      BY DEF LineageOK
    <2>2. parent[t] # NoToken => parent[t] \in Rows
      BY <1>0, <2>1 DEF Rows, Tokens, NoToken
    <2> QED BY <1>1, <2>1, <2>2 DEF Keeps
  <1>3. CASE last' = last
    BY <1>2, <1>3 DEF LineageOK, Rows
  <1>4. ASSUME NEW h \in Threads, LoginIssue(h) PROVE LineageOK'
    <2>0. PICK n : n = last + 1
      OBVIOUS
    <2>1. Issue(h, "respond", NoToken, job[h].proof) /\ job[h].user \in Users
      BY <1>0, <2>0, <1>4 DEF LoginIssue, At, JobPlace
    <2>2. /\ last' = n
          /\ parent'[n] = NoToken
          /\ owner'[n] = job[h].user
          /\ family'[n] = n
      BY <2>0, <2>1, IssueFacts DEF Places
    <2>3. Fits(n)'
      BY <1>0, <2>0, <2>1, <2>2
    <2>4. Rows' = Rows \cup {n}
      BY <1>0, <2>0, <2>2 DEF Rows
    <2> QED BY <1>0, <2>0, <1>2, <2>2, <2>3, <2>4 DEF LineageOK
  <1>5. ASSUME NEW h \in Threads, RefreshIssue(h) PROVE LineageOK'
    <2>0. PICK n : n = last + 1
      OBVIOUS
    <2> DEFINE p == job[h].token
    <2>1. /\ Issue(h, "issued", p, secret[p])
          /\ p \in Rows
          /\ job[h].user \in Users
          /\ job[h].user = owner[p]
      BY <1>0, <2>0, <1>5 DEF RefreshIssue, At, JobPlace
    <2>2. p # NoToken /\ p < n
      BY <1>0, <2>0, <2>1 DEF Rows, NoToken
    <2>3. /\ last' = n
          /\ parent'[n] = p
          /\ owner'[n] = job[h].user
          /\ family'[n] = family[p]
      BY <2>0, <2>1, <2>2, IssueFacts DEF Places
    <2>4. owner'[p] = owner[p] /\ family'[p] = family[p]
      BY <1>1, <2>1 DEF Keeps
    <2>5. Fits(n)'
      BY <1>0, <2>0, <2>1, <2>2, <2>3, <2>4
    <2>6. Rows' = Rows \cup {n}
      BY <1>0, <2>0, <2>3 DEF Rows
    <2> QED BY <1>0, <2>0, <1>2, <2>3, <2>5, <2>6 DEF LineageOK
  <1> QED BY <1>3, <1>4, <1>5, StepTable

\* However handlers overlap, fail or crash, every token belongs to the user and
\* the family of the token it was issued for.
THEOREM LineageTheorem == Spec => []LineageOK
  <1>1. Init => LineageOK
    BY DEF Init, LineageOK, Rows
  <1> QED BY <1>1, Invariance, StepLineage, PTL DEF Spec

-----------------------------------------------------------------------------
(* Hand-over: a token reaches a client only after its predecessor is       *)
(* revoked, because a handler gets to respond only through RefreshRevoke   *)
(* and a revocation is never taken back.                                   *)

LEMMA StepHandover == IInv /\ HandoverRevokes /\ [Next]_vars => HandoverRevokes'
  <1> SUFFICES ASSUME IInv, HandoverRevokes, [Next]_vars PROVE HandoverRevokes'
    OBVIOUS
  <1>0. delivered \subseteq Rows /\ \A h \in Threads : JobPlace(job[h])
    BY DEF IInv, TypeOK, JobsOK
  <1>1. Keeps
    BY StepKeeps
  <1>2. \/ delivered' = delivered
        \/ \E h \in Threads : Respond(h)
    BY ZenonT(60) DEF Next, Request, Verify, PasswordCheck, LoadRow, LogoutLoad, Continue, Refresh, LoadUser,
           RefreshRevoke, ReplaySelect, PasswordSelect, ReplayRevoke, LogoutRevoke, PasswordCommit,
           LoginIssue, RefreshIssue, Issue, Fail, Disable, Expire, Crash, vars
  <1>3. CASE delivered' = delivered
    BY <1>0, <1>1, <1>3 DEF HandoverRevokes, Keeps
  <1>4. ASSUME NEW h \in Threads, Respond(h) PROVE HandoverRevokes'
    <2>1. /\ job[h].new \in Rows
          /\ parent[job[h].new] \in revoked \cup {NoToken}
          /\ delivered' = delivered \cup {job[h].new}
      BY <1>0, <1>4 DEF Respond, At, JobPlace
    <2> QED BY <1>0, <1>1, <2>1 DEF HandoverRevokes, Keeps
  <1> QED BY <1>2, <1>3, <1>4

\* Whatever overlaps, fails or crashes, a client that has received a token
\* cannot use the one it replaces.
THEOREM HandoverTheorem == Spec => []HandoverRevokes
  <1>1. Init => HandoverRevokes
    BY DEF Init, HandoverRevokes
  <1> QED BY <1>1, Invariance, StepHandover, PTL DEF Spec

LEMMA StepReplacement == IInv /\ ReplacementOK /\ [Next]_vars => ReplacementOK'
  <1> SUFFICES ASSUME IInv, ReplacementOK, [Next]_vars PROVE ReplacementOK'
    OBVIOUS
  <1>0. /\ last \in Nat
        /\ \A t \in Tokens \ Rows : replacedBy[t] = NoToken
        /\ \A h \in Threads : JobPlace(job[h])
        /\ replacedBy \in [Tokens -> Tokens \cup {NoToken}]
        /\ Rows \subseteq Tokens
    BY MaxTokensAssumption DEF IInv, TypeOK, JobsOK, RowsOK, Rows, Tokens
  <1>1. Keeps
    BY StepKeeps
  <1>2. \/ replacedBy' = replacedBy
        \/ \E h \in Threads : RefreshRevoke(h)
    BY ZenonT(60) DEF Next, Request, Verify, PasswordCheck, LoadRow, LogoutLoad, Continue, Refresh, LoadUser,
           ReplaySelect, PasswordSelect, ReplayRevoke, LogoutRevoke, PasswordCommit, Respond,
           LoginIssue, RefreshIssue, Issue, Fail, Disable, Expire, Crash, vars, table
  <1>3. Rows' \subseteq Tokens
    BY SMTT(40), MaxTokensAssumption, StepInv DEF IInv, TypeOK, Rows, Tokens
  <1>4. CASE replacedBy' = replacedBy
    <2> SUFFICES ASSUME NEW t \in Rows', replacedBy[t] # NoToken
                 PROVE  /\ replacedBy[t] \in Rows'
                        /\ parent'[replacedBy[t]] = t
                        /\ t \in revoked'
      BY <1>4 DEF ReplacementOK
    <2>1. t \in Rows
      BY <1>0, <1>3
    <2> QED BY <1>1, <2>1 DEF ReplacementOK, Keeps
  <1>5. ASSUME NEW h \in Threads, RefreshRevoke(h) PROVE ReplacementOK'
    <2>1. /\ job[h].token \in Rows
          /\ job[h].new \in Rows
          /\ parent[job[h].new] = job[h].token
      BY <1>0, <1>5 DEF RefreshRevoke, At, JobPlace
    <2>2. /\ replacedBy' = [replacedBy EXCEPT ![job[h].token] = job[h].new]
          /\ revoked' = revoked \cup {job[h].token}
          /\ parent' = parent /\ last' = last
      BY <1>5 DEF RefreshRevoke, lineage
    <2> QED BY <1>0, <2>1, <2>2 DEF ReplacementOK, Rows
  <1> QED BY <1>2, <1>4, <1>5

\* replaced_by always leads from a revoked row to a row that was issued for it.
THEOREM ReplacementTheorem == Spec => []ReplacementOK
  <1>1. Init => ReplacementOK
    BY DEF Init, ReplacementOK, Rows
  <1> QED BY <1>1, Invariance, StepReplacement, PTL DEF Spec

\* However handlers overlap, fail or crash, the table tells truly how tokens
\* followed one another: by family and owner, and by replaced_by.
THEOREM SuccessionTheorem == Spec => []SuccessionOK
  BY LineageTheorem, ReplacementTheorem, PTL DEF SuccessionOK

-----------------------------------------------------------------------------
(* Disabling an account.  A thread inserts a row for a user only when it   *)
(* has found the user active; once the account is disabled no thread gets  *)
(* there again, and each row inserted uses one of those that had.          *)

Admitted(u) == {h \in Threads : job[h].at \in {"verified", "ready"} /\ job[h].user = u}

LateOK ==
  \A u \in Users :
    IF u \in active THEN late[u] = 0
    ELSE late[u] + Cardinality(Admitted(u)) <= Cardinality(Threads)

\* Threads that keep, or give up, what they had are no newly admitted ones.
LEMMA AdmittedShrinks ==
  ASSUME NEW u \in Users, NEW h \in Threads, IInv,
         \E j : job' = [job EXCEPT ![h] = j],
         ~(job'[h].at \in {"verified", "ready"} /\ job'[h].user = u)
  PROVE  Admitted(u)' \subseteq Admitted(u) \ {h}
  BY DEF Admitted, IInv, TypeOK

LEMMA IssueLate ==
  ASSUME IInv, NEW u \in Users, NEW h \in Threads, h \in Admitted(u) \/ job[h].user # u,
         u \notin active, NEW place \in {"respond", "issued"}, NEW p, NEW s, Issue(h, place, p, s)
  PROVE  \/ Admitted(u)' \subseteq Admitted(u) /\ late'[u] = late[u]
         \/ \E g \in Admitted(u) : /\ Admitted(u)' \subseteq Admitted(u) \ {g}
                                  /\ late'[u] = late[u] + 1
  <1>1. job'[h].at = place /\ job' = [job EXCEPT ![h] = job'[h]]
    BY IssueFacts DEF Places
  <1>2. Admitted(u)' \subseteq Admitted(u) \ {h}
    BY <1>1, AdmittedShrinks
  <1>3. late \in [Users -> Nat]
    BY DEF IInv, TypeOK
  <1>4. late' = IF job[h].user \in active THEN late ELSE [late EXCEPT ![job[h].user] = @ + 1]
    BY DEF Issue
  <1>5. CASE job[h].user = u
    BY <1>2, <1>3, <1>4, <1>5 DEF Admitted
  <1>6. CASE job[h].user # u
    BY <1>2, <1>3, <1>4, <1>6
  <1> QED BY <1>5, <1>6

LEMMA StepOut ==
  ASSUME IInv, [Next]_vars, NEW u \in Users, u \notin active
  PROVE  /\ u \notin active'
         /\ \/ Admitted(u)' \subseteq Admitted(u) /\ late'[u] = late[u]
            \/ \E g \in Admitted(u) : /\ Admitted(u)' \subseteq Admitted(u) \ {g}
                                     /\ late'[u] = late[u] + 1
  <1> DEFINE Out == \/ Admitted(u)' \subseteq Admitted(u) /\ late'[u] = late[u]
                    \/ \E g \in Admitted(u) : /\ Admitted(u)' \subseteq Admitted(u) \ {g}
                                             /\ late'[u] = late[u] + 1
  <1>0. job \in [Threads -> Jobs] /\ \A h \in Threads : job[h] \in Jobs
    BY DEF IInv, TypeOK
  <1>1. u \notin active'
    BY ZenonT(60) DEF Next, Request, Verify, PasswordCheck, LoadRow, LogoutLoad, Continue, Refresh, LoadUser,
           RefreshRevoke, ReplaySelect, PasswordSelect, ReplayRevoke, LogoutRevoke, PasswordCommit,
           Respond, LoginIssue, RefreshIssue, Issue, Fail, Disable, Expire, Crash, vars, accounts
  <1>2. ASSUME NEW h \in Threads, late' = late, \E j : job' = [job EXCEPT ![h] = j],
               ~(job'[h].at \in {"verified", "ready"} /\ job'[h].user = u)
        PROVE  Out
    BY <1>2, AdmittedShrinks
  <1>3. ASSUME NEW h \in Threads, LoginIssue(h) \/ RefreshIssue(h) PROVE Out
    <2>1. h \in Admitted(job[h].user)
      BY <1>3 DEF LoginIssue, RefreshIssue, At, Admitted
    <2> QED BY <1>3, <2>1, IssueLate DEF LoginIssue, RefreshIssue
  <1>4. ASSUME NEW h \in Threads, NEW v \in Users, Verify(h, v) PROVE Out
    BY <1>0, <1>2, <1>4 DEF Verify, Idle, lineage
  <1>5. ASSUME NEW h \in Threads, LoadUser(h) PROVE Out
    <2>1. late' = late /\ \E j : job' = [job EXCEPT ![h] = j]
      BY <1>5 DEF LoadUser, lineage
    <2>2. job'[h] = IF owner[job[h].token] \in active
                    THEN [job[h] EXCEPT !.at = "ready", !.user = owner[job[h].token]] ELSE Idle
      BY <1>0, <1>5 DEF LoadUser
    <2>3. ~(job'[h].at \in {"verified", "ready"} /\ job'[h].user = u)
      BY <1>0, <2>2 DEF Idle, Jobs
    <2> QED BY <1>2, <2>1, <2>3
  <1>6. ASSUME NEW h \in Threads,
               \/ \E v \in Users : PasswordCheck(h, v)
               \/ \E t \in Rows : LogoutLoad(h, t) \/ LoadRow(h, t)
        PROVE  Out
    <2>1. late' = late /\ \E j : job' = [job EXCEPT ![h] = j]
      BY <1>6 DEF PasswordCheck, LogoutLoad, LoadRow, lineage
    <2>2. job'[h].at \in {"checked", "logout", "replay", "loaded"}
      BY ZenonT(60), <1>0, <1>6 DEF PasswordCheck, LogoutLoad, LoadRow, Idle
    <2> QED BY <1>2, <2>1, <2>2
  <1>7. ASSUME NEW h \in Threads,
               \/ RefreshRevoke(h) \/ ReplaySelect(h) \/ PasswordSelect(h) \/ ReplayRevoke(h)
               \/ LogoutRevoke(h) \/ PasswordCommit(h) \/ Respond(h) \/ Fail(h)
        PROVE  Out
    <2>1. late' = late /\ \E j : job' = [job EXCEPT ![h] = j]
      BY <1>7 DEF RefreshRevoke, ReplaySelect, PasswordSelect, ReplayRevoke, LogoutRevoke,
                  PasswordCommit, Respond, Fail, lineage
    <2>2. job'[h].at \in {"respond", "burning", "changing", "idle"}
      <3>1. CASE RefreshRevoke(h) \/ ReplaySelect(h)
        BY ZenonT(60), <1>0, <3>1 DEF RefreshRevoke, ReplaySelect, Jobs
      <3>2. CASE PasswordSelect(h)
        BY <1>0, <3>2 DEF PasswordSelect, Jobs
      <3>3. CASE \/ ReplayRevoke(h) \/ LogoutRevoke(h) \/ PasswordCommit(h)
                \/ Respond(h) \/ Fail(h)
        <4>1. job'[h] = Idle
          BY <1>0, <3>3 DEF ReplayRevoke, LogoutRevoke, PasswordCommit, Respond, Fail
        <4> QED BY <4>1 DEF Idle
      <3> QED BY <1>7, <3>1, <3>2, <3>3
    <2> QED BY <1>2, <2>1, <2>2
  <1>8. ASSUME Crash PROVE Out
    BY <1>8 DEF Crash, Admitted, Idle, lineage
  <1>9. ASSUME \/ \E v \in Users : Disable(v)
               \/ \E t \in Rows : Expire(t)
               \/ UNCHANGED vars
        PROVE  Out
    BY <1>9 DEF Disable, Expire, vars, lineage, Admitted
  <1>10. Out
    BY <1>3, <1>4, <1>5, <1>6, <1>7, <1>8, <1>9 DEF Next, Request, Continue, Refresh
  <1> QED BY <1>1, <1>10

\* An active user has no late row.
LEMMA StepIn ==
  ASSUME IInv, [Next]_vars, NEW u \in Users, u \in active, late[u] = 0
  PROVE  late'[u] = 0
  <1>1. late' = late \/ \E h \in Threads : \E place, p, s : Issue(h, place, p, s)
    BY ZenonT(60) DEF Next, Request, Verify, PasswordCheck, LoadRow, LogoutLoad, Continue, Refresh, LoadUser,
           RefreshRevoke, ReplaySelect, PasswordSelect, ReplayRevoke, LogoutRevoke, PasswordCommit,
           Respond, LoginIssue, RefreshIssue, Fail, Disable, Expire, Crash, vars, lineage
  <1>2. ASSUME NEW h \in Threads, NEW place, NEW p, NEW s, Issue(h, place, p, s)
        PROVE  late'[u] = late[u]
    BY <1>2 DEF Issue, IInv, TypeOK
  <1> QED BY <1>1, <1>2

LEMMA StepLate == IInv /\ LateOK /\ [Next]_vars => LateOK'
  <1> SUFFICES ASSUME IInv, LateOK, [Next]_vars, NEW u \in Users
               PROVE  IF u \in active' THEN late'[u] = 0
                      ELSE late'[u] + Cardinality(Admitted(u)') <= Cardinality(Threads)
    BY DEF LateOK
  <1>1. /\ late[u] \in Nat
        /\ IF u \in active THEN late[u] = 0
           ELSE late[u] + Cardinality(Admitted(u)) <= Cardinality(Threads)
    BY DEF IInv, TypeOK, LateOK
  <1>2. /\ Admitted(u) \subseteq Threads /\ Admitted(u)' \subseteq Threads
        /\ IsFiniteSet(Admitted(u)) /\ IsFiniteSet(Admitted(u)')
        /\ Cardinality(Admitted(u)) \in Nat
        /\ Cardinality(Admitted(u)') \in Nat
        /\ Cardinality(Threads) \in Nat
        /\ Cardinality(Admitted(u)') <= Cardinality(Threads)
    <2>1. Admitted(u) \subseteq Threads /\ Admitted(u)' \subseteq Threads
      BY DEF Admitted
    <2> QED BY <2>1, ThreadsAssumption, FS_Subset, FS_CardinalityType
  <1>3. CASE u \in active
    BY <1>1, <1>2, <1>3, StepIn
  <1>4. CASE u \notin active
    <2>1. CASE Admitted(u)' \subseteq Admitted(u) /\ late'[u] = late[u]
      <3>1. Cardinality(Admitted(u)') <= Cardinality(Admitted(u))
        BY <1>2, <2>1, FS_Subset
      <3> QED BY <1>1, <1>2, <1>4, <2>1, <3>1, StepOut
    <2>2. ASSUME NEW g \in Admitted(u), Admitted(u)' \subseteq Admitted(u) \ {g},
                 late'[u] = late[u] + 1
          PROVE  late'[u] + Cardinality(Admitted(u)') <= Cardinality(Threads)
      <3>1. /\ IsFiniteSet(Admitted(u) \ {g})
            /\ Cardinality(Admitted(u) \ {g}) = Cardinality(Admitted(u)) - 1
        BY <1>2, FS_RemoveElement
      <3>2. Cardinality(Admitted(u)') <= Cardinality(Admitted(u) \ {g})
        BY <2>2, <3>1, FS_Subset
      <3> QED BY <1>1, <1>2, <1>4, <2>2, <3>1, <3>2
    <2> QED BY <1>4, <2>1, <2>2, StepOut
  <1> QED BY <1>3, <1>4

\* With any number of threads, a disabled account gets at most one more row per
\* thread, ever.
THEOREM DisabledTheorem == Spec => []DisabledStaysOut
  <1>1. Init => LateOK
    BY DEF Init, LateOK
  <1>2. IInv /\ LateOK => DisabledStaysOut
    <2> SUFFICES ASSUME IInv, LateOK, NEW u \in Users PROVE late[u] <= Cardinality(Threads)
      BY DEF DisabledStaysOut
    <2>1. /\ late[u] \in Nat
          /\ Admitted(u) \subseteq Threads
          /\ IF u \in active THEN late[u] = 0
             ELSE late[u] + Cardinality(Admitted(u)) <= Cardinality(Threads)
      BY DEF IInv, TypeOK, LateOK, Admitted
    <2>2. Cardinality(Admitted(u)) \in Nat /\ Cardinality(Threads) \in Nat
      BY <2>1, ThreadsAssumption, FS_Subset, FS_CardinalityType
    <2> QED BY <2>1, <2>2
  <1> QED BY <1>1, <1>2, Invariance, StepLate, PTL DEF Spec

-----------------------------------------------------------------------------
(* Handlers that do not overlap: a pool of one thread.  What its handler   *)
(* has read is then still so when it acts on it, whatever expires, is      *)
(* disabled, fails or crashes.                                             *)

OneThread == \E h : Threads = {h}

StillSo(j) ==
  /\ j.at \in {"loaded", "ready", "issued"} => j.token \in Live
  /\ j.at = "verified" => j.proof = password[j.user]
  /\ j.at = "burning" => j.seen = Family(j.token) \ revoked
  /\ j.at = "changing" => j.seen = {t \in Live : owner[t] = j.user}
  /\ j.at = "respond" /\ parent[j.new] # NoToken =>
       \A t \in delivered : parent[t] = parent[j.new] => t = j.new

\* A family is named by one of its rows.
Named == burned \subseteq Rows /\ \A t \in Rows : family[t] \in Rows

SerialInv ==
  /\ \A h \in Threads : StillSo(job[h])
  /\ Named
  /\ SingleUse
  /\ BurnedFamilyIsDead
  /\ LivesUnderCurrentPassword

\* Steps that touch neither the table nor the passwords.
LEMMA SerialQuiet ==
  ASSUME IInv, SerialInv, UNCHANGED <<table, password, delivered, burned, parent, secret>>,
         \A h \in Threads : StillSo(job[h])'
  PROVE  SerialInv'
  <1>1. Rows' = Rows /\ Live' = Live
    BY DEF table, Rows, Live
  <1>2. Named'
    BY <1>1 DEF SerialInv, Named, table
  <1>3. SingleUse'
    BY DEF SerialInv, SingleUse
  <1>4. BurnedFamilyIsDead'
    BY <1>1 DEF SerialInv, BurnedFamilyIsDead, table
  <1>5. LivesUnderCurrentPassword'
    BY <1>1 DEF SerialInv, LivesUnderCurrentPassword, table
  <1> QED BY <1>2, <1>3, <1>4, <1>5 DEF SerialInv

\* Inserting a row that belongs: into a family of its own or that of a live row,
\* behind the password of its user.
LEMMA SerialIssue ==
  ASSUME IInv, SerialInv, [Next]_vars, NEW h, Threads = {h}, NEW place \in {"issued", "respond"},
         NEW p \in Live \cup {NoToken}, NEW s, Issue(h, place, p, s), s = password[job[h].user],
         place = "issued" => p = job[h].token /\ p \in Live,
         place = "respond" => p = NoToken
  PROVE  SerialInv'
  <1> PICK n : n = last + 1
    OBVIOUS
  <1>0. /\ last \in Nat
        /\ revoked \subseteq Rows /\ delivered \subseteq Rows
        /\ Rows \subseteq Tokens
        /\ owner \in [Tokens -> Users \cup {None}]
        /\ secret \in [Tokens -> Nat]
        /\ h \in Threads
    BY MaxTokensAssumption DEF IInv, TypeOK, Rows, Tokens
  <1>1. /\ job'[h].at = place
        /\ job'[h].new = n
        /\ job'[h].token = job[h].token
        /\ n \in Tokens
        /\ parent'[n] = p
        /\ owner'[n] = job[h].user
        /\ family'[n] = IF p = NoToken THEN n ELSE family[p]
        /\ revoked' = revoked
        /\ last' = n
    BY <1>0, IssueFacts DEF Places
  <1>2. /\ secret' = [secret EXCEPT ![n] = s]
        /\ UNCHANGED <<password, delivered, burned>>
    BY DEF Issue, accounts
  <1>3. Keeps
    BY StepKeeps
  <1>4. Rows' = Rows \cup {n} /\ n \notin Rows /\ Live' = Live \cup {n}
    BY <1>0, <1>1 DEF Rows, Live
  <1>5. p # NoToken => p \in Live /\ p \in Rows
    BY DEF Live
  <1>6. StillSo(job[h])'
    BY <1>1, <1>4, <1>5 DEF StillSo
  <1>7. Named'
    BY <1>1, <1>2, <1>3, <1>4, <1>5 DEF SerialInv, Named, Keeps
  <1>8. SingleUse'
    BY <1>0, <1>2, <1>3 DEF SerialInv, SingleUse, Keeps
  <1>9. BurnedFamilyIsDead'
    <2>1. family'[n] \notin burned
      BY <1>1, <1>4, <1>5 DEF SerialInv, Named, BurnedFamilyIsDead
    <2> QED BY <2>1, <1>2, <1>3, <1>4 DEF SerialInv, BurnedFamilyIsDead, Keeps, Live
  <1>10. LivesUnderCurrentPassword'
    <2>1. secret'[n] = password'[owner'[n]]
      BY <1>0, <1>1, <1>2
    <2>2. ASSUME NEW t \in Live PROVE secret'[t] = password'[owner'[t]]
      BY <1>0, <1>2, <1>3, <1>4 DEF SerialInv, LivesUnderCurrentPassword, Keeps, Live
    <2> QED BY <2>1, <2>2, <1>4 DEF LivesUnderCurrentPassword
  <1> QED BY <1>6, <1>7, <1>8, <1>9, <1>10 DEF SerialInv

LEMMA StepSerial ==
  ASSUME OneThread, IInv, HandoverRevokes, SerialInv, [Next]_vars
  PROVE  SerialInv'
  <1>0. PICK h : Threads = {h}
    BY DEF OneThread
  <1>1. /\ h \in Threads
        /\ job \in [Threads -> Jobs]
        /\ job[h] \in Jobs
        /\ JobPlace(job[h])
        /\ StillSo(job[h])
        /\ last \in Nat
        /\ revoked \subseteq Rows /\ delivered \subseteq Rows
    BY <1>0, MaxTokensAssumption DEF IInv, TypeOK, JobsOK, SerialInv
  \* The handler reads, gives up or answers nobody.
  <1>2. ASSUME UNCHANGED <<table, password, delivered, burned, parent, secret>>,
               StillSo(job[h])'
        PROVE  SerialInv'
    BY <1>0, <1>2, SerialQuiet
  <1>3. ASSUME NEW u \in Users, Verify(h, u) PROVE SerialInv'
    <2>1. job'[h] = [at |-> "verified", user |-> u, token |-> NoToken, new |-> NoToken,
                     seen |-> {}, proof |-> password[u]]
      BY <1>1, <1>3 DEF Verify, Idle
    <2>2. StillSo(job[h])'
      BY <1>3, <2>1 DEF StillSo, Verify, accounts
    <2> QED BY <1>2, <1>3, <2>2 DEF Verify, accounts, lineage
  <1>4. ASSUME NEW u \in Users, PasswordCheck(h, u) PROVE SerialInv'
    <2>1. job'[h].at = "checked"
      BY <1>1, <1>4 DEF PasswordCheck, Idle
    <2> QED BY <1>2, <1>4, <2>1 DEF PasswordCheck, accounts, lineage, StillSo
  <1>5. ASSUME NEW t \in Rows, LoadRow(h, t) PROVE SerialInv'
    <2>1. /\ job'[h].at = IF t \in revoked THEN "replay" ELSE "loaded"
          /\ job'[h].token = t
      BY <1>1, <1>5 DEF LoadRow, Idle
    <2>2. Live' = Live
      BY <1>5 DEF LoadRow, Live, Rows, table
    <2>3. StillSo(job[h])'
      BY <2>1, <2>2 DEF StillSo, Live
    <2> QED BY <1>2, <1>5, <2>3 DEF LoadRow, accounts, lineage
  <1>6. ASSUME NEW t \in Rows, LogoutLoad(h, t) PROVE SerialInv'
    <2>1. job'[h].at = "logout"
      BY <1>1, <1>6 DEF LogoutLoad, Idle
    <2> QED BY <1>2, <1>6, <2>1 DEF LogoutLoad, accounts, lineage, StillSo
  <1>7. ASSUME LoginIssue(h) PROVE SerialInv'
    <2>1. /\ job[h].at = "verified"
          /\ Issue(h, "respond", NoToken, job[h].proof)
      BY <1>7 DEF LoginIssue, At
    <2> QED BY <1>0, <1>1, <2>1, SerialIssue DEF StillSo
  <1>8. ASSUME RefreshIssue(h) PROVE SerialInv'
    <2>1. /\ job[h].at = "ready"
          /\ Issue(h, "issued", job[h].token, secret[job[h].token])
      BY <1>8 DEF RefreshIssue, At
    <2>2. job[h].token \in Live /\ job[h].user = owner[job[h].token]
      BY <1>1, <2>1 DEF StillSo, JobPlace
    <2>3. secret[job[h].token] = password[job[h].user]
      BY <2>2 DEF SerialInv, LivesUnderCurrentPassword
    <2> QED BY <1>0, <2>1, <2>2, <2>3, SerialIssue
  <1>9. ASSUME LoadUser(h) PROVE SerialInv'
    <2>1. /\ \/ job'[h].at = "ready" /\ job'[h].token = job[h].token
             \/ job'[h].at = "idle"
          /\ job[h].at = "loaded"
      BY <1>1, <1>9 DEF LoadUser, Idle, Jobs, At
    <2>2. Live' = Live
      BY <1>9 DEF LoadUser, Live, Rows, table
    <2>3. StillSo(job[h])'
      BY <1>1, <2>1, <2>2 DEF StillSo
    <2> QED BY <1>2, <1>9, <2>3 DEF LoadUser, accounts, lineage
  <1>10. ASSUME ReplaySelect(h) PROVE SerialInv'
    <2>1. /\ job'[h].at = "burning"
          /\ job'[h].token = job[h].token
          /\ job'[h].seen = Family(job[h].token) \ revoked
      BY <1>1, <1>10 DEF ReplaySelect, Jobs
    <2>2. StillSo(job[h])'
      BY <1>10, <2>1 DEF StillSo, ReplaySelect, Family, Rows, table
    <2> QED BY <1>2, <1>10, <2>2 DEF ReplaySelect, accounts, lineage
  <1>11. ASSUME PasswordSelect(h) PROVE SerialInv'
    <2>1. /\ job'[h].at = "changing"
          /\ job'[h].user = job[h].user
          /\ job'[h].seen = {t \in Live : owner[t] = job[h].user}
      BY <1>1, <1>11 DEF PasswordSelect, Jobs
    <2>2. StillSo(job[h])'
      BY <1>11, <2>1 DEF StillSo, PasswordSelect, Live, Rows, table
    <2> QED BY <1>2, <1>11, <2>2 DEF PasswordSelect, accounts, lineage
  <1>12. ASSUME Fail(h) \/ Crash PROVE SerialInv'
    <2>1. job'[h].at = "idle"
      BY <1>1, <1>12 DEF Fail, Crash, Idle
    <2> QED BY <1>2, <1>12, <2>1 DEF Fail, Crash, accounts, lineage, StillSo
  <1>13. ASSUME (\E u \in Users : Disable(u)) \/ (\E t \in Rows : Expire(t)) \/ UNCHANGED vars
         PROVE  SerialInv'
    <2>1. UNCHANGED <<table, job, password, delivered, burned, parent, secret>>
      BY <1>13 DEF Disable, Expire, vars, accounts, lineage
    <2>2. StillSo(job[h])'
      BY <1>1, <2>1 DEF StillSo, Live, Family, Rows, table
    <2> QED BY <1>2, <2>1, <2>2
  \* The handler answers: the one successor of a token that nobody had yet.
  <1>14. ASSUME Respond(h) PROVE SerialInv'
    <2>1. /\ job'[h].at = "idle"
          /\ job[h].at = "respond"
          /\ delivered' = delivered \cup {job[h].new}
          /\ UNCHANGED <<table, password, burned, parent, secret>>
      BY <1>1, <1>14 DEF Respond, At, Idle, accounts, lineage
    <2>2. SingleUse'
      BY <1>1, <2>1 DEF SerialInv, SingleUse, StillSo
    <2>3. Rows' = Rows /\ Live' = Live
      BY <2>1 DEF Rows, Live, table
    <2>4. Named' /\ BurnedFamilyIsDead' /\ LivesUnderCurrentPassword'
      BY <2>1, <2>3 DEF SerialInv, Named, BurnedFamilyIsDead, LivesUnderCurrentPassword, table
    <2>5. StillSo(job[h])'
      BY <2>1 DEF StillSo
    <2> QED BY <1>0, <2>2, <2>4, <2>5 DEF SerialInv
  \* Revoking rows leaves fewer to vouch for.
  <1>15. ASSUME UNCHANGED <<last, owner, family, delivered, parent, secret>>,
                revoked \subseteq revoked', StillSo(job[h])',
                \A t \in Live' : secret[t] = password'[owner[t]] /\ family[t] \notin burned',
                burned' \subseteq Rows
         PROVE  SerialInv'
    <2>1. Rows' = Rows
      BY <1>15 DEF Rows
    <2>2. Named' /\ SingleUse' /\ BurnedFamilyIsDead' /\ LivesUnderCurrentPassword'
      BY <1>15, <2>1 DEF SerialInv, Named, SingleUse, BurnedFamilyIsDead, LivesUnderCurrentPassword
    <2> QED BY <1>0, <1>15, <2>2 DEF SerialInv
  <1>16. ASSUME RefreshRevoke(h) PROVE SerialInv'
    <2>1. /\ job[h].at = "issued"
          /\ job'[h].at = "respond"
          /\ job'[h].new = job[h].new
          /\ revoked' = revoked \cup {job[h].token}
          /\ UNCHANGED <<last, owner, family, password, delivered, burned, parent, secret>>
      BY <1>1, <1>16 DEF RefreshRevoke, At, Jobs, accounts, lineage
    <2>2. /\ job[h].token \in Live
          /\ parent[job[h].new] = job[h].token
      BY <1>1, <2>1 DEF StillSo, JobPlace
    <2>3. \A t \in delivered : parent[t] # job[h].token \/ parent[t] = NoToken
      BY <2>2 DEF HandoverRevokes, Live
    <2>4. StillSo(job[h])'
      BY <2>1, <2>2, <2>3 DEF StillSo
    <2>5. Live' \subseteq Live
      BY <2>1 DEF Live, Rows
    <2> QED BY <1>15, <2>1, <2>4, <2>5
            DEF SerialInv, Named, BurnedFamilyIsDead, LivesUnderCurrentPassword
  <1>17. ASSUME ReplayRevoke(h) PROVE SerialInv'
    <2>1. /\ job[h].at = "burning"
          /\ job'[h].at = "idle"
          /\ revoked' = revoked \cup job[h].seen
          /\ burned' = burned \cup {family[job[h].token]}
          /\ UNCHANGED <<last, owner, family, password, delivered, parent, secret>>
      BY <1>1, <1>17 DEF ReplayRevoke, At, Idle, accounts, lineage
    <2>2. /\ job[h].seen = Family(job[h].token) \ revoked
          /\ family[job[h].token] \in Rows
      BY <1>1, <2>1 DEF StillSo, JobPlace, SerialInv, Named
    <2>3. Live' = Live \ Family(job[h].token)
      BY <2>1, <2>2 DEF Live, Rows
    <2>4. \A t \in Live' : family[t] # family[job[h].token]
      BY <2>3 DEF Family, Live
    <2>5. StillSo(job[h])'
      BY <2>1 DEF StillSo
    <2> QED BY <1>15, <2>1, <2>2, <2>3, <2>4, <2>5
            DEF SerialInv, Named, BurnedFamilyIsDead, LivesUnderCurrentPassword
  <1>18. ASSUME LogoutRevoke(h) PROVE SerialInv'
    <2>1. /\ job'[h].at = "idle"
          /\ revoked' = revoked \cup {job[h].token}
          /\ UNCHANGED <<last, owner, family, password, delivered, burned, parent, secret>>
      BY <1>1, <1>18 DEF LogoutRevoke, Idle, accounts, lineage
    <2>2. Live' \subseteq Live
      BY <2>1 DEF Live, Rows
    <2>3. StillSo(job[h])'
      BY <2>1 DEF StillSo
    <2> QED BY <1>15, <2>1, <2>2, <2>3
            DEF SerialInv, Named, BurnedFamilyIsDead, LivesUnderCurrentPassword
  <1>19. ASSUME PasswordCommit(h) PROVE SerialInv'
    <2>1. /\ job[h].at = "changing"
          /\ job'[h].at = "idle"
          /\ revoked' = revoked \cup job[h].seen
          /\ password' = [password EXCEPT ![job[h].user] = @ + 1]
          /\ UNCHANGED <<last, owner, family, delivered, burned, parent, secret>>
      BY <1>1, <1>19 DEF PasswordCommit, At, Idle, lineage
    <2>2. job[h].seen = {t \in Live : owner[t] = job[h].user}
      BY <1>1, <2>1 DEF StillSo
    <2>3. \A t \in Live' : t \in Live /\ owner[t] # job[h].user
      BY <2>1, <2>2 DEF Live, Rows
    <2>4. \A t \in Live' : password'[owner[t]] = password[owner[t]]
      BY <2>1, <2>3 DEF IInv, TypeOK, RowsOK, Live
    <2>5. StillSo(job[h])'
      BY <2>1 DEF StillSo
    <2> QED BY <1>15, <2>1, <2>3, <2>4, <2>5
            DEF SerialInv, Named, BurnedFamilyIsDead, LivesUnderCurrentPassword
  <1> QED
    BY <1>0, <1>3, <1>4, <1>5, <1>6, <1>7, <1>8, <1>9, <1>10, <1>11, <1>12, <1>13, <1>14, <1>16,
       <1>17, <1>18, <1>19
    DEF Next, Request, Continue, Refresh

LEMMA SerialTheorem ==
  ASSUME OneThread PROVE Spec => []SerialInv
  <1>1. Init => SerialInv
    BY DEF Init, SerialInv, StillSo, Named, SingleUse, BurnedFamilyIsDead,
           LivesUnderCurrentPassword, Live, Rows, Idle
  <1>2. IInv /\ HandoverRevokes /\ SerialInv /\ [Next]_vars => SerialInv'
    BY StepSerial
  <1> QED BY <1>1, <1>2, Invariance, HandoverTheorem, PTL DEF Spec

\* Without overlap a refresh token is good for one successor, whatever responses
\* are lost and wherever a handler dies (app/security/tokens.py:5).
THEOREM SerialSingleUse ==
  ASSUME OneThread PROVE Spec => []SingleUse
  BY SerialTheorem, PTL DEF SerialInv

\* Without overlap a replay leaves nothing of its family alive (SECURITY.md:139).
THEOREM SerialReplay ==
  ASSUME OneThread PROVE Spec => []BurnedFamilyIsDead
  BY SerialTheorem, PTL DEF SerialInv

\* Without overlap no session outlives the password it was opened with
\* (auth.py:207).
THEOREM SerialPassword ==
  ASSUME OneThread PROVE Spec => []LivesUnderCurrentPassword
  BY SerialTheorem, PTL DEF SerialInv

-----------------------------------------------------------------------------
(* Without overlap the table implements TokenFamilies: a family is one     *)
(* token that moves.                                                       *)

\* The live tokens whose rotation has taken effect, one in a family at most.
Current == Live \cap Used

OneHolder == \A s, t \in Current : family[s] = family[t] => s = t

\* What a refresh holds: a token a client has, then the row that follows it.
Onward(j) ==
  /\ j.at \in {"loaded", "ready", "issued"} => j.token \in delivered
  /\ j.at = "issued" => j.new \in Live
  /\ j.at = "respond" => j.new \in Used

FamilyInv == OneHolder /\ delivered \subseteq Used /\ \A h \in Threads : Onward(job[h])

\* The refinement mapping by its values.
HolderOK ==
  /\ Holder = [f \in Tokens |-> Holder[f]]
  /\ \A f \in Tokens : \A t \in Current : family[t] = f => Holder[f] = t
  /\ \A f \in Tokens : (\A t \in Current : family[t] # f) => Holder[f] = NoToken

LEMMA RowsTyped ==
  ASSUME IInv
  PROVE  /\ last \in Nat /\ Rows \subseteq Tokens /\ revoked \subseteq Rows
         /\ delivered \subseteq Rows /\ Current \subseteq Rows /\ Current \cap revoked = {}
         /\ NoToken \notin Tokens
         /\ family \in [Tokens -> Tokens \cup {NoToken}]
         /\ parent \in [Tokens -> Tokens \cup {NoToken}]
         /\ replacedBy \in [Tokens -> Tokens \cup {NoToken}]
  <1>1. /\ last \in Nat /\ Rows \subseteq Tokens /\ revoked \subseteq Rows
        /\ delivered \subseteq Rows /\ NoToken \notin Tokens
    BY MaxTokensAssumption DEF IInv, TypeOK, Rows, Tokens, NoToken
  <1>2. Current \subseteq Rows /\ Current \cap revoked = {}
    BY DEF Current, Live
  <1>3. /\ family \in [Tokens -> Tokens \cup {NoToken}]
        /\ parent \in [Tokens -> Tokens \cup {NoToken}]
        /\ replacedBy \in [Tokens -> Tokens \cup {NoToken}]
    BY DEF IInv, TypeOK
  <1> QED BY <1>1, <1>2, <1>3

LEMMA HolderIs == IInv /\ OneHolder => HolderOK
  <1> SUFFICES ASSUME IInv, OneHolder PROVE HolderOK
    OBVIOUS
  <1>1. Holder = [f \in Tokens |-> Holder[f]]
    BY DEF Holder
  <1>2. ASSUME NEW f \in Tokens, NEW t \in Current, family[t] = f PROVE Holder[f] = t
    <2> DEFINE Is(c) == /\ family[c] = f
                        /\ \A s \in Live \cap Used : family[s] = f => s <= c
    <2>1. \A s \in Current : family[s] = f => s = t
      BY <1>2 DEF OneHolder
    <2>2. t \in Live \cap Used /\ t \in Nat /\ Is(t)
      BY <1>2, <2>1, RowsTyped DEF Current, Tokens
    <2>3. Holder[f] = CHOOSE c \in Live \cap Used : Is(c)
      BY <1>2, <2>2 DEF Holder
    <2>4. Holder[f] \in Live \cap Used /\ Is(Holder[f])
      <3> HIDE DEF Is
      <3> QED BY <2>2, <2>3
    <2> QED BY <2>1, <2>4 DEF Current
  <1>3. ASSUME NEW f \in Tokens, \A t \in Current : family[t] # f PROVE Holder[f] = NoToken
    BY <1>3 DEF Holder, Current
  <1> QED BY <1>1, <1>2, <1>3 DEF HolderOK

LEMMA HolderNext == IInv' /\ OneHolder' => HolderOK'
  BY HolderIs, PTL

\* A step that leaves the rows alone.
LEMMA SameRows ==
  ASSUME IInv, FamilyInv, UNCHANGED <<last, family, revoked, replacedBy, parent>>,
         delivered' \subseteq Used', \A h \in Threads : Onward(job[h])'
  PROVE  FamilyInv' /\ UNCHANGED <<Holder, Used>>
  <1>1. Rows' = Rows /\ Live' = Live /\ Used' = Used
    BY DEF Rows, Live, Used
  <1>2. Holder' = Holder
    BY <1>1 DEF Holder
  <1>3. OneHolder'
    BY <1>1 DEF FamilyInv, OneHolder, Current
  <1> QED BY <1>1, <1>2, <1>3 DEF FamilyInv

\* Revoking rows closes the families whose current token is among them.
LEMMA RevokingCloses ==
  ASSUME IInv, IInv', FamilyInv, UNCHANGED <<last, family, replacedBy, parent, delivered>>,
         revoked \subseteq revoked', \A h \in Threads : Onward(job[h])'
  PROVE  FamilyInv' /\ \E S \in SUBSET Tokens : Promise!Close(S)
  <1>1. Rows' = Rows /\ Used' = Used
    BY DEF Rows, Used
  <1>2. Current' = Current \ revoked'
    BY <1>1 DEF Current, Live
  <1>3. OneHolder'
    BY <1>2 DEF FamilyInv, OneHolder
  <1>4. HolderOK /\ HolderOK'
    BY <1>3, HolderIs, HolderNext DEF FamilyInv
  <1> DEFINE S == {f \in Tokens : Holder[f] \in revoked'}
  <1>5. ASSUME NEW f \in Tokens
        PROVE  Holder'[f] = IF f \in S THEN 0 ELSE Holder[f]
    <2>1. CASE \E t \in Current : family[t] = f
      <3>1. PICK t \in Current : family[t] = f
        BY <2>1
      <3>2. Holder[f] = t
        BY <3>1, <1>4 DEF HolderOK
      <3>3. CASE t \in revoked'
        <4>1. \A c \in Current' : family'[c] # f
          BY <1>2, <3>1, <3>3 DEF FamilyInv, OneHolder
        <4> QED BY <1>4, <3>2, <3>3, <4>1 DEF HolderOK, NoToken
      <3>4. CASE t \notin revoked'
        BY <1>2, <1>4, <3>1, <3>2, <3>4 DEF HolderOK
      <3> QED BY <3>3, <3>4
    <2>2. CASE \A t \in Current : family[t] # f
      <3>1. Holder[f] = 0 /\ Holder'[f] = 0
        BY <1>2, <1>4, <2>2 DEF HolderOK, NoToken
      <3> QED BY <3>1
    <2> QED BY <2>1, <2>2
  <1>6. Holder' = [f \in Tokens |-> IF f \in S THEN 0 ELSE Holder[f]]
    <2>1. Holder' = [f \in Tokens |-> Holder'[f]]
      BY <1>4 DEF HolderOK, Tokens
    <2> QED BY <1>5, <2>1
  <1>7. Promise!Close(S) /\ S \in SUBSET Tokens
    BY <1>1, <1>6 DEF Promise!Close, Promise!Tokens, Tokens
  <1> QED BY <1>1, <1>3, <1>7 DEF FamilyInv

\* A login's row opens a family.
LEMMA LoginOpens ==
  ASSUME IInv, IInv', FamilyInv, Named, NEW h \in Threads, Threads = {h}, [Next]_vars, LoginIssue(h)
  PROVE  FamilyInv' /\ \E t \in Tokens : Promise!Open(t)
  <1> DEFINE n == last + 1
  <1>0. Keeps
    BY StepKeeps
  <1>1. Issue(h, "respond", NoToken, job[h].proof)
    BY DEF LoginIssue
  <1>2. /\ job'[h].at = "respond" /\ job'[h].new = n /\ n \in Tokens
        /\ parent'[n] = NoToken /\ family'[n] = n /\ revoked' = revoked /\ last' = n
    BY <1>1, IssueFacts DEF Places
  <1>3. UNCHANGED <<replacedBy, delivered>>
    BY <1>1 DEF Issue
  <1>4. Rows' = Rows \cup {n} /\ n \notin Rows
    BY <1>2, RowsTyped DEF Rows
  <1>5. Live' = Live \cup {n}
    BY <1>2, <1>4, RowsTyped DEF Live
  <1>6. Used' = Used \cup {n} /\ n \notin Used
    BY <1>0, <1>2, <1>3, <1>4 DEF Used, Keeps
  <1>7. Current' = Current \cup {n} /\ n \notin Current
    BY <1>5, <1>6, <1>4 DEF Current, Live, Used
  <1>8. \A t \in Current : family'[t] = family[t] /\ family[t] # n
    BY <1>0, <1>4, RowsTyped DEF Keeps, Named
  <1>9. OneHolder'
    BY <1>2, <1>7, <1>8 DEF FamilyInv, OneHolder
  <1>10. HolderOK /\ HolderOK'
    BY <1>9, HolderIs, HolderNext DEF FamilyInv
  <1>11. ASSUME NEW f \in Tokens PROVE Holder'[f] = IF f = n THEN n ELSE Holder[f]
    <2>1. CASE f = n
      BY <1>2, <1>7, <1>10, <2>1 DEF HolderOK
    <2>2. CASE f # n /\ \E t \in Current : family[t] = f
      BY <1>7, <1>8, <1>10, <2>2 DEF HolderOK
    <2>3. CASE f # n /\ \A t \in Current : family[t] # f
      <3>1. \A t \in Current' : family'[t] # f
        BY <1>2, <1>7, <1>8, <2>3
      <3> QED BY <1>10, <2>3, <3>1 DEF HolderOK
    <2> QED BY <2>1, <2>2, <2>3
  <1>12. Holder' = [Holder EXCEPT ![n] = n]
    <2>1. Holder' = [f \in Tokens |-> Holder'[f]] /\ Holder = [f \in Tokens |-> Holder[f]]
      BY <1>10 DEF HolderOK, Tokens
    <2> QED BY <1>2, <1>11, <2>1
  <1>13. Promise!Open(n)
    BY <1>2, <1>6, <1>12 DEF Promise!Open, Promise!Use, Promise!Tokens, Tokens
  <1>14. delivered' \subseteq Used' /\ Onward(job[h])'
    BY <1>2, <1>3, <1>6 DEF FamilyInv, Onward
  <1> QED BY <1>2, <1>9, <1>13, <1>14 DEF FamilyInv

\* A successor's row is nobody's token yet.
LEMMA IssueWaits ==
  ASSUME IInv, IInv', FamilyInv, SerialInv, ReplacementOK,
         NEW h \in Threads, Threads = {h}, [Next]_vars, RefreshIssue(h)
  PROVE  FamilyInv' /\ UNCHANGED <<Holder, Used>>
  <1> DEFINE n == last + 1
             p == job[h].token
  <1>0. Keeps
    BY StepKeeps
  <1>1. At(h, "ready") /\ Issue(h, "issued", p, secret[p])
    BY DEF RefreshIssue
  <1>2. /\ job'[h].at = "issued" /\ job'[h].new = n /\ n \in Tokens /\ job'[h].token = p
        /\ parent'[n] = p /\ revoked' = revoked /\ last' = n
    BY <1>1, IssueFacts DEF Places
  <1>3. UNCHANGED <<replacedBy, delivered>>
    BY <1>1 DEF Issue
  <1>4. p \in Live /\ p \in delivered
    BY <1>1 DEF SerialInv, StillSo, FamilyInv, Onward, At
  <1>5. Rows' = Rows \cup {n} /\ n \notin Rows
    BY <1>2, RowsTyped DEF Rows
  <1>6. Live' = Live \cup {n}
    BY <1>2, <1>5, RowsTyped DEF Live
  <1>7. replacedBy[p] = NoToken /\ p # NoToken /\ n # NoToken
    BY <1>2, <1>4, RowsTyped DEF ReplacementOK, Live
  <1>8. Used' = Used
    BY <1>0, <1>2, <1>3, <1>5, <1>7 DEF Used, Keeps
  <1>9. Current' = Current /\ \A t \in Current : family'[t] = family[t]
    BY <1>0, <1>5, <1>6, <1>8, RowsTyped DEF Current, Used, Keeps
  <1>10. OneHolder'
    BY <1>9 DEF FamilyInv, OneHolder
  <1>11. HolderOK /\ HolderOK'
    BY <1>10, HolderIs, HolderNext DEF FamilyInv
  <1>12. ASSUME NEW f \in Tokens PROVE Holder'[f] = Holder[f]
    <2>1. CASE \E t \in Current : family[t] = f
      BY <1>9, <1>11, <2>1 DEF HolderOK
    <2>2. CASE \A t \in Current : family[t] # f
      <3>1. Holder[f] = NoToken /\ Holder'[f] = NoToken
        BY <1>9, <1>11, <2>2 DEF HolderOK
      <3> QED BY <3>1
    <2> QED BY <2>1, <2>2
  <1>13. Holder' = Holder
    <2>1. Holder' = [f \in Tokens |-> Holder'[f]] /\ Holder = [f \in Tokens |-> Holder[f]]
      BY <1>11 DEF HolderOK, Tokens
    <2> QED BY <1>12, <2>1
  <1>14. delivered' \subseteq Used' /\ Onward(job[h])'
    BY <1>2, <1>3, <1>4, <1>6, <1>8 DEF FamilyInv, Onward
  <1> QED BY <1>8, <1>10, <1>13, <1>14 DEF FamilyInv

\* Revoking the presented row moves its family on to the successor.
LEMMA RevokeRotates ==
  ASSUME IInv, IInv', FamilyInv, SerialInv, LineageOK, ReplacementOK,
         NEW h \in Threads, Threads = {h}, RefreshRevoke(h)
  PROVE  FamilyInv' /\ \E f, t \in Tokens : Promise!Rotate(f, t)
  <1> DEFINE n == job[h].new
             p == job[h].token
             f == family[p]
  <1>1. /\ At(h, "issued") /\ revoked' = revoked \cup {p}
        /\ replacedBy' = [replacedBy EXCEPT ![p] = n]
        /\ UNCHANGED <<last, family, parent, delivered>>
        /\ job' = [job EXCEPT ![h] = [job[h] EXCEPT !.at = "respond"]]
    BY DEF RefreshRevoke, lineage
  <1>2. p \in Live /\ p \in delivered /\ n \in Live /\ parent[n] = p
    BY <1>1 DEF SerialInv, StillSo, FamilyInv, Onward, At, IInv, JobsOK, JobPlace
  <1>3. p \in Rows /\ n \in Rows /\ p # NoToken /\ p \in Tokens /\ n \in Tokens
    BY <1>2, RowsTyped DEF Live
  <1>4. n # p /\ family[n] = f /\ f \in Tokens
    BY <1>2, <1>3, RowsTyped DEF LineageOK, IInv, RowsOK, Tokens
  <1>5. replacedBy[p] = NoToken /\ n # NoToken
    BY <1>2, <1>3, RowsTyped DEF ReplacementOK, Live
  <1>6. Rows' = Rows /\ Live' = Live \ {p}
    BY <1>1 DEF Rows, Live
  <1>7. /\ replacedBy'[p] = n
        /\ \A t \in Rows : parent[t] # p /\ parent[t] # NoToken => replacedBy'[parent[t]] = replacedBy[parent[t]]
    BY <1>1, <1>3, RowsTyped
  <1>8. n \notin Used
    BY <1>2, <1>3, <1>5 DEF Used
  <1>9. Used' = Used \cup {n}
    <2>1. ASSUME NEW t \in Rows PROVE t \in Used' <=> t \in Used \/ t = n
      <3>1. CASE parent[t] = p
        <4>1. t \notin Used
          BY <1>3, <1>5, <2>1, <3>1, RowsTyped DEF Used
        <4>2. t \in Used' <=> t = n
          BY <1>1, <1>3, <1>6, <1>7, <2>1, <3>1 DEF Used
        <4> QED BY <4>1, <4>2
      <3>2. CASE parent[t] # p
        BY <1>1, <1>2, <1>6, <1>7, <2>1, <3>2 DEF Used
      <3> QED BY <3>1, <3>2
    <2> QED BY <1>3, <1>6, <2>1 DEF Used
  <1>10. p \in Current /\ Current' = (Current \ {p}) \cup {n}
    BY <1>2, <1>4, <1>6, <1>9 DEF Current, FamilyInv
  <1>11. \A t \in Current : t # p => family[t] # f
    BY <1>10 DEF FamilyInv, OneHolder
  <1>12. OneHolder'
    BY <1>1, <1>4, <1>10, <1>11 DEF FamilyInv, OneHolder
  <1>13. HolderOK /\ HolderOK'
    BY <1>12, HolderIs, HolderNext DEF FamilyInv
  <1>14. ASSUME NEW g \in Tokens PROVE Holder'[g] = IF g = f THEN n ELSE Holder[g]
    <2>1. CASE g = f
      BY <1>1, <1>4, <1>10, <1>13, <2>1 DEF HolderOK
    <2>2. CASE g # f /\ \E t \in Current : family[t] = g
      BY <1>1, <1>10, <1>13, <2>2 DEF HolderOK
    <2>3. CASE g # f /\ \A t \in Current : family[t] # g
      <3>1. \A t \in Current' : family'[t] # g
        BY <1>1, <1>4, <1>10, <2>3
      <3>2. Holder[g] = NoToken /\ Holder'[g] = NoToken
        BY <1>13, <2>3, <3>1 DEF HolderOK
      <3> QED BY <2>3, <3>2
    <2> QED BY <2>1, <2>2, <2>3
  <1>15. Holder' = [Holder EXCEPT ![f] = n]
    <2>1. Holder' = [g \in Tokens |-> Holder'[g]] /\ Holder = [g \in Tokens |-> Holder[g]]
      BY <1>13 DEF HolderOK, Tokens
    <2> QED BY <1>4, <1>14, <2>1
  <1>16. Holder[f] # 0
    BY <1>3, <1>4, <1>10, <1>13 DEF HolderOK, NoToken
  <1>17. Promise!Rotate(f, n)
    BY <1>3, <1>8, <1>9, <1>15, <1>16 DEF Promise!Rotate, Promise!Use, Promise!Tokens, Tokens
  <1>18. job'[h].at = "respond" /\ job'[h].new = n
    BY <1>1 DEF IInv, TypeOK, Jobs
  <1>19. delivered' \subseteq Used' /\ Onward(job[h])'
    BY <1>1, <1>9, <1>18 DEF FamilyInv, Onward
  <1> QED BY <1>3, <1>4, <1>12, <1>17, <1>19 DEF FamilyInv

LEMMA StepFamilies ==
  ASSUME OneThread, IInv, IInv', FamilyInv, SerialInv, LineageOK, ReplacementOK, [Next]_vars
  PROVE  FamilyInv' /\ [Promise!Next]_<<Holder, Used>>
  <1>0. PICK h : Threads = {h}
    BY DEF OneThread
  <1>1. /\ h \in Threads /\ job \in [Threads -> Jobs] /\ job[h] \in Jobs
        /\ JobPlace(job[h]) /\ StillSo(job[h]) /\ Onward(job[h]) /\ Named
        /\ delivered \subseteq Used /\ Tokens = Promise!Tokens
    BY <1>0 DEF IInv, TypeOK, JobsOK, SerialInv, FamilyInv, Promise!Tokens, Tokens
  <1> DEFINE Goal == FamilyInv' /\ [Promise!Next]_<<Holder, Used>>
  \* Steps that leave the rows alone, and steps that revoke some.
  <1>2. ASSUME UNCHANGED <<last, family, revoked, replacedBy, parent>>,
               delivered' \subseteq Used', Onward(job[h])'
        PROVE  Goal
    BY <1>0, <1>2, SameRows
  <1>3. ASSUME UNCHANGED <<last, family, revoked, replacedBy, parent, delivered>>, Onward(job[h])'
        PROVE  Goal
    <2>1. Rows' = Rows /\ Used' = Used
      BY <1>3 DEF Rows, Used
    <2> QED BY <1>1, <1>2, <1>3, <2>1
  <1>4. ASSUME UNCHANGED <<last, family, replacedBy, parent, delivered>>,
               revoked \subseteq revoked', job'[h].at = "idle"
        PROVE  Goal
    <2>1. FamilyInv' /\ \E S \in SUBSET Tokens : Promise!Close(S)
      BY <1>0, <1>4, RevokingCloses DEF Onward
    <2> QED BY <1>1, <2>1 DEF Promise!Next
  <1>5. ASSUME NEW u \in Users, Verify(h, u) \/ PasswordCheck(h, u) PROVE Goal
    <2>1. job'[h].at \in {"verified", "checked"}
      BY <1>1, <1>5 DEF Verify, PasswordCheck, Idle
    <2> QED BY <1>3, <1>5, <2>1 DEF Verify, PasswordCheck, Onward, table, lineage
  <1>6. ASSUME NEW t \in Rows, LoadRow(h, t) PROVE Goal
    <2>1. job'[h].at \in {"replay", "loaded"} /\ job'[h].token = t /\ t \in delivered
      BY <1>1, <1>6 DEF LoadRow, Idle
    <2> QED BY <1>3, <1>6, <2>1 DEF LoadRow, Onward, table, lineage
  <1>7. ASSUME NEW t \in Rows, LogoutLoad(h, t) PROVE Goal
    <2>1. job'[h].at = "logout"
      BY <1>1, <1>7 DEF LogoutLoad, Idle
    <2> QED BY <1>3, <1>7, <2>1 DEF LogoutLoad, Onward, table, lineage
  <1>8. ASSUME LoginIssue(h) PROVE Goal
    <2>1. FamilyInv' /\ \E t \in Tokens : Promise!Open(t)
      BY <1>0, <1>1, <1>8, LoginOpens
    <2> QED BY <1>1, <2>1 DEF Promise!Next
  <1>9. ASSUME RefreshIssue(h) PROVE Goal
    BY <1>0, <1>1, <1>9, IssueWaits
  <1>10. ASSUME RefreshRevoke(h) PROVE Goal
    <2>1. FamilyInv' /\ \E f, t \in Tokens : Promise!Rotate(f, t)
      BY <1>0, <1>1, <1>10, RevokeRotates
    <2> QED BY <1>1, <2>1 DEF Promise!Next
  <1>11. ASSUME LoadUser(h) PROVE Goal
    <2>1. /\ \/ job'[h].at = "ready" /\ job'[h].token = job[h].token
             \/ job'[h].at = "idle"
          /\ job[h].at = "loaded"
      BY <1>1, <1>11 DEF LoadUser, Idle, Jobs, At
    <2> QED BY <1>1, <1>3, <1>11, <2>1 DEF LoadUser, Onward, table, lineage
  <1>12. ASSUME ReplaySelect(h) \/ PasswordSelect(h) PROVE Goal
    <2>1. job'[h].at \in {"burning", "changing"}
      BY <1>1, <1>12 DEF ReplaySelect, PasswordSelect, Jobs
    <2> QED BY <1>3, <1>12, <2>1 DEF ReplaySelect, PasswordSelect, Onward, table, lineage
  <1>13. ASSUME ReplayRevoke(h) \/ LogoutRevoke(h) \/ PasswordCommit(h) PROVE Goal
    <2>1. job'[h].at = "idle"
      BY <1>1, <1>13 DEF ReplayRevoke, LogoutRevoke, PasswordCommit, Idle
    <2> QED BY <1>4, <1>13, <2>1 DEF ReplayRevoke, LogoutRevoke, PasswordCommit, lineage
  <1>14. ASSUME Respond(h) PROVE Goal
    <2>1. /\ job[h].at = "respond" /\ job'[h].at = "idle"
          /\ delivered' = delivered \cup {job[h].new}
          /\ UNCHANGED <<last, family, revoked, replacedBy, parent>>
      BY <1>1, <1>14 DEF Respond, At, Idle, table, lineage
    <2>2. Rows' = Rows /\ Used' = Used
      BY <2>1 DEF Rows, Used
    <2>3. delivered' \subseteq Used' /\ Onward(job[h])'
      BY <1>1, <2>1, <2>2 DEF Onward
    <2> QED BY <1>2, <2>1, <2>3
  <1>15. ASSUME Fail(h) \/ Crash PROVE Goal
    <2>1. job'[h].at = "idle"
      BY <1>1, <1>15 DEF Fail, Crash, Idle
    <2> QED BY <1>3, <1>15, <2>1 DEF Fail, Crash, Onward, table, lineage
  <1>16. ASSUME (\E u \in Users : Disable(u)) \/ (\E t \in Rows : Expire(t)) \/ UNCHANGED vars
         PROVE  Goal
    <2>1. UNCHANGED <<last, family, revoked, replacedBy, parent, delivered, job>>
      BY <1>16 DEF Disable, Expire, vars, table, lineage
    <2>2. Onward(job[h])'
      BY <1>1, <2>1 DEF Onward, Live, Used, Rows
    <2> QED BY <1>3, <2>1, <2>2
  <1> QED
    BY <1>0, <1>5, <1>6, <1>7, <1>8, <1>9, <1>10, <1>11, <1>12, <1>13, <1>14, <1>15, <1>16
    DEF Next, Request, Continue, Refresh

\* Handlers that do not overlap, failing and crashing anywhere, only ever open a
\* family, move its one token to a new one, or close it for good
\* (auth.py:39-57, :113-178).
THEOREM SerialFamilies ==
  ASSUME OneThread PROVE Spec => ImplementsFamilies
  <1>1. Init => Promise!Init /\ FamilyInv
    <2> SUFFICES ASSUME Init PROVE Promise!Init /\ FamilyInv
      OBVIOUS
    <2>1. Rows = {} /\ Used = {} /\ Current = {}
      BY DEF Init, Rows, Used, Current
    <2>2. Holder = [f \in Promise!Tokens |-> 0]
      BY <2>1 DEF Holder, Current, NoToken, Promise!Tokens, Tokens
    <2>3. Promise!Init
      BY <2>1, <2>2 DEF Promise!Init
    <2>4. FamilyInv
      BY <2>1 DEF Init, FamilyInv, OneHolder, Onward, Idle
    <2> QED BY <2>3, <2>4
  <1>2. /\ IInv /\ IInv' /\ FamilyInv /\ SerialInv /\ LineageOK /\ ReplacementOK /\ [Next]_vars
        => FamilyInv' /\ [Promise!Next]_<<Holder, Used>>
    BY StepFamilies
  <1> QED
    BY <1>1, <1>2, Invariance, SerialTheorem, LineageTheorem, ReplacementTheorem, PTL
    DEF Spec, ImplementsFamilies, Promise!Spec

=============================================================================
