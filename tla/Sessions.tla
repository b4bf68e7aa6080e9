------------------------------ MODULE Sessions ------------------------------
(***************************************************************************)
(* Refresh-token sessions: the sessions table of app/models.py and the     *)
(* handlers of app/routers/auth.py and app/routers/admin.py that change    *)
(* it.  Handlers run in the server's thread pool, each on a database       *)
(* session that reads the latest committed rows and writes, at each        *)
(* commit, the columns it has assigned.  Every commit and every read whose *)
(* result is used later is a step of its own here.                         *)
(*                                                                         *)
(* Refresh tokens are numbered in the order their rows are inserted.  A    *)
(* family is named by its first token (family_id is the head of that       *)
(* token's digest).  Lockout and second factors only decide whether a      *)
(* login gets as far as Verify; they change nothing modelled here.         *)
(***************************************************************************)
EXTENDS Integers, FiniteSets

CONSTANTS
  Threads,      \* the thread pool
  Users,        \* accounts
  MaxTokens,    \* bound on the rows ever inserted
  MaxChanges,   \* bound on password changes of one user
  MaxFaults,    \* bound on failed handlers and process crashes
  WriteLock,    \* TRUE: one writing transaction at a time (SQLite)
  None          \* no thread, no user

ASSUME ThreadsAssumption == IsFiniteSet(Threads)
ASSUME MaxTokensAssumption == MaxTokens \in Nat
ASSUME MaxChangesAssumption == MaxChanges \in Nat
ASSUME MaxFaultsAssumption == MaxFaults \in Nat
ASSUME WriteLockAssumption == WriteLock \in BOOLEAN
ASSUME NoneAssumption == None \notin Users /\ None \notin Threads

Tokens == 1..MaxTokens
NoToken == 0

VARIABLES
  last,        \* how many rows the sessions table has; they are 1..last
  owner,       \* user_id of each row
  family,      \* family_id of each row
  revoked,     \* the rows whose revoked_at is set
  replacedBy,  \* replaced_by of each row
  expired,     \* the rows whose expires_at has passed
  active,      \* the users whose is_active holds
  password,    \* which password each user has, counted from 0
  delivered,   \* the tokens a client has received
  job,         \* what each thread is about to do, and what it has loaded
  writer,      \* the thread whose open transaction holds SQLite's write lock
  parent,      \* history: the token each token was issued for
  secret,      \* history: the password behind the login each token stems from
  burned,      \* history: the families revoked because of a replay
  late,        \* history: how many rows each user got after being disabled
  faults       \* failures so far

table == <<last, owner, family, revoked, replacedBy>>
accounts == <<active, password>>
lineage == <<parent, secret, late>>
vars == <<table, expired, accounts, delivered, job, writer, lineage, burned, faults>>

Rows == 1..last
Live == Rows \ revoked
Family(t) == {m \in Rows : family[m] = family[t]}

\* A thread with nothing to do.  A handler's job holds the user and the row it
\* has loaded, the row it has inserted, the unrevoked rows it has selected and
\* (history) the password its login has verified.
Idle == [at |-> "idle", user |-> None, token |-> NoToken, new |-> NoToken,
         seen |-> {}, proof |-> 0]

Places == {"idle", "verified", "loaded", "ready", "issued", "respond", "replay",
           "burning", "logout", "checked", "changing"}

At(h, place) == job[h].at = place

\* A session may write when no other session's transaction holds the lock.
MayWrite(h) == writer \in {None, h}

Init ==
  /\ last = 0
  /\ owner = [t \in Tokens |-> None]
  /\ family = [t \in Tokens |-> NoToken]
  /\ revoked = {}
  /\ replacedBy = [t \in Tokens |-> NoToken]
  /\ expired = {}
  /\ active = Users
  /\ password = [u \in Users |-> 0]
  /\ delivered = {}
  /\ job = [h \in Threads |-> Idle]
  /\ writer = None
  /\ parent = [t \in Tokens |-> NoToken]
  /\ secret = [t \in Tokens |-> 0]
  /\ burned = {}
  /\ late = [u \in Users |-> 0]
  /\ faults = 0

-----------------------------------------------------------------------------
(* Issuing: _issue commits a new row, in the family of the token it is     *)
(* issued for, or in a family of its own.                                  *)

\* Mutant: rotation starts a new family.
IssueOwnFamily(h, place, p, s) ==
  LET n == last + 1 IN
  /\ n \in Tokens
  /\ MayWrite(h)
  /\ last' = n
  /\ owner' = [owner EXCEPT ![n] = job[h].user]
  /\ family' = [family EXCEPT ![n] = n]
  /\ parent' = [parent EXCEPT ![n] = p]
  /\ secret' = [secret EXCEPT ![n] = s]
  /\ late' = IF job[h].user \in active THEN late
             ELSE [late EXCEPT ![job[h].user] = @ + 1]
  /\ job' = [job EXCEPT ![h] = [@ EXCEPT !.at = place, !.new = n]]
  /\ UNCHANGED <<revoked, replacedBy, expired, accounts, delivered, writer, burned, faults>>

Issue(h, place, p, s) ==
  LET n == last + 1 IN
  /\ n \in Tokens
  /\ MayWrite(h)
  /\ last' = n
  /\ owner' = [owner EXCEPT ![n] = job[h].user]
  /\ family' = [family EXCEPT ![n] = IF p = NoToken THEN n ELSE family[p]]
  /\ parent' = [parent EXCEPT ![n] = p]
  /\ secret' = [secret EXCEPT ![n] = s]
  /\ late' = IF job[h].user \in active THEN late
             ELSE [late EXCEPT ![job[h].user] = @ + 1]
  /\ job' = [job EXCEPT ![h] = [@ EXCEPT !.at = place, !.new = n]]
  /\ UNCHANGED <<revoked, replacedBy, expired, accounts, delivered, writer, burned, faults>>

\* The pair reaches the client.
Respond(h) ==
  /\ At(h, "respond")
  /\ delivered' = delivered \cup {job[h].new}
  /\ job' = [job EXCEPT ![h] = Idle]
  /\ UNCHANGED <<table, expired, accounts, writer, lineage, burned, faults>>

-----------------------------------------------------------------------------
(* Login.                                                                  *)

\* The user is loaded; password, lock, is_active and second factor pass.
Verify(h, u) ==
  /\ At(h, "idle")
  /\ u \in active
  /\ job' = [job EXCEPT ![h] =
               [Idle EXCEPT !.at = "verified", !.user = u, !.proof = password[u]]]
  /\ UNCHANGED <<table, expired, accounts, delivered, writer, lineage, burned, faults>>

LoginIssue(h) ==
  /\ At(h, "verified")
  /\ Issue(h, "respond", NoToken, job[h].proof)

-----------------------------------------------------------------------------
(* Refresh.  The row is read once; what it said then decides the handler's *)
(* path.  An expired row, or an inactive user, ends it with a 401.         *)

\* Mutant: a revoked token is not noticed.
LoadRowUnchecked(h, t) ==
  /\ At(h, "idle")
  /\ t \in delivered
  /\ t \notin expired
  /\ job' = [job EXCEPT ![h] =
               [Idle EXCEPT !.at = "loaded",
                            !.token = t]]
  /\ UNCHANGED <<table, expired, accounts, delivered, writer, lineage, burned, faults>>

LoadRow(h, t) ==
  /\ At(h, "idle")
  /\ t \in delivered
  /\ t \in revoked \/ t \notin expired
  /\ job' = [job EXCEPT ![h] =
               [Idle EXCEPT !.at = IF t \in revoked THEN "replay" ELSE "loaded",
                            !.token = t]]
  /\ UNCHANGED <<table, expired, accounts, delivered, writer, lineage, burned, faults>>

\* Mutant: is_active is not checked.
LoadAnyUser(h) ==
  LET u == owner[job[h].token] IN
  /\ At(h, "loaded")
  /\ job' = [job EXCEPT ![h] =
               [@ EXCEPT !.at = "ready", !.user = u]]
  /\ UNCHANGED <<table, expired, accounts, delivered, writer, lineage, burned, faults>>

LoadUser(h) ==
  LET u == owner[job[h].token] IN
  /\ At(h, "loaded")
  /\ job' = [job EXCEPT ![h] =
               IF u \in active THEN [@ EXCEPT !.at = "ready", !.user = u] ELSE Idle]
  /\ UNCHANGED <<table, expired, accounts, delivered, writer, lineage, burned, faults>>

\* First commit: the successor's row.
RefreshIssue(h) ==
  /\ At(h, "ready")
  /\ Issue(h, "issued", job[h].token, secret[job[h].token])

\* Mutant: the successor is revoked instead.
RevokeSuccessor(h) ==
  /\ At(h, "issued")
  /\ MayWrite(h)
  /\ revoked' = revoked \cup {job[h].new}
  /\ replacedBy' = [replacedBy EXCEPT ![job[h].token] = job[h].new]
  /\ job' = [job EXCEPT ![h] = [@ EXCEPT !.at = "respond"]]
  /\ UNCHANGED <<last, owner, family, expired, accounts, delivered, writer, lineage,
                 burned, faults>>
\* Second commit: the presented row is revoked.
RefreshRevoke(h) ==
  /\ At(h, "issued")
  /\ MayWrite(h)
  /\ revoked' = revoked \cup {job[h].token}
  /\ replacedBy' = [replacedBy EXCEPT ![job[h].token] = job[h].new]
  /\ job' = [job EXCEPT ![h] = [@ EXCEPT !.at = "respond"]]
  /\ UNCHANGED <<last, owner, family, expired, accounts, delivered, writer, lineage,
                 burned, faults>>

\* Mutant: only the replayed row is selected.
ReplaySelectOne(h) ==
  /\ At(h, "replay")
  /\ job' = [job EXCEPT ![h] =
               [@ EXCEPT !.at = "burning", !.seen = {job[h].token}]]
  /\ UNCHANGED <<table, expired, accounts, delivered, writer, lineage, burned, faults>>

\* A revoked token was presented: the family's rows are selected ...
ReplaySelect(h) ==
  /\ At(h, "replay")
  /\ job' = [job EXCEPT ![h] =
               [@ EXCEPT !.at = "burning", !.seen = Family(job[h].token) \ revoked]]
  /\ UNCHANGED <<table, expired, accounts, delivered, writer, lineage, burned, faults>>

\* ... and those not yet revoked are revoked.
ReplayRevoke(h) ==
  /\ At(h, "burning")
  /\ MayWrite(h)
  /\ revoked' = revoked \cup job[h].seen
  /\ burned' = burned \cup {family[job[h].token]}
  /\ job' = [job EXCEPT ![h] = Idle]
  /\ UNCHANGED <<last, owner, family, replacedBy, expired, accounts, delivered, writer,
                 lineage, faults>>

-----------------------------------------------------------------------------
(* Logout, password change, disabling an account.                          *)

LogoutLoad(h, t) ==
  /\ At(h, "idle")
  /\ t \in delivered \ revoked
  /\ job' = [job EXCEPT ![h] = [Idle EXCEPT !.at = "logout", !.token = t]]
  /\ UNCHANGED <<table, expired, accounts, delivered, writer, lineage, burned, faults>>

LogoutRevoke(h) ==
  /\ At(h, "logout")
  /\ MayWrite(h)
  /\ revoked' = revoked \cup {job[h].token}
  /\ job' = [job EXCEPT ![h] = Idle]
  /\ UNCHANGED <<last, owner, family, replacedBy, expired, accounts, delivered, writer,
                 lineage, burned, faults>>

\* current_user has loaded an active user who has logged in before (the access
\* token's own expiry is left out); the current password matches.
PasswordCheck(h, u) ==
  /\ At(h, "idle")
  /\ u \in active
  /\ \E t \in delivered : owner[t] = u
  /\ password[u] < MaxChanges
  /\ job' = [job EXCEPT ![h] = [Idle EXCEPT !.at = "checked", !.user = u]]
  /\ UNCHANGED <<table, expired, accounts, delivered, writer, lineage, burned, faults>>

\* Selecting the user's rows flushes the new password first, which on SQLite
\* takes the write lock until the commit.
PasswordSelect(h) ==
  /\ At(h, "checked")
  /\ MayWrite(h)
  /\ writer' = IF WriteLock THEN h ELSE writer
  /\ job' = [job EXCEPT ![h] =
               [@ EXCEPT !.at = "changing",
                         !.seen = {t \in Live : owner[t] = job[h].user}]]
  /\ UNCHANGED <<table, expired, accounts, delivered, lineage, burned, faults>>

\* Mutant: the sessions survive.
PasswordOnly(h) ==
  /\ At(h, "changing")
  /\ MayWrite(h)
  /\ password' = [password EXCEPT ![job[h].user] = @ + 1]
  /\ writer' = None
  /\ job' = [job EXCEPT ![h] = Idle]
  /\ UNCHANGED <<table, expired, active, delivered, lineage,
                 burned, faults>>

PasswordCommit(h) ==
  /\ At(h, "changing")
  /\ MayWrite(h)
  /\ password' = [password EXCEPT ![job[h].user] = @ + 1]
  /\ revoked' = revoked \cup job[h].seen
  /\ writer' = None
  /\ job' = [job EXCEPT ![h] = Idle]
  /\ UNCHANGED <<last, owner, family, replacedBy, expired, active, delivered, lineage,
                 burned, faults>>

\* An administrator disables the account; nothing enables one again.
Disable(u) ==
  /\ writer = None
  /\ u \in active
  /\ active' = active \ {u}
  /\ UNCHANGED <<table, expired, password, delivered, job, writer, lineage, burned, faults>>

-----------------------------------------------------------------------------
(* The environment.                                                        *)

\* A week after it was issued; rows expire in the order they were issued.
Expire(t) ==
  /\ t \in Rows \ expired
  /\ 1..(t - 1) \subseteq expired
  /\ expired' = expired \cup {t}
  /\ UNCHANGED <<table, accounts, delivered, job, writer, lineage, burned, faults>>

\* A handler's transaction fails and rolls back, or its response is lost.
Fail(h) ==
  /\ ~At(h, "idle")
  /\ faults < MaxFaults
  /\ faults' = faults + 1
  /\ job' = [job EXCEPT ![h] = Idle]
  /\ writer' = IF writer = h THEN None ELSE writer
  /\ UNCHANGED <<table, expired, accounts, delivered, lineage, burned>>

\* The process dies with every handler in it.
Crash ==
  /\ \E h \in Threads : ~At(h, "idle")
  /\ faults < MaxFaults
  /\ faults' = faults + 1
  /\ job' = [h \in Threads |-> Idle]
  /\ writer' = None
  /\ UNCHANGED <<table, expired, accounts, delivered, lineage, burned>>

Request(h) ==
  \/ \E u \in Users : Verify(h, u) \/ PasswordCheck(h, u)
  \/ \E t \in Rows : LoadRow(h, t) \/ LogoutLoad(h, t)

Refresh(h) ==
  \/ LoadUser(h) \/ RefreshIssue(h) \/ RefreshRevoke(h) \/ ReplaySelect(h) \/ ReplayRevoke(h)

Continue(h) ==
  \/ LoginIssue(h) \/ Refresh(h) \/ Respond(h) \/ LogoutRevoke(h)
  \/ PasswordSelect(h) \/ PasswordCommit(h)

Next ==
  \/ \E h \in Threads : Request(h) \/ Continue(h) \/ Fail(h)
  \/ \E u \in Users : Disable(u)
  \/ \E t \in Rows : Expire(t)
  \/ Crash

Spec == Init /\ [][Next]_vars

-----------------------------------------------------------------------------
(* Properties.                                                             *)

Jobs ==
  [at : Places, user : Users \cup {None}, token : Rows \cup {NoToken},
   new : Rows \cup {NoToken}, seen : SUBSET Rows, proof : Nat]

\* Types.  Handlers hold rows of the table only, and clients and revocations
\* refer to rows that exist.
TypeOK ==
  /\ last \in 0..MaxTokens
  /\ owner \in [Tokens -> Users \cup {None}]
  /\ family \in [Tokens -> Tokens \cup {NoToken}]
  /\ revoked \in SUBSET Rows
  /\ replacedBy \in [Tokens -> Tokens \cup {NoToken}]
  /\ expired \in SUBSET Rows
  /\ active \in SUBSET Users
  /\ password \in [Users -> Nat]
  /\ delivered \in SUBSET Rows
  /\ job \in [Threads -> Jobs]
  /\ writer \in Threads \cup {None}
  /\ parent \in [Tokens -> Tokens \cup {NoToken}]
  /\ secret \in [Tokens -> Nat]
  /\ burned \in SUBSET Tokens
  /\ late \in [Users -> Nat]
  /\ faults \in 0..MaxFaults

\* Rotation stays inside one session: a token belongs to the user and to the
\* family of the token it was issued for, and a family starts with its own
\* name (auth.py:42-45, :165-166).
LineageOK ==
  \A t \in Rows :
    /\ owner[t] \in Users
    /\ IF parent[t] = NoToken
       THEN family[t] = t
       ELSE /\ parent[t] < t
            /\ owner[t] = owner[parent[t]]
            /\ family[t] = family[parent[t]]

\* A client that has received a new token cannot still be using the one it
\* replaces: whatever crashes or races, a delivered token's predecessor is
\* revoked (the order of the two commits and the response, auth.py:165-172).
HandoverRevokes ==
  \A t \in delivered : parent[t] # NoToken => parent[t] \in revoked

\* replaced_by points from a revoked row to a row that was issued for it.
ReplacementOK ==
  \A t \in Rows :
    replacedBy[t] # NoToken => /\ replacedBy[t] \in Rows
                               /\ parent[replacedBy[t]] = t
                               /\ t \in revoked

\* The rows of the table tell how tokens followed one another.
SuccessionOK == LineageOK /\ ReplacementOK

\* Disabling an account lets through what had already been admitted and no more:
\* afterwards each thread inserts at most one more row for that user
\* (login, auth.py:100-101; refresh, :161-163; nothing re-enables an account).
DisabledStaysOut == \A u \in Users : late[u] <= Cardinality(Threads)

-----------------------------------------------------------------------------
(* What a session promises.  These hold when handlers do not overlap; the  *)
(* documentation states them of the program.                               *)

\* "opaque, single-use and rotated" (app/security/tokens.py:5): of the tokens
\* issued for one token, at most one reaches a client.
SingleUse ==
  \A t, s \in delivered : parent[t] = parent[s] /\ parent[t] # NoToken => t = s

\* "A replayed token revokes the entire family" (SECURITY.md:139).
BurnedFamilyIsDead == \A t \in Live : family[t] \notin burned

\* "Changing a password logs every other session out" (auth.py:207): a live
\* token stems from a login with the password its user has now.
LivesUnderCurrentPassword == \A t \in Live : secret[t] = password[owner[t]]

\* A rotation takes effect when the presented token is revoked: from then on the
\* successor is in use.  A successor whose handler died before that never is.
Used == {t \in Rows : parent[t] = NoToken \/ replacedBy[parent[t]] = t}

Holder ==
  [f \in Tokens |->
     IF \E t \in Live \cap Used : family[t] = f
     THEN CHOOSE t \in Live \cap Used : /\ family[t] = f
                                       /\ \A s \in Live \cap Used : family[s] = f => s <= t
     ELSE NoToken]

Promise == INSTANCE TokenFamilies WITH holder <- Holder, used <- Used

\* A family is one token that moves: handlers that do not overlap, failing and
\* crashing anywhere, only ever open a family, move its token to a new one, or
\* close it for good.
ImplementsFamilies == Promise!Spec
=============================================================================
