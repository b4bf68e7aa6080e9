--------------------------- MODULE AccessControl ---------------------------
(***************************************************************************)
(* Who may do what: the roles (app/security/rbac.py), the check every      *)
(* request passes (app/deps.py), the handlers that change accounts         *)
(* (app/routers/admin.py) and the first administrator (app/main.py).       *)
(*                                                                         *)
(* An account is the row of its e-mail address, which the unique index on  *)
(* email_index keeps the only one.  A request is checked, loads its        *)
(* target, and commits, in steps that others' requests come between; a     *)
(* commit writes the column it assigned only if that differs from what was *)
(* loaded.  Access tokens do not expire here.                              *)
(***************************************************************************)
EXTENDS Integers, FiniteSets

CONSTANTS
  Addresses,   \* e-mail addresses
  Bootstrap,   \* bootstrap_email
  NewRoles,    \* the roles requests ask for, known ones and others
  Handlers,    \* the threads that handle requests
  Processes,   \* the server processes that start on one database
  MaxCrashes,  \* bound on crashes at start-up
  Nobody       \* no address

ASSUME AccessAssumption == Bootstrap \in Addresses /\ Nobody \notin Addresses
ASSUME CrashAssumption == MaxCrashes \in Nat
ASSUME HandlersAssumption == IsFiniteSet(Handlers) /\ Handlers # {}

Reading == {"ioc:read", "event:read", "alert:read", "rule:read"}
Working == {"ioc:write", "event:ingest", "alert:triage"}
Managing == {"ioc:delete", "rule:write", "user:manage", "audit:read", "key:rotate"}

Grants == [viewer |-> Reading, analyst |-> Reading \cup Working,
           admin |-> Reading \cup Working \cup Managing]

VARIABLES
  accounts,  \* the users table: [exists, role, active] of each address
  tokens,    \* the access tokens in use: [subject, role]
  work,      \* what each thread is doing
  starting,  \* how far each process has come
  rules,     \* the built-in rules are in the database
  crashes,   \* crashes at start-up so far
  shown,     \* history: how often the first administrator's password was printed
  crossed,   \* history: requests of two administrators have overlapped
  late       \* history: the requests each account got through without the right
             \* they need, since it last had that right

vars == <<accounts, tokens, work, starting, rules, crashes, shown, crossed, late>>

Idle == [at |-> "idle", op |-> "none", actor |-> Nobody, target |-> Nobody, role |-> "viewer",
         loaded |-> "viewer"]

Ops == {"set_role", "disable_user", "create_user", "write"}
Needs == [op \in Ops |-> IF op = "write" THEN "ioc:write" ELSE "user:manage"]
Rights == {Needs[op] : op \in Ops}

TypeOK ==
  /\ accounts \in [Addresses -> [exists : BOOLEAN, role : DOMAIN Grants, active : BOOLEAN]]
  /\ tokens \subseteq [subject : Addresses, role : DOMAIN Grants]
  /\ work \in [Handlers -> [at : {"idle", "checked", "loaded"}, op : Ops \cup {"none"},
                            actor : Addresses \cup {Nobody}, target : Addresses \cup {Nobody},
                            role : DOMAIN Grants \cup NewRoles, loaded : DOMAIN Grants]]
  /\ starting \in [Processes -> {"down", "seeding", "seeded", "empty", "created", "ready"}]
  /\ rules \in BOOLEAN
  /\ crashes \in 0..MaxCrashes /\ shown \in Nat /\ crossed \in BOOLEAN
  /\ late \in [Addresses -> [Rights -> Nat]]

Init ==
  /\ accounts = [a \in Addresses |-> [exists |-> FALSE, role |-> "viewer", active |-> TRUE]]
  /\ tokens = {}
  /\ work = [h \in Handlers |-> Idle]
  /\ starting = [p \in Processes |-> "down"] /\ rules = FALSE
  /\ crashes = 0 /\ shown = 0 /\ crossed = FALSE
  /\ late = [a \in Addresses |-> [right \in Rights |-> 0]]

Serving == \E p \in Processes : starting[p] = "ready"

-----------------------------------------------------------------------------
(* The check.                                                              *)

KnownRole(role) == role \in {"viewer", "analyst", "admin"}

Can(role, permission) == permission \in Grants[role]

\* Mutant of CurrentUser: the role is the token's, not the account's.
CurrentUserByToken(token) == accounts[token.subject].exists /\ accounts[token.subject].active

\* current_user: the token's account is there, active, and of the token's role.
\* A lockout or a missing second factor (Login.tla) refuses too: such a request
\* is one that Check does not take up.
CurrentUser(token) ==
  LET user == accounts[token.subject] IN
  user.exists /\ user.active /\ token.role = user.role

\* A login or refresh: the token carries the role of the moment.
SignIn(a) ==
  /\ Serving
  /\ accounts[a].exists /\ accounts[a].active
  /\ tokens' = tokens \cup {[subject |-> a, role |-> accounts[a].role]}
  /\ UNCHANGED <<accounts, work, starting, crashes, shown, crossed, late, rules>>

Authorised(a, permission) ==
  accounts[a].exists /\ accounts[a].active /\ Can(accounts[a].role, permission)

\* requires(permission), and the handler's refusals that need no second look
\* at the database: nobody takes the admin role from or disables themselves.
Check(h, token, op, target, role) ==
  /\ Serving /\ work[h].at = "idle"
  /\ CurrentUser(token) /\ Can(token.role, Needs[op])
  /\ op = "set_role" /\ target = token.subject => role = "admin"
  /\ op = "disable_user" => target # token.subject
  /\ op = "create_user" => ~accounts[target].exists
  /\ op # "create_user" => accounts[target].exists
  /\ op \in {"set_role", "create_user"} => KnownRole(role)
  /\ op \notin {"set_role", "create_user"} => role = "viewer"
  /\ op = "write" => target = token.subject
  /\ work' = [work EXCEPT ![h] = [Idle EXCEPT !.at = "checked", !.op = op, !.actor = token.subject,
                                              !.target = target, !.role = role,
                                              !.loaded = token.role]]
  /\ crossed' = (crossed \/ \E g \in Handlers : work[g].actor \notin {Nobody, token.subject})
  /\ UNCHANGED <<accounts, tokens, starting, crashes, shown, late, rules>>

\* session.get: the actor's own row is still the one the check loaded.
Load(h) ==
  /\ work[h].at = "checked"
  /\ work' = [work EXCEPT
                ![h].at = "loaded",
                ![h].loaded = IF work[h].target = work[h].actor THEN @
                              ELSE accounts[work[h].target].role]
  /\ UNCHANGED <<accounts, tokens, starting, crashes, shown, crossed, late, rules>>

-----------------------------------------------------------------------------
(* The commits.                                                            *)

\* Mutant of Changed: a demotion reaches its actor as well.
ChangedAll(w) ==
  CASE w.op = "set_role" -> [a \in Addresses |->
                               IF a = w.target \/ (a = w.actor /\ w.role # "admin")
                               THEN [accounts[a] EXCEPT !.role = w.role] ELSE accounts[a]]
    [] w.op = "disable_user" -> [accounts EXCEPT ![w.target].active = FALSE]
    [] w.op = "create_user" /\ ~accounts[w.target].exists ->
         [accounts EXCEPT ![w.target] = [exists |-> TRUE, role |-> w.role, active |-> TRUE]]
    [] OTHER -> accounts

\* The rows after w's commit.  A role that was loaded as it is asked for is
\* not written; an address that got an account meanwhile fails the insert.
Changed(w) ==
  CASE w.op = "set_role" /\ w.role # w.loaded -> [accounts EXCEPT ![w.target].role = w.role]
    [] w.op = "disable_user" -> [accounts EXCEPT ![w.target].active = FALSE]
    [] w.op = "create_user" /\ ~accounts[w.target].exists ->
         [accounts EXCEPT ![w.target] = [exists |-> TRUE, role |-> w.role, active |-> TRUE]]
    [] OTHER -> accounts

Commit(h) ==
  LET w == work[h] IN
  /\ w.at = "loaded"
  /\ accounts' = Changed(w)
  /\ late' = [a \in Addresses |-> [right \in Rights |->
                IF Authorised(a, right)' THEN 0
                ELSE IF a = w.actor /\ right = Needs[w.op] /\ ~Authorised(a, right)
                     THEN late[a][right] + 1 ELSE late[a][right]]]
  /\ work' = [work EXCEPT ![h] = Idle]
  /\ UNCHANGED <<tokens, starting, crashes, shown, crossed, rules>>

\* A refusal, an error or a crash before the commit.
Abandon(h) ==
  /\ work[h].at # "idle"
  /\ work' = [work EXCEPT ![h] = Idle]
  /\ UNCHANGED <<accounts, tokens, starting, crashes, shown, crossed, late, rules>>

-----------------------------------------------------------------------------
(* bootstrap: the built-in rules, then an administrator with a generated   *)
(* password.                                                               *)

\* seed_builtin_rules looks for each rule and adds what is missing, in one
\* transaction; nobody deletes a built-in rule here.
LookForRules(p) ==
  /\ starting[p] = "down"
  /\ starting' = [starting EXCEPT ![p] = IF rules THEN "seeded" ELSE "seeding"]
  /\ UNCHANGED <<accounts, tokens, work, crashes, shown, crossed, late, rules>>

\* The unique names stop a process whose rules another one has added.
SeedRules(p) ==
  /\ starting[p] = "seeding"
  /\ starting' = [starting EXCEPT ![p] = IF rules THEN "down" ELSE "seeded"]
  /\ rules' = TRUE
  /\ UNCHANGED <<accounts, tokens, work, crashes, shown, crossed, late>>

NoAccount == \A a \in Addresses : ~accounts[a].exists

\* Mutant of FindEmpty: a start that lost the race once is not tried again.
FindEmptyOnce(p) ==
  /\ starting[p] = "seeded" /\ ~accounts[Bootstrap].exists
  /\ starting' = [starting EXCEPT ![p] = "empty"]
  /\ UNCHANGED <<accounts, tokens, work, crashes, shown, crossed, late, rules>>

FindEmpty(p) ==
  /\ starting[p] = "seeded"
  /\ starting' = [starting EXCEPT ![p] = IF NoAccount THEN "empty" ELSE "ready"]
  /\ UNCHANGED <<accounts, tokens, work, crashes, shown, crossed, late, rules>>

\* Mutant of CreateAdmin: a second process replaces the first one's account.
CreateAdminOver(p) ==
  /\ starting[p] = "empty"
  /\ starting' = [starting EXCEPT ![p] = "created"]
  /\ accounts' = [accounts EXCEPT ![Bootstrap] = [exists |-> TRUE, role |-> "admin", active |-> TRUE]]
  /\ UNCHANGED <<tokens, work, crashes, shown, crossed, late, rules>>

\* The unique index stops a process whose account another one has created.
CreateAdmin(p) ==
  /\ starting[p] = "empty"
  /\ IF accounts[Bootstrap].exists
     THEN starting' = [starting EXCEPT ![p] = "down"] /\ UNCHANGED accounts
     ELSE /\ starting' = [starting EXCEPT ![p] = "created"]
          /\ accounts' = [accounts EXCEPT ![Bootstrap] =
                            [exists |-> TRUE, role |-> "admin", active |-> TRUE]]
  /\ UNCHANGED <<tokens, work, crashes, shown, crossed, late, rules>>

ShowPassword(p) ==
  /\ starting[p] = "created"
  /\ starting' = [starting EXCEPT ![p] = "ready"]
  /\ shown' = shown + 1
  /\ UNCHANGED <<accounts, tokens, work, crashes, crossed, late, rules>>

\* The process dies, or its audit entry fails, before it serves.
Crash(p) ==
  /\ starting[p] \in {"seeding", "seeded", "empty", "created"} /\ crashes < MaxCrashes
  /\ starting' = [starting EXCEPT ![p] = "down"]
  /\ crashes' = crashes + 1
  /\ UNCHANGED <<accounts, tokens, work, shown, crossed, late, rules>>

GoOn(p) ==
  LookForRules(p) \/ SeedRules(p) \/ FindEmpty(p) \/ CreateAdmin(p) \/ ShowPassword(p)

StartUp(p) == GoOn(p) \/ Crash(p)

Next ==
  \/ \E p \in Processes : StartUp(p)
  \/ \E a \in Addresses : SignIn(a)
  \/ \E h \in Handlers :
       \/ \E token \in tokens, op \in Ops, target \in Addresses, role \in NewRoles \cup {"viewer"} :
            Check(h, token, op, target, role)
       \/ Load(h) \/ Commit(h) \/ Abandon(h)

\* A process that starts goes on unless it crashes.
Fairness == \A p \in Processes : WF_vars(GoOn(p))

Spec == Init /\ [][Next]_vars /\ Fairness

-----------------------------------------------------------------------------
\* The installation is never without an active administrator, unless
\* requests of two administrators have overlapped: the refusals look at the
\* actor only, and an actor who is demoted between the check and the commit
\* may demote the last one.
AdminRemains ==
  (\E a \in Addresses : accounts[a].exists) /\ ~crossed =>
    \E a \in Addresses : Authorised(a, "user:manage")

\* "A role change must invalidate tokens minted under the old role"
\* (app/deps.py:61): once a right is lost, only the requests that had already
\* been checked get through, at most one for each thread but the one that took
\* the right away.
LateChangesAreFew ==
  \A a \in Addresses, right \in Rights : late[a][right] < Cardinality(Handlers)

\* "this is printed once" (app/main.py:66): however many processes start on
\* an empty database, one password is made and printed, unless a crash lost
\* it; nobody knows it then.
PasswordIsPrintedOnce ==
  /\ shown <= 1
  /\ accounts[Bootstrap].exists /\ (\A p \in Processes : starting[p] # "created") =>
       shown = 1 \/ crashes > 0 \/ \E a \in Addresses \ {Bootstrap} : accounts[a].exists

\* Every process serves in the end, also one that lost the race to seed the
\* rules or to create the administrator: it is started again.
ProcessesServe == \A p \in Processes : <>(starting[p] = "ready")
=============================================================================
