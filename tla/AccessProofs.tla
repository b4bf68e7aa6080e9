---------------------------- MODULE AccessProofs ----------------------------
(***************************************************************************)
(* Proofs about AccessControl, for any number of addresses, handlers,      *)
(* processes and crashes.                                                  *)
(***************************************************************************)
EXTENDS AccessControl, FiniteSetTheorems, TLAPS

Roles == {"viewer", "analyst", "admin"}
Account == [exists : BOOLEAN, role : Roles, active : BOOLEAN]
Works == [at : {"idle", "checked", "loaded"}, op : Ops \cup {"none"},
          actor : Addresses \cup {Nobody}, target : Addresses \cup {Nobody},
          role : Roles \cup NewRoles, loaded : Roles]

USE AccessAssumption, CrashAssumption

LEMMA RolesAre == DOMAIN Grants = Roles
  BY DEF Grants, Roles

\* Only administrators manage users.
LEMMA ManagersAre ==
  ASSUME NEW role \in Roles
  PROVE  Can(role, "user:manage") <=> role = "admin"
  BY DEF Can, Grants, Roles, Reading, Working, Managing

LEMMA IdleTyped == Idle \in Works /\ Idle.at = "idle" /\ Idle.actor = Nobody
  BY DEF Idle, Works, Roles

\* A request under way: what Check has made sure of, and nobody takes back.
RequestOK(h) ==
  LET w == work[h] IN
  /\ w.at = "idle" => w.actor = Nobody
  /\ w.at # "idle" =>
       /\ w.actor \in Addresses /\ w.target \in Addresses /\ w.op \in Ops
       /\ accounts[w.actor].exists
       /\ w.op \in {"set_role", "create_user"} => w.role \in Roles
       /\ w.op = "set_role" /\ w.target = w.actor => w.role = "admin"
       /\ w.op \in {"disable_user", "create_user"} => w.target # w.actor
       /\ ~crossed /\ w.op # "write" => Authorised(w.actor, "user:manage")

\* Until requests cross, they are all of one account.
OneActor ==
  ~crossed => \A g, h \in Handlers :
                work[g].at # "idle" /\ work[h].at # "idle" => work[g].actor = work[h].actor

\* At most one process has created the administrator and not shown the password.
CreatorOK ==
  /\ \A p, q \in Processes : starting[p] = "created" /\ starting[q] = "created" => p = q
  /\ \A p \in Processes : starting[p] = "created" => accounts[Bootstrap].exists /\ shown = 0
  /\ shown = 1 => accounts[Bootstrap].exists

IInv ==
  /\ TypeOK
  /\ \A h \in Handlers : RequestOK(h)
  /\ OneActor /\ CreatorOK
  /\ AdminRemains /\ PasswordIsPrintedOnce

\* The types, with the sets given names.
Types ==
  /\ accounts \in [Addresses -> Account]
  /\ tokens \subseteq [subject : Addresses, role : Roles]
  /\ work \in [Handlers -> Works]
  /\ starting \in [Processes -> {"down", "seeding", "seeded", "empty", "created", "ready"}] /\ rules \in BOOLEAN
  /\ crashes \in 0..MaxCrashes /\ shown \in Nat /\ crossed \in BOOLEAN
  /\ late \in [Addresses -> [Rights -> Nat]]

LEMMA TypesAre == TypeOK <=> Types
  BY RolesAre DEF TypeOK, Types, Account, Works

LEMMA TypesThen == Types' => TypeOK'
  BY RolesAre DEF TypeOK, Types, Account, Works

LEMMA InitInv == Init => IInv
  <1> SUFFICES ASSUME Init PROVE IInv
    OBVIOUS
  <1>1. [exists |-> FALSE, role |-> "viewer", active |-> TRUE] \in Account
    BY DEF Account, Roles
  <1>2. Types
    <2>1. accounts \in [Addresses -> Account] /\ work \in [Handlers -> Works]
      BY <1>1, IdleTyped DEF Init
    <2>2. /\ starting \in [Processes -> {"down", "seeding", "seeded", "empty", "created", "ready"}]
          /\ late \in [Addresses -> [Rights -> Nat]]
      BY DEF Init
    <2>3. tokens = {} /\ crashes \in 0..MaxCrashes /\ shown \in Nat
      BY DEF Init
    <2>4. crossed \in BOOLEAN /\ rules \in BOOLEAN
      BY DEF Init
    <2> QED BY <2>1, <2>2, <2>3, <2>4 DEF Types
  <1>3. \A h \in Handlers : work[h] = Idle
    BY DEF Init
  <1>4. (\A h \in Handlers : RequestOK(h)) /\ OneActor
    BY <1>3, IdleTyped DEF RequestOK, OneActor
  <1>5. \A a \in Addresses : ~accounts[a].exists
    BY DEF Init
  <1>6. CreatorOK /\ AdminRemains /\ PasswordIsPrintedOnce
    BY <1>5 DEF Init, CreatorOK, AdminRemains, PasswordIsPrintedOnce
  <1> QED BY <1>2, <1>4, <1>6, TypesAre DEF IInv

-----------------------------------------------------------------------------
\* A step of the start-up that creates no account.
LEMMA StartingStep ==
  ASSUME IInv, UNCHANGED <<accounts, tokens, work, crossed, late>>, Types',
         \A p \in Processes : starting'[p] = "created" => starting[p] = "created"
  PROVE  /\ \A h \in Handlers : RequestOK(h)'
         /\ OneActor' /\ AdminRemains'
         /\ \A p, q \in Processes : starting'[p] = "created" /\ starting'[q] = "created" => p = q
  BY DEF IInv, RequestOK, OneActor, AdminRemains, Authorised, CreatorOK

LEMMA StartUpInv ==
  ASSUME IInv, NEW p \in Processes, StartUp(p)
  PROVE  IInv'
  <1>0. Types /\ CreatorOK /\ PasswordIsPrintedOnce /\ AdminRemains
    BY TypesAre DEF IInv
  <1>1. CASE LookForRules(p) \/ SeedRules(p) \/ FindEmpty(p)
    <2>1. /\ starting[p] # "created"
          /\ \E s \in {"down", "seeding", "seeded", "empty", "ready"} : starting' = [starting EXCEPT ![p] = s]
          /\ rules' \in BOOLEAN /\ UNCHANGED <<accounts, tokens, work, crashes, shown, crossed, late>>
      BY <1>0, <1>1 DEF LookForRules, SeedRules, FindEmpty, Types
    <2>2. Types' /\ \A q \in Processes : starting'[q] = "created" <=> starting[q] = "created"
      BY <1>0, <2>1 DEF Types
    <2>3. CreatorOK' /\ PasswordIsPrintedOnce'
      BY <1>0, <2>1, <2>2 DEF CreatorOK, PasswordIsPrintedOnce
    <2> QED BY <2>1, <2>2, <2>3, StartingStep, TypesThen DEF IInv
  <1>2. CASE CreateAdmin(p) /\ accounts[Bootstrap].exists
    <2>1. /\ Types' /\ starting[p] = "empty" /\ starting' = [starting EXCEPT ![p] = "down"]
          /\ UNCHANGED <<accounts, tokens, work, crashes, shown, crossed, late, rules>>
      BY <1>0, <1>2 DEF CreateAdmin, Types
    <2>2. \A q \in Processes : starting'[q] = "created" <=> starting[q] = "created"
      BY <1>0, <2>1 DEF Types
    <2>4. CreatorOK' /\ PasswordIsPrintedOnce'
      BY <1>0, <2>1, <2>2 DEF CreatorOK, PasswordIsPrintedOnce
    <2> QED BY <2>1, <2>2, <2>4, StartingStep, TypesThen DEF IInv
  <1>3. CASE CreateAdmin(p) /\ ~accounts[Bootstrap].exists
    <2> DEFINE new == [exists |-> TRUE, role |-> "admin", active |-> TRUE]
    <2>1. /\ starting' = [starting EXCEPT ![p] = "created"]
          /\ accounts' = [accounts EXCEPT ![Bootstrap] = new]
          /\ UNCHANGED <<tokens, work, crashes, shown, crossed, late, rules>>
      BY <1>3 DEF CreateAdmin
    <2>2. new \in Account
      BY DEF Account, Roles
    <2>3. Types'
      BY <1>0, <2>1, <2>2 DEF Types
    <2>4. /\ accounts'[Bootstrap].exists /\ accounts'[Bootstrap].active
          /\ accounts'[Bootstrap].role = "admin"
          /\ \A a \in Addresses : a # Bootstrap => accounts'[a] = accounts[a]
      BY <1>0, <2>1 DEF Types
    <2>5. \A h \in Handlers : RequestOK(h)'
      BY <1>3, <2>1, <2>4 DEF IInv, RequestOK, Authorised
    <2>6. \A q \in Processes : starting[q] # "created"
      BY <1>0, <1>3 DEF CreatorOK
    <2>7. starting'[p] = "created" /\ \A q \in Processes : q # p => starting'[q] = starting[q]
      BY <1>0, <2>1 DEF Types
    <2>8. shown = 0
      BY <1>0, <1>3 DEF CreatorOK, PasswordIsPrintedOnce, Types
    <2>9. CreatorOK' /\ PasswordIsPrintedOnce'
      BY <2>1, <2>4, <2>6, <2>7, <2>8 DEF CreatorOK, PasswordIsPrintedOnce
    <2>10. OneActor'
      BY <2>1 DEF IInv, OneActor
    <2>11. AdminRemains'
      BY <2>4, ManagersAre DEF AdminRemains, Authorised, Roles
    <2> QED BY <2>3, <2>5, <2>9, <2>10, <2>11, TypesThen DEF IInv
  <1>4. CASE ShowPassword(p)
    <2>1. /\ starting[p] = "created" /\ starting' = [starting EXCEPT ![p] = "ready"]
          /\ shown = 0 /\ shown' = 1 /\ accounts[Bootstrap].exists
          /\ UNCHANGED <<accounts, tokens, work, crashes, crossed, late, rules>>
      BY <1>0, <1>4 DEF ShowPassword, CreatorOK
    <2>2. Types'
      BY <1>0, <2>1 DEF Types
    <2>3. \A q \in Processes : starting'[q] # "created"
      BY <1>0, <2>1 DEF Types, CreatorOK
    <2>4. CreatorOK' /\ PasswordIsPrintedOnce'
      BY <2>1, <2>3 DEF CreatorOK, PasswordIsPrintedOnce
    <2> QED BY <2>1, <2>2, <2>3, <2>4, StartingStep, TypesThen DEF IInv
  <1>5. CASE Crash(p)
    <2>1. /\ starting' = [starting EXCEPT ![p] = "down"] /\ crashes' = crashes + 1
          /\ crashes < MaxCrashes /\ UNCHANGED <<accounts, tokens, work, shown, crossed, late, rules>>
      BY <1>5 DEF Crash
    <2>2. Types' /\ crashes' > 0
      BY <1>0, <2>1 DEF Types
    <2>3. \A q \in Processes : starting'[q] = "created" => starting[q] = "created"
      BY <1>0, <2>1 DEF Types
    <2>4. CreatorOK' /\ PasswordIsPrintedOnce'
      BY <1>0, <2>1, <2>2, <2>3 DEF CreatorOK, PasswordIsPrintedOnce
    <2> QED BY <2>1, <2>2, <2>3, <2>4, StartingStep, TypesThen DEF IInv
  <1> QED BY <1>1, <1>2, <1>3, <1>4, <1>5 DEF StartUp, GoOn

\* A step that changes no account and starts no process.
LEMMA QuietStep ==
  ASSUME IInv, UNCHANGED <<accounts, starting, crashes, shown>>, crossed => crossed'
  PROVE  CreatorOK' /\ AdminRemains' /\ PasswordIsPrintedOnce'
  BY DEF IInv, CreatorOK, AdminRemains, PasswordIsPrintedOnce, Authorised

LEMMA CheckInv ==
  ASSUME IInv, NEW h \in Handlers, NEW token \in tokens, NEW op \in Ops, NEW target \in Addresses,
         NEW role \in NewRoles \cup {"viewer"}, Check(h, token, op, target, role)
  PROVE  IInv'
  <1> DEFINE w == [Idle EXCEPT !.at = "checked", !.op = op, !.actor = token.subject,
                               !.target = target, !.role = role, !.loaded = token.role]
  <1>0. Types /\ (\A g \in Handlers : RequestOK(g)) /\ OneActor
    BY TypesAre DEF IInv
  <1>1. token.subject \in Addresses /\ token.role \in Roles
    BY <1>0 DEF Types
  <1>2. /\ w \in Works /\ w.at = "checked" /\ w.op = op /\ w.actor = token.subject
        /\ w.target = target /\ w.role = role
    BY <1>1, IdleTyped DEF Works, Idle, Roles
  <1>3. /\ work' = [work EXCEPT ![h] = w] /\ UNCHANGED <<accounts, tokens, starting, crashes, shown, late, rules>>
        /\ crossed' = (crossed \/ \E g \in Handlers : work[g].actor \notin {Nobody, token.subject})
    BY DEF Check
  <1> HIDE DEF w
  <1>4. /\ work'[h] = w /\ \A g \in Handlers : g # h => work'[g] = work[g]
        /\ work' \in [Handlers -> Works] /\ crossed' \in BOOLEAN /\ (crossed => crossed')
    BY <1>0, <1>2, <1>3 DEF Types
  <1>5. Types'
    BY <1>0, <1>3, <1>4 DEF Types
  <1>6. ~crossed' => \A g \in Handlers : work[g].at # "idle" => work[g].actor = token.subject
    BY <1>0, <1>3 DEF RequestOK
  <1>7. OneActor'
    BY <1>2, <1>4, <1>6 DEF OneActor
  <1>8. op # "write" => Authorised(token.subject, "user:manage")
    BY DEF Check, Needs, CurrentUser, Authorised, Can, Ops
  <1>9. /\ accounts[token.subject].exists
        /\ op \in {"set_role", "create_user"} => role \in Roles
        /\ op = "set_role" /\ target = token.subject => role = "admin"
        /\ op \in {"disable_user", "create_user"} => target # token.subject
    BY DEF Check, CurrentUser, KnownRole, Roles
  <1>10. RequestOK(h)'
    BY <1>1, <1>2, <1>3, <1>4, <1>8, <1>9 DEF RequestOK, Authorised
  <1>11. \A g \in Handlers : g # h => RequestOK(g)'
    BY <1>0, <1>3, <1>4 DEF RequestOK, Authorised
  <1> QED BY <1>3, <1>4, <1>5, <1>7, <1>10, <1>11, QuietStep, TypesThen DEF IInv

\* After the step, a may manage users.
ManagesNext(a) ==
  accounts'[a].exists /\ accounts'[a].active /\ Can(accounts'[a].role, "user:manage")

\* What a commit does to the accounts.
LEMMA ChangedFacts ==
  ASSUME IInv, NEW h \in Handlers, work[h].at = "loaded", accounts' = Changed(work[h])
  PROVE  /\ accounts' \in [Addresses -> Account]
         /\ \A a \in Addresses : accounts[a].exists => accounts'[a].exists
         /\ \A a \in Addresses : accounts'[a].exists /\ ~accounts[a].exists => a # work[h].actor
         /\ ~crossed => \/ accounts' = accounts
                        \/ ManagesNext(work[h].actor)
  <1> DEFINE w == work[h]
  <1>0. Types /\ RequestOK(h)
    BY TypesAre DEF IInv
  <1>1. /\ w.actor \in Addresses /\ w.target \in Addresses /\ w.op \in Ops
        /\ accounts[w.actor].exists
        /\ w.op \in {"set_role", "create_user"} => w.role \in Roles
        /\ w.op = "set_role" /\ w.target = w.actor => w.role = "admin"
        /\ w.op \in {"disable_user", "create_user"} => w.target # w.actor
        /\ ~crossed /\ w.op # "write" => Authorised(w.actor, "user:manage")
    BY <1>0 DEF RequestOK
  <1>2. \A a \in Addresses : accounts[a] \in Account
    BY <1>0 DEF Types
  <1> HIDE DEF w
  <1>3. ~crossed /\ w.op # "write" =>
          accounts[w.actor].exists /\ accounts[w.actor].active /\ accounts[w.actor].role = "admin"
    BY <1>1, <1>2, ManagersAre DEF Authorised, Account
  <1>4. Can("admin", "user:manage")
    BY ManagersAre DEF Roles
  <1>5. CASE accounts' = accounts
    BY <1>0, <1>5 DEF Types
  <1>6. CASE w.op = "set_role" /\ accounts' = [accounts EXCEPT ![w.target].role = w.role]
    <2>1. /\ accounts' = [accounts EXCEPT ![w.target] = [accounts[w.target] EXCEPT !.role = w.role]]
          /\ [accounts[w.target] EXCEPT !.role = w.role] \in Account
      BY <1>1, <1>2, <1>6 DEF Account
    <2>2. /\ accounts' \in [Addresses -> Account]
          /\ \A a \in Addresses : accounts'[a].exists = accounts[a].exists
      BY <1>0, <1>1, <2>1 DEF Types, Account
    <2>3. ~crossed => ManagesNext(w.actor)
      BY <1>0, <1>1, <1>3, <1>4, <1>6, <2>1 DEF Types, Account, ManagesNext
    <2> QED BY <2>2, <2>3 DEF w
  <1>7. CASE w.op = "disable_user" /\ accounts' = [accounts EXCEPT ![w.target].active = FALSE]
    <2>1. /\ accounts' = [accounts EXCEPT ![w.target] = [accounts[w.target] EXCEPT !.active = FALSE]]
          /\ [accounts[w.target] EXCEPT !.active = FALSE] \in Account
      BY <1>1, <1>2, <1>7 DEF Account
    <2>2. /\ accounts' \in [Addresses -> Account]
          /\ \A a \in Addresses : accounts'[a].exists = accounts[a].exists
      BY <1>0, <1>1, <2>1 DEF Types, Account
    <2>3. ~crossed => ManagesNext(w.actor)
      BY <1>0, <1>1, <1>3, <1>4, <1>7, <2>1 DEF Types, Account, ManagesNext
    <2> QED BY <2>2, <2>3 DEF w
  <1>8. CASE /\ w.op = "create_user" /\ ~accounts[w.target].exists
             /\ accounts' = [accounts EXCEPT ![w.target] = [exists |-> TRUE, role |-> w.role, active |-> TRUE]]
    <2>1. [exists |-> TRUE, role |-> w.role, active |-> TRUE] \in Account
      BY <1>1, <1>8 DEF Account
    <2>2. /\ accounts' \in [Addresses -> Account]
          /\ \A a \in Addresses : a # w.target => accounts'[a] = accounts[a]
          /\ accounts'[w.target].exists
      BY <1>0, <1>1, <1>8, <2>1 DEF Types
    <2>3. ~crossed => ManagesNext(w.actor)
      BY <1>1, <1>3, <1>4, <1>8, <2>2 DEF ManagesNext
    <2> QED BY <1>1, <1>8, <2>2, <2>3 DEF w
  <1> QED BY <1>5, <1>6, <1>7, <1>8 DEF Changed, w

LEMMA CommitInv ==
  ASSUME IInv, NEW h \in Handlers, Commit(h)
  PROVE  IInv'
  <1>0. /\ Types /\ (\A g \in Handlers : RequestOK(g)) /\ OneActor /\ CreatorOK
        /\ AdminRemains /\ PasswordIsPrintedOnce
    BY TypesAre DEF IInv
  <1>1. /\ work[h].at = "loaded" /\ accounts' = Changed(work[h]) /\ work' = [work EXCEPT ![h] = Idle]
        /\ UNCHANGED <<tokens, starting, crashes, shown, crossed, rules>>
    BY DEF Commit
  <1>2. /\ accounts' \in [Addresses -> Account]
        /\ \A a \in Addresses : accounts[a].exists => accounts'[a].exists
        /\ \A a \in Addresses : accounts'[a].exists /\ ~accounts[a].exists => a # work[h].actor
        /\ ~crossed => accounts' = accounts \/ ManagesNext(work[h].actor)
    BY <1>1, ChangedFacts
  <1>3. /\ work' \in [Handlers -> Works] /\ work'[h] = Idle
        /\ \A g \in Handlers : g # h => work'[g] = work[g]
    BY <1>0, <1>1, IdleTyped DEF Types
  <1>4. late' \in [Addresses -> [Rights -> Nat]]
    BY <1>0 DEF Commit, Types
  <1>5. Types'
    BY <1>0, <1>1, <1>2, <1>3, <1>4 DEF Types
  <1>6. work[h].actor \in Addresses /\ accounts[work[h].actor].exists
    BY <1>0, <1>1 DEF RequestOK
  <1>7. RequestOK(h)'
    BY <1>3, IdleTyped DEF RequestOK
  <1>8. ASSUME NEW g \in Handlers, g # h PROVE RequestOK(g)'
    <2>1. ~crossed /\ work[g].at # "idle" => work[g].actor = work[h].actor
      BY <1>0, <1>1 DEF OneActor
    <2> QED BY <1>0, <1>1, <1>2, <1>3, <1>8, <2>1 DEF RequestOK, Authorised, ManagesNext
  <1>9. OneActor'
    BY <1>0, <1>1, <1>3, IdleTyped DEF OneActor
  <1>10. CreatorOK'
    BY <1>0, <1>1, <1>2 DEF CreatorOK
  <1>11. AdminRemains'
    BY <1>0, <1>1, <1>2, <1>6 DEF AdminRemains, Authorised, ManagesNext
  <1>12. PasswordIsPrintedOnce'
    <2>1. CASE accounts[Bootstrap].exists
      BY <1>0, <1>1, <1>2, <2>1 DEF PasswordIsPrintedOnce
    <2>2. CASE ~accounts[Bootstrap].exists
      BY <1>0, <1>1, <1>2, <1>6, <2>2 DEF PasswordIsPrintedOnce
    <2> QED BY <2>1, <2>2
  <1> QED BY <1>5, <1>7, <1>8, <1>9, <1>10, <1>11, <1>12, TypesThen DEF IInv

LEMMA StepInv == IInv /\ [Next]_vars => IInv'
  <1> SUFFICES ASSUME IInv, [Next]_vars PROVE IInv'
    OBVIOUS
  <1>0. Types /\ (\A g \in Handlers : RequestOK(g)) /\ OneActor
    BY TypesAre DEF IInv
  <1>1. ASSUME NEW a \in Addresses, SignIn(a) PROVE IInv'
    <2>1. /\ UNCHANGED <<accounts, work, starting, crashes, shown, crossed, late, rules>>
          /\ tokens' = tokens \cup {[subject |-> a, role |-> accounts[a].role]}
      BY <1>1 DEF SignIn
    <2>2. Types'
      BY <1>0, <2>1 DEF Types, Account
    <2> QED BY <1>0, <2>1, <2>2, QuietStep, TypesThen DEF IInv, RequestOK, OneActor, Authorised
  <1>2. ASSUME NEW h \in Handlers, Load(h) PROVE IInv'
    <2> DEFINE role == IF work[h].target = work[h].actor THEN work[h].loaded
                       ELSE accounts[work[h].target].role
               w == [work[h] EXCEPT !.at = "loaded", !.loaded = role]
    <2>1. /\ work[h].at = "checked" /\ work' = [work EXCEPT ![h] = w]
          /\ UNCHANGED <<accounts, tokens, starting, crashes, shown, crossed, late, rules>>
      BY <1>0, <1>2 DEF Load, Types
    <2>2. role \in Roles
      BY <1>0, <2>1 DEF Types, Account, Works, RequestOK
    <2>3. /\ w \in Works /\ w.at = "loaded" /\ w.op = work[h].op /\ w.actor = work[h].actor
          /\ w.target = work[h].target /\ w.role = work[h].role
      BY ZenonT(60), <1>0, <2>2 DEF Types, Works
    <2> HIDE DEF w
    <2>4. /\ work' \in [Handlers -> Works] /\ work'[h] = w
          /\ \A g \in Handlers : g # h => work'[g] = work[g]
      BY <1>0, <2>1, <2>3 DEF Types
    <2>5. Types'
      BY <1>0, <2>1, <2>4 DEF Types
    <2>6. \A g \in Handlers : RequestOK(g)'
      BY <1>0, <2>1, <2>3, <2>4 DEF RequestOK, Authorised
    <2>7. OneActor'
      BY <1>0, <2>1, <2>3, <2>4 DEF OneActor
    <2> QED BY <2>1, <2>5, <2>6, <2>7, QuietStep, TypesThen DEF IInv
  <1>3. ASSUME NEW h \in Handlers, Abandon(h) PROVE IInv'
    <2>1. /\ work' = [work EXCEPT ![h] = Idle]
          /\ UNCHANGED <<accounts, tokens, starting, crashes, shown, crossed, late, rules>>
      BY <1>3 DEF Abandon
    <2>2. /\ work' \in [Handlers -> Works] /\ work'[h] = Idle
          /\ \A g \in Handlers : g # h => work'[g] = work[g]
      BY <1>0, <2>1, IdleTyped DEF Types
    <2>3. Types'
      BY <1>0, <2>1, <2>2 DEF Types
    <2>4. \A g \in Handlers : RequestOK(g)'
      BY <1>0, <2>1, <2>2, IdleTyped DEF RequestOK, Authorised
    <2>5. OneActor'
      BY <1>0, <2>1, <2>2, IdleTyped DEF OneActor
    <2> QED BY <2>1, <2>3, <2>4, <2>5, QuietStep, TypesThen DEF IInv
  <1>4. ASSUME UNCHANGED vars PROVE IInv'
    <2>1. Types'
      BY <1>0, <1>4 DEF Types, vars
    <2> QED BY <1>0, <1>4, <2>1, QuietStep, TypesThen DEF vars, IInv, RequestOK, OneActor, Authorised
  <1> QED BY <1>1, <1>2, <1>3, <1>4, StartUpInv, CheckInv, CommitInv DEF Next

LEMMA Invariance == Spec => []IInv
  BY InitInv, StepInv, PTL DEF Spec

-----------------------------------------------------------------------------
(* Late changes.                                                           *)

\* The requests of a under way that need the right.
InFlight(a, right) ==
  {h \in Handlers : work[h].at # "idle" /\ work[h].actor = a /\ Needs[work[h].op] = right}

\* Who has the right has used up nothing.  Who has not got as many requests
\* through as are no longer under way, and one thread served who took it.
LateOK(a, right) ==
  /\ ~accounts[a].exists \/ Authorised(a, right) => late[a][right] = 0
  /\ ~Authorised(a, right) =>
       late[a][right] + Cardinality(InFlight(a, right)) < Cardinality(Handlers)

LateInv == \A a \in Addresses, right \in Rights : LateOK(a, right)

LEMMA InFlightFacts ==
  ASSUME NEW a, NEW right
  PROVE  /\ IsFiniteSet(InFlight(a, right))
         /\ Cardinality(InFlight(a, right)) \in 0..Cardinality(Handlers)
         /\ Cardinality(Handlers) \in Nat \ {0}
         /\ \A h \in Handlers \ InFlight(a, right) :
              Cardinality(InFlight(a, right)) < Cardinality(Handlers)
  <1>1. InFlight(a, right) \subseteq Handlers
    BY DEF InFlight
  <1>2. IsFiniteSet(InFlight(a, right)) /\ Cardinality(InFlight(a, right)) <= Cardinality(Handlers)
    BY <1>1, HandlersAssumption, FS_Subset
  <1>3. Cardinality(InFlight(a, right)) \in Nat /\ Cardinality(Handlers) \in Nat \ {0}
    BY <1>2, HandlersAssumption, FS_CardinalityType, FS_EmptySet
  <1>4. ASSUME NEW h \in Handlers \ InFlight(a, right)
        PROVE  Cardinality(InFlight(a, right)) < Cardinality(Handlers)
    BY <1>1, <1>2, <1>3, <1>4, HandlersAssumption, FS_Subset
  <1> QED BY <1>2, <1>3, <1>4

\* A step that changes no account, and after which at most those who have the
\* right have more requests under way.
LEMMA QuietLate ==
  ASSUME LateInv, Types, UNCHANGED <<accounts, late>>,
         \A a \in Addresses, right \in Rights :
           InFlight(a, right)' \subseteq InFlight(a, right) \/ Authorised(a, right)
  PROVE  LateInv'
  <1> SUFFICES ASSUME NEW a \in Addresses, NEW right \in Rights PROVE LateOK(a, right)'
    BY DEF LateInv
  <1>1. LateOK(a, right) /\ (Authorised(a, right)' <=> Authorised(a, right))
    BY DEF LateInv, Authorised
  <1>2. CASE Authorised(a, right)
    BY <1>1, <1>2 DEF LateOK
  <1>3. CASE ~Authorised(a, right)
    <2> DEFINE before == InFlight(a, right)
               after == InFlight(a, right)'
    <2>1. after \subseteq before /\ IsFiniteSet(before) /\ Cardinality(before) \in Nat
      BY <1>3, InFlightFacts
    <2> HIDE DEF before, after
    <2>2. Cardinality(after) <= Cardinality(before) /\ Cardinality(after) \in Nat
      BY <2>1, FS_Subset, FS_CardinalityType
    <2>3. late[a][right] + Cardinality(before) < Cardinality(Handlers)
      BY <1>1, <1>3 DEF LateOK, before
    <2>4. late[a][right] \in Nat /\ Cardinality(Handlers) \in Nat
      BY HandlersAssumption, FS_CardinalityType DEF Types
    <2>5. late'[a][right] + Cardinality(after) < Cardinality(Handlers)
      BY <2>1, <2>2, <2>3, <2>4
    <2> QED BY <1>1, <1>3, <2>5 DEF LateOK, after
  <1> QED BY <1>2, <1>3

\* Nobody takes a right from themselves.
LEMMA RightsAreTaken ==
  ASSUME IInv, NEW h \in Handlers, Commit(h), NEW a \in Addresses, NEW right \in Rights,
         Authorised(a, right), ~Authorised(a, right)'
  PROVE  work[h].actor # a
  <1> SUFFICES ASSUME work[h].actor = a PROVE FALSE
    OBVIOUS
  <1> DEFINE w == work[h]
  <1>0. Types /\ RequestOK(h) /\ accounts[a] \in Account
    BY TypesAre DEF IInv, Types
  <1>1. /\ w.at = "loaded" /\ w.actor = a /\ w.target \in Addresses /\ accounts' = Changed(w)
        /\ w.op = "set_role" /\ w.target = a => w.role = "admin"
        /\ w.op = "disable_user" => w.target # a
        /\ accounts[a].exists /\ accounts[a].active /\ Can(accounts[a].role, right)
    BY <1>0 DEF Commit, RequestOK, Authorised
  <1> HIDE DEF w
  <1>2. \/ accounts'[a] = accounts[a]
        \/ accounts'[a] = [accounts[a] EXCEPT !.role = "admin"]
    BY <1>0, <1>1 DEF Changed, Types
  <1>3. Can("admin", right)
    BY DEF Can, Grants, Rights, Needs, Ops, Reading, Working, Managing
  <1> QED BY <1>0, <1>1, <1>2, <1>3 DEF Authorised, Account

LEMMA CommitLate ==
  ASSUME IInv, LateInv, NEW h \in Handlers, Commit(h)
  PROVE  LateInv'
  <1> SUFFICES ASSUME NEW a \in Addresses, NEW right \in Rights PROVE LateOK(a, right)'
    BY DEF LateInv
  <1> DEFINE before == InFlight(a, right)
             after == InFlight(a, right)'
             n == Cardinality(Handlers)
  <1>0. Types /\ RequestOK(h) /\ LateOK(a, right)
    BY TypesAre DEF IInv, LateInv
  <1>1. /\ work[h].at = "loaded" /\ work' = [work EXCEPT ![h] = Idle] /\ accounts' = Changed(work[h])
        /\ late'[a][right] = IF Authorised(a, right)' THEN 0
                             ELSE IF a = work[h].actor /\ right = Needs[work[h].op]
                                     /\ ~Authorised(a, right)
                                  THEN late[a][right] + 1 ELSE late[a][right]
    BY DEF Commit
  <1>2. (accounts[a].exists => accounts'[a].exists) /\ accounts[work[h].actor].exists
    BY <1>0, <1>1, ChangedFacts DEF RequestOK
  <1>3. /\ late[a][right] \in Nat /\ n \in Nat \ {0} /\ Cardinality(before) \in 0..n
        /\ IsFiniteSet(before)
    BY <1>0, InFlightFacts DEF Types
  <1>4. after = before \ {h}
    BY <1>0, <1>1, IdleTyped DEF InFlight, Types
  <1>5. h \in before <=> a = work[h].actor /\ right = Needs[work[h].op]
    BY <1>1 DEF InFlight
  <1>6. CASE Authorised(a, right)'
    BY <1>1, <1>6 DEF LateOK
  <1>7. CASE ~Authorised(a, right)' /\ Authorised(a, right)
    <2>1. work[h].actor # a
      BY <1>7, RightsAreTaken
    <2>2. h \notin before /\ after = before
      BY <1>4, <1>5, <2>1
    <2>3. Cardinality(before) < n
      BY <2>2, InFlightFacts
    <2>4. late[a][right] = 0 /\ late'[a][right] = 0
      BY <1>0, <1>1, <1>7, <2>1 DEF LateOK
    <2>5. late'[a][right] + Cardinality(after) < n
      BY <1>3, <2>2, <2>3, <2>4
    <2> QED BY <1>7, <2>4, <2>5 DEF LateOK
  <1>8. CASE ~Authorised(a, right)' /\ ~Authorised(a, right)
    <2>1. late[a][right] + Cardinality(before) < n
      BY <1>0, <1>8 DEF LateOK
    <2>2. ~accounts'[a].exists => late'[a][right] = 0
      BY <1>0, <1>1, <1>2, <1>8 DEF LateOK
    <2>3. late'[a][right] + Cardinality(after) < n
      <3> HIDE DEF before, after
      <3>1. CASE h \in before
        <4>1. Cardinality(after) = Cardinality(before) - 1
          BY <1>3, <1>4, <3>1, FS_RemoveElement
        <4>2. late'[a][right] = late[a][right] + 1
          BY <1>1, <1>5, <1>8, <3>1
        <4> QED BY <1>3, <2>1, <4>1, <4>2
      <3>2. CASE h \notin before
        <4>1. after = before
          BY <1>4, <3>2
        <4>2. late'[a][right] = late[a][right]
          BY <1>1, <1>5, <1>8, <3>2
        <4> QED BY <2>1, <4>1, <4>2
      <3> QED BY <3>1, <3>2
    <2> QED BY <1>8, <2>2, <2>3 DEF LateOK
  <1> QED BY <1>6, <1>7, <1>8

LEMMA CreateLate ==
  ASSUME IInv, LateInv, NEW p \in Processes, CreateAdmin(p)
  PROVE  LateInv'
  <1>0. Types
    BY TypesAre DEF IInv
  <1>1. UNCHANGED <<work, late>>
    BY DEF CreateAdmin
  <1>2. \A a \in Addresses, right \in Rights : InFlight(a, right)' = InFlight(a, right)
    BY <1>1 DEF InFlight
  <1>3. CASE accounts[Bootstrap].exists
    BY <1>0, <1>1, <1>2, <1>3, QuietLate DEF CreateAdmin
  <1>4. CASE ~accounts[Bootstrap].exists
    <2>1. accounts' = [accounts EXCEPT ![Bootstrap] =
                         [exists |-> TRUE, role |-> "admin", active |-> TRUE]]
      BY <1>4 DEF CreateAdmin
    <2> SUFFICES ASSUME NEW a \in Addresses, NEW right \in Rights PROVE LateOK(a, right)'
      BY DEF LateInv
    <2>2. LateOK(a, right)
      BY DEF LateInv
    <2>3. CASE a # Bootstrap
      BY <1>0, <1>1, <1>2, <2>1, <2>2, <2>3 DEF LateOK, Authorised, Types
    <2>4. CASE a = Bootstrap
      <3>1. late'[a][right] = 0
        BY <1>1, <1>4, <2>2, <2>4 DEF LateOK
      <3>2. Can("admin", right)
        BY DEF Can, Grants, Rights, Needs, Ops, Reading, Working, Managing
      <3>3. Authorised(a, right)'
        BY <1>0, <2>1, <2>4, <3>2 DEF Authorised, Types
      <3> QED BY <3>1, <3>3 DEF LateOK
    <2> QED BY <2>3, <2>4
  <1> QED BY <1>3, <1>4

LEMMA CheckLate ==
  ASSUME IInv, LateInv, NEW h \in Handlers, NEW token \in tokens, NEW op \in Ops,
         NEW target \in Addresses, NEW role \in NewRoles \cup {"viewer"},
         Check(h, token, op, target, role)
  PROVE  LateInv'
  <1> DEFINE w == [Idle EXCEPT !.at = "checked", !.op = op, !.actor = token.subject,
                               !.target = target, !.role = role, !.loaded = token.role]
  <1>0. Types
    BY TypesAre DEF IInv
  <1>1. /\ work' = [work EXCEPT ![h] = w] /\ UNCHANGED <<accounts, late>>
        /\ Authorised(token.subject, Needs[op])
    BY DEF Check, CurrentUser, Authorised
  <1>2. w.op = op /\ w.actor = token.subject
    BY DEF Idle
  <1> HIDE DEF w
  <1>3. work'[h] = w /\ \A g \in Handlers : g # h => work'[g] = work[g]
    BY <1>0, <1>1 DEF Types
  <1>4. ASSUME NEW a \in Addresses, NEW right \in Rights
        PROVE  InFlight(a, right)' \subseteq InFlight(a, right) \/ Authorised(a, right)
    BY <1>1, <1>2, <1>3 DEF InFlight
  <1> QED BY <1>0, <1>1, <1>4, QuietLate

LEMMA InitLate == Init => LateInv
  <1> SUFFICES ASSUME Init, NEW a \in Addresses, NEW right \in Rights PROVE LateOK(a, right)
    BY DEF LateInv
  <1>1. /\ ~accounts[a].exists /\ late[a][right] = 0
        /\ \A h \in Handlers : work[h].at = "idle"
    BY IdleTyped DEF Init
  <1>2. InFlight(a, right) = {}
    BY <1>1 DEF InFlight
  <1>3. late[a][right] + Cardinality(InFlight(a, right)) < Cardinality(Handlers)
    BY <1>1, <1>2, InFlightFacts, FS_EmptySet
  <1> QED BY <1>1, <1>3 DEF LateOK, Authorised

LEMMA LateStep == IInv /\ LateInv /\ [Next]_vars => LateInv'
  <1> SUFFICES ASSUME IInv, LateInv, [Next]_vars PROVE LateInv'
    OBVIOUS
  <1>0. Types
    BY TypesAre DEF IInv
  <1>1. ASSUME UNCHANGED <<accounts, work, late>> PROVE LateInv'
    <2>1. \A a \in Addresses, right \in Rights : InFlight(a, right)' \subseteq InFlight(a, right)
      BY <1>1 DEF InFlight
    <2> QED BY <1>0, <1>1, <2>1, QuietLate
  <1>2. ASSUME NEW p \in Processes, StartUp(p) PROVE LateInv'
    BY <1>1, <1>2, CreateLate DEF StartUp, GoOn, LookForRules, SeedRules, FindEmpty, ShowPassword, Crash
  <1>3. ASSUME NEW a \in Addresses, SignIn(a) PROVE LateInv'
    BY <1>1, <1>3 DEF SignIn
  <1>4. ASSUME NEW h \in Handlers, Load(h) PROVE LateInv'
    <2>1. UNCHANGED <<accounts, late>>
      BY <1>4 DEF Load
    <2>2. \A g \in Handlers : work'[g].op = work[g].op /\ work'[g].actor = work[g].actor
      BY <1>0, <1>4 DEF Load, Types, Works
    <2>3. \A g \in Handlers : work'[g].at # "idle" => work[g].at # "idle"
      BY <1>0, <1>4 DEF Load, Types, Works
    <2>4. \A a \in Addresses, right \in Rights : InFlight(a, right)' \subseteq InFlight(a, right)
      BY <2>2, <2>3 DEF InFlight
    <2> QED BY <1>0, <2>1, <2>4, QuietLate
  <1>5. ASSUME NEW h \in Handlers, Abandon(h) PROVE LateInv'
    <2>1. UNCHANGED <<accounts, late>> /\ work' = [work EXCEPT ![h] = Idle]
      BY <1>5 DEF Abandon
    <2>2. \A a \in Addresses, right \in Rights : InFlight(a, right)' \subseteq InFlight(a, right)
      BY <1>0, <2>1, IdleTyped DEF InFlight, Types
    <2> QED BY <1>0, <2>1, <2>2, QuietLate
  <1>6. CASE UNCHANGED vars
    BY <1>1, <1>6 DEF vars
  <1> QED BY <1>2, <1>3, <1>4, <1>5, <1>6, CheckLate, CommitLate DEF Next

-----------------------------------------------------------------------------
\* Accounts, tokens, requests and processes have their types (rbac.py, admin.py).
THEOREM AccessTyping == Spec => []TypeOK
  BY Invariance, PTL DEF IInv

\* Unless requests of two administrators overlap, there is always an active
\* administrator once there is an account (admin.py:70-128).
THEOREM AdminStays == Spec => []AdminRemains
  BY Invariance, PTL DEF IInv

\* However many processes start, one password is made and printed, unless a
\* crash loses it (main.py:35-75).
THEOREM OnePassword == Spec => []PasswordIsPrintedOnce
  BY Invariance, PTL DEF IInv

\* Once an account has lost a right, only its requests already checked get
\* through, fewer than there are threads (deps.py:55-68, admin.py:70-128).
THEOREM LateAreFew == Spec => []LateChangesAreFew
  <1>1. IInv /\ LateInv => LateChangesAreFew
    <2> SUFFICES ASSUME IInv, LateInv, NEW a \in Addresses, NEW right \in Rights
                 PROVE  late[a][right] < Cardinality(Handlers)
      BY DEF LateChangesAreFew
    <2>1. LateOK(a, right) /\ late[a][right] \in Nat
      BY TypesAre DEF IInv, LateInv, Types
    <2>2. Cardinality(InFlight(a, right)) \in Nat /\ Cardinality(Handlers) \in Nat \ {0}
      BY InFlightFacts
    <2> QED BY <2>1, <2>2 DEF LateOK
  <1> QED BY <1>1, Invariance, InitLate, LateStep, PTL DEF Spec

-----------------------------------------------------------------------------
(* Requests that do not overlap.                                           *)

OneHandler == \E h : Handlers = {h}

\* Whatever is asked for, and however processes start and crash meanwhile,
\* the last administrator stays if requests do not overlap
\* (admin.py:70-128).
THEOREM SerialAdmin ==
  ASSUME OneHandler
  PROVE  Spec => []((\E a \in Addresses : accounts[a].exists) =>
                      \E a \in Addresses : Authorised(a, "user:manage"))
  <1> PICK h : Handlers = {h}
    BY DEF OneHandler
  <1>1. Init => ~crossed
    BY DEF Init
  <1>2. ASSUME IInv, ~crossed, [Next]_vars PROVE ~crossed'
    <2>1. ASSUME NEW token, NEW op, NEW target, NEW role, Check(h, token, op, target, role)
          PROVE  ~crossed'
      <3>1. work[h].actor = Nobody
        BY <1>2, <2>1 DEF IInv, RequestOK, Check
      <3> QED BY <1>2, <2>1, <3>1 DEF Check
    <2>2. CASE UNCHANGED crossed
      BY <1>2, <2>2
    <2>3. UNCHANGED crossed \/ \E token \in tokens, op \in Ops, target \in Addresses, role \in NewRoles \cup {"viewer"} :
                                 Check(h, token, op, target, role)
      BY <1>2 DEF Next, vars, StartUp, GoOn, LookForRules, SeedRules, FindEmpty, CreateAdmin, ShowPassword, Crash, SignIn, Load, Commit, Abandon
    <2> QED BY <2>1, <2>2, <2>3
  <1>3. IInv /\ ~crossed => ((\E a \in Addresses : accounts[a].exists) =>
                              \E a \in Addresses : Authorised(a, "user:manage"))
    BY DEF IInv, AdminRemains
  <1> QED BY <1>1, <1>2, <1>3, Invariance, PTL DEF Spec
=============================================================================
