------------------------------- MODULE Login -------------------------------
(***************************************************************************)
(* Logging in to one account (app/routers/auth.py): the failure counter    *)
(* and the lockout, the second factor and its recovery codes, and the      *)
(* handlers that change the account's row meanwhile.                       *)
(*                                                                         *)
(* A handler works on the row as it loaded it, and a commit writes the     *)
(* columns it assigned whose value differs from the loaded one.  After a   *)
(* commit the row is loaded again.  The rate limit in front of login, and  *)
(* roles and is_active, are RateLimiter's and AccessControl's.             *)
(***************************************************************************)
EXTENDS Integers

CONSTANTS
  Handlers,    \* the threads that handle requests
  MaxFailed,   \* failures that lock (5)
  MaxCount,    \* bound on the failure counter
  CodesEach,   \* recovery codes of an enrolment (10)
  MaxChanges,  \* bound on password changes
  MaxEnrolled  \* bound on enrolments

ASSUME BoundsAssumption == /\ MaxFailed \in Nat \ {0} /\ MaxCount \in Nat /\ CodesEach \in Nat
                           /\ MaxChanges \in Nat /\ MaxEnrolled \in Nat

NoSecret == 0
Passwords == 0..MaxChanges
Codes == [secret : 1..MaxEnrolled, number : 1..CodesEach]

VARIABLES
  failed,   \* failed_logins
  lock,     \* locked_until: "none", "locked" until a time to come, or "expired"
  hash,     \* password_hash: the password that verifies, and whether its parameters are old
  mfa,      \* mfa_secret_sealed, mfa_enabled, recovery_hashes
  request,  \* what each thread is doing, with what it keeps of the row it loaded
  enrolled, \* enrolments so far
  chosen,   \* history: the last password set by a change
  guesses,  \* history: failures committed since the last session was issued or the last lock
  proof,    \* history: the secret a confirmation has verified
  uses,     \* history: how often each recovery code let a login in
  crossed   \* history: two logins have used recovery codes at the same time

row == <<failed, lock, hash, mfa>>
history == <<enrolled, chosen, guesses, proof, uses, crossed>>
vars == <<row, request, history>>

Idle == [at |-> "idle", failed |-> 0, lock |-> "none", typed |-> 0, legacy |-> FALSE,
         secret |-> NoSecret, code |-> 0, left |-> {}]

Places == {"idle", "wrong", "recover", "reload", "pass", "issue", "clear", "change",
           "enroll", "confirm"}

TypeOK ==
  /\ failed \in Nat
  /\ lock \in {"none", "locked", "expired"}
  /\ hash \in [password : Passwords, legacy : BOOLEAN]
  /\ mfa \in [secret : 0..MaxEnrolled, enabled : BOOLEAN, codes : SUBSET Codes]
  /\ request \in [Handlers -> [at : Places, failed : Nat, lock : {"none", "locked", "expired"},
                               typed : Passwords, legacy : BOOLEAN, secret : 0..MaxEnrolled,
                               code : 0..CodesEach, left : SUBSET Codes]]
  /\ enrolled \in 0..MaxEnrolled /\ chosen \in Passwords /\ guesses \in Nat
  /\ proof \in 0..MaxEnrolled /\ uses \in [Codes -> Nat] /\ crossed \in BOOLEAN

Init ==
  /\ failed = 0 /\ lock = "none"
  /\ hash \in [password : {0}, legacy : BOOLEAN]
  /\ mfa = [secret |-> NoSecret, enabled |-> FALSE, codes |-> {}]
  /\ request = [h \in Handlers |-> Idle]
  /\ enrolled = 0 /\ chosen = 0 /\ guesses = 0 /\ proof = NoSecret
  /\ uses = [c \in Codes |-> 0] /\ crossed = FALSE

-----------------------------------------------------------------------------
At(h, place) == request[h].at = place
Become(h, r) == request' = [request EXCEPT ![h] = r]
Done(h) == Become(h, Idle)

\* login, up to its first commit, with a wrong password.
WrongPassword(h) ==
  /\ At(h, "idle") /\ failed < MaxCount
  /\ Become(h, [Idle EXCEPT !.at = "wrong", !.failed = failed])
  /\ UNCHANGED <<row, history>>

\* Mutant of CountFailure: the lock is set one failure late.
CountFailureLate(h) ==
  LET n == request[h].failed + 1 IN
  /\ At(h, "wrong")
  /\ failed' = n
  /\ lock' = IF n > MaxFailed THEN "locked" ELSE lock
  /\ guesses' = IF n > MaxFailed THEN 0 ELSE guesses + 1
  /\ Done(h)
  /\ UNCHANGED <<hash, mfa, enrolled, chosen, proof, uses, crossed>>

\* The counter and the lock reach the row in one commit.
CountFailure(h) ==
  LET n == request[h].failed + 1 IN
  /\ At(h, "wrong")
  /\ failed' = n
  /\ lock' = IF n >= MaxFailed THEN "locked" ELSE lock
  /\ guesses' = IF n >= MaxFailed THEN 0 ELSE guesses + 1
  /\ Done(h)
  /\ UNCHANGED <<hash, mfa, enrolled, chosen, proof, uses, crossed>>

\* login with the right password and, if the account asks for one, a code of
\* its secret.  A locked account refuses it and nothing is written.
RightPassword(h) ==
  /\ At(h, "idle") /\ lock # "locked"
  /\ Become(h, [Idle EXCEPT !.at = "pass", !.typed = hash.password, !.legacy = hash.legacy])
  /\ UNCHANGED <<row, history>>

\* login with the right password and a recovery code.
RecoveryCode(h) ==
  /\ At(h, "idle") /\ lock # "locked" /\ mfa.enabled
  /\ \E c \in mfa.codes :
       Become(h, [Idle EXCEPT !.at = "recover", !.typed = hash.password, !.secret = c.secret,
                              !.code = c.number, !.left = mfa.codes \ {c}])
  /\ crossed' = (crossed \/ \E g \in Handlers \ {h} : At(g, "recover"))
  /\ UNCHANGED <<row, enrolled, chosen, guesses, proof, uses>>

\* Mutant of SpendCode: the code is not taken out.
SpendCodeKept(h) ==
  LET c == [secret |-> request[h].secret, number |-> request[h].code] IN
  /\ At(h, "recover")
  /\ uses' = [uses EXCEPT ![c] = IF @ < 2 THEN @ + 1 ELSE @]
  /\ Become(h, [request[h] EXCEPT !.at = "reload", !.secret = NoSecret, !.code = 0, !.left = {}])
  /\ UNCHANGED <<row, enrolled, chosen, guesses, proof, crossed>>

\* Uses beyond the second are not told apart.
SpendCode(h) ==
  LET c == [secret |-> request[h].secret, number |-> request[h].code] IN
  /\ At(h, "recover")
  /\ mfa' = [mfa EXCEPT !.codes = request[h].left]
  /\ uses' = [uses EXCEPT ![c] = IF @ < 2 THEN @ + 1 ELSE @]
  /\ Become(h, [request[h] EXCEPT !.at = "reload", !.secret = NoSecret, !.code = 0, !.left = {}])
  /\ UNCHANGED <<failed, lock, hash, enrolled, chosen, guesses, proof, crossed>>

\* needs_rehash looks at the row again, since the code was committed.
Reload(h) ==
  /\ At(h, "reload")
  /\ Become(h, [request[h] EXCEPT !.at = "pass", !.legacy = hash.legacy])
  /\ UNCHANGED <<row, history>>

\* Mutant of RecordLogin: every login writes the hash anew.
RecordLoginRehash(h) ==
  /\ At(h, "pass")
  /\ hash' = [password |-> request[h].typed, legacy |-> FALSE]
  /\ Become(h, [Idle EXCEPT !.at = "issue"])
  /\ UNCHANGED <<failed, lock, mfa, history>>

\* The commit of the audit entry, which also writes a hash that is due.
RecordLogin(h) ==
  /\ At(h, "pass")
  /\ hash' = IF request[h].legacy THEN [password |-> request[h].typed, legacy |-> FALSE] ELSE hash
  /\ Become(h, [Idle EXCEPT !.at = "issue"])
  /\ UNCHANGED <<failed, lock, mfa, history>>

\* _issue loads the row again; for a refresh it works on the row loaded first.
LoadForIssue(h) ==
  /\ At(h, "issue") \/ At(h, "idle")
  /\ Become(h, [Idle EXCEPT !.at = "clear", !.failed = failed, !.lock = lock])
  /\ UNCHANGED <<row, history>>

\* Its commit clears what was not clear when loaded.
Issue(h) ==
  /\ At(h, "clear")
  /\ failed' = IF request[h].failed # 0 THEN 0 ELSE failed
  /\ lock' = IF request[h].lock # "none" THEN "none" ELSE lock
  /\ guesses' = 0
  /\ Done(h)
  /\ UNCHANGED <<hash, mfa, enrolled, chosen, proof, uses, crossed>>

\* The time of a lock has come; the counter stays.
Expire ==
  /\ lock = "locked" /\ lock' = "expired"
  /\ UNCHANGED <<failed, hash, mfa, request, history>>

-----------------------------------------------------------------------------
(* The handlers of a logged-in user; current_user refuses a locked account. *)

\* change_password, once the current password has verified.
LoadForChange(h) ==
  /\ At(h, "idle") /\ lock # "locked"
  /\ Become(h, [Idle EXCEPT !.at = "change"])
  /\ UNCHANGED <<row, history>>

ChangePassword(h) ==
  /\ At(h, "change") /\ chosen < MaxChanges
  /\ chosen' = chosen + 1
  /\ hash' = [password |-> chosen', legacy |-> FALSE]
  /\ Done(h)
  /\ UNCHANGED <<failed, lock, mfa, enrolled, guesses, proof, uses, crossed>>

LoadForEnroll(h) ==
  /\ At(h, "idle") /\ lock # "locked" /\ ~mfa.enabled
  /\ Become(h, [Idle EXCEPT !.at = "enroll", !.secret = mfa.secret])
  /\ UNCHANGED <<row, history>>

NewCodes(secret) == [secret : {secret}, number : 1..CodesEach]

\* Mutant of Enroll: the update asks for nothing but the user.
EnrollBlindly(h) ==
  /\ At(h, "enroll") /\ Done(h)
  /\ enrolled < MaxEnrolled
  /\ enrolled' = enrolled + 1
  /\ mfa' = [mfa EXCEPT !.secret = enrolled', !.codes = NewCodes(enrolled')]
  /\ UNCHANGED <<failed, lock, hash, chosen, guesses, proof, uses, crossed>>

\* A new secret and its codes, if the row still is as it was loaded; 409 if not.
Enroll(h) ==
  /\ At(h, "enroll") /\ Done(h)
  /\ IF mfa.enabled \/ mfa.secret # request[h].secret
     THEN UNCHANGED <<mfa, enrolled>>
     ELSE /\ enrolled < MaxEnrolled
          /\ enrolled' = enrolled + 1
          /\ mfa' = [mfa EXCEPT !.secret = enrolled',
                                !.codes = NewCodes(enrolled')]
  /\ UNCHANGED <<failed, lock, hash, chosen, guesses, proof, uses, crossed>>

\* mfa_confirm, once a code has verified against the loaded secret.
LoadForConfirm(h) ==
  /\ At(h, "idle") /\ lock # "locked" /\ mfa.secret # NoSecret
  /\ Become(h, [Idle EXCEPT !.at = "confirm", !.secret = mfa.secret])
  /\ UNCHANGED <<row, history>>

Confirm(h) ==
  /\ At(h, "confirm") /\ Done(h)
  /\ IF mfa.enabled \/ mfa.secret # request[h].secret
     THEN UNCHANGED <<mfa, proof>>
     ELSE mfa' = [mfa EXCEPT !.enabled = TRUE] /\ proof' = request[h].secret
  /\ UNCHANGED <<failed, lock, hash, enrolled, chosen, guesses, uses, crossed>>

\* A refusal, an error or a crash: what is not committed is lost.
Abandon(h) ==
  /\ ~At(h, "idle") /\ Done(h)
  /\ UNCHANGED <<row, history>>

Next ==
  \/ Expire
  \/ \E h \in Handlers :
       \/ WrongPassword(h) \/ CountFailure(h)
       \/ RightPassword(h) \/ RecoveryCode(h) \/ SpendCode(h) \/ Reload(h) \/ RecordLogin(h)
       \/ LoadForIssue(h) \/ Issue(h)
       \/ LoadForChange(h) \/ ChangePassword(h)
       \/ LoadForEnroll(h) \/ Enroll(h) \/ LoadForConfirm(h) \/ Confirm(h)
       \/ Abandon(h)

Spec == Init /\ [][Next]_vars

-----------------------------------------------------------------------------
\* Two handlers lose each other's increments of failed_logins, but not for
\* ever: what one writes back is at least one more than what both had seen,
\* so MaxFailed rounds lock the account.
AttemptsAreBounded ==
  \A g, h \in Handlers : Handlers = {g, h} => guesses < (MaxFailed * (MaxFailed + 1)) \div 2

\* A second factor is asked for only when the user has shown that the very
\* secret now stored works: enrolling again while a confirmation is under
\* way never enables an unproved secret, which would shut the user out.
EnabledSecretIsProved == mfa.enabled => mfa.secret # NoSecret /\ proof = mfa.secret

\* "Recovery codes are shown once and each works once"
\* (app/routers/auth.py:239): they are those of the stored secret, and a code
\* that was used is gone and has let one login in, unless two logins have
\* used codes at the same time.
CodesWorkOnce ==
  /\ \A c \in mfa.codes : c.secret = mfa.secret
  /\ ~crossed => /\ \A c \in Codes : uses[c] <= 1
                 /\ \A c \in mfa.codes : uses[c] = 0

\* The password that verifies is the last one set.  Only the one the account
\* had while its hash had old parameters can come back, written by a login
\* that upgrades the hash it loaded.
LastPasswordHolds == hash.password = chosen \/ (hash.password = 0 /\ ~hash.legacy)
=============================================================================
