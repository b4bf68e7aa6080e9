---------------------------- MODULE LoginProofs ----------------------------
(***************************************************************************)
(* Proofs about Login, for any number of handlers, failures that lock,     *)
(* recovery codes, password changes and enrolments.                        *)
(***************************************************************************)
EXTENDS Login, TLAPS

Locks == {"none", "locked", "expired"}

Requests == [at : Places, failed : Nat, lock : Locks, typed : Passwords, legacy : BOOLEAN,
             secret : 0..MaxEnrolled, code : 0..CodesEach, left : SUBSET Codes]

USE BoundsAssumption

\* Everything but the requests.
RowOK ==
  /\ failed \in Nat
  /\ lock \in Locks
  /\ hash \in [password : Passwords, legacy : BOOLEAN]
  /\ mfa \in [secret : 0..MaxEnrolled, enabled : BOOLEAN, codes : SUBSET Codes]
  /\ enrolled \in 0..MaxEnrolled /\ chosen \in Passwords /\ guesses \in Nat
  /\ proof \in 0..MaxEnrolled /\ uses \in [Codes -> Nat] /\ crossed \in BOOLEAN

LEMMA TypeParts == TypeOK <=> RowOK /\ request \in [Handlers -> Requests]
  BY DEF TypeOK, RowOK, Requests, Locks

LEMMA TypesThen == RowOK' /\ request' \in [Handlers -> Requests] => TypeOK'
  BY DEF TypeOK, RowOK, Requests, Locks

LEMMA IdleTyped == Idle \in Requests /\ Idle.at = "idle"
  BY DEF Idle, Requests, Places, Passwords, Locks, NoSecret

\* The code that a login at "recover" is about to spend.
Code(h) == [secret |-> request[h].secret, number |-> request[h].code]

\* What a request knows of the row: a password typed at a hash with old
\* parameters is the first one; a recovery code is one of the secret that is
\* enabled, which nobody can replace.
KnowledgeOK(h) ==
  /\ request[h].legacy => request[h].typed = 0
  /\ hash.legacy /\ request[h].at \in {"recover", "reload", "pass"} => request[h].typed = 0
  /\ At(h, "confirm") => request[h].secret # NoSecret
  /\ At(h, "recover") => /\ mfa.enabled
                         /\ Code(h) \in Codes /\ request[h].secret = mfa.secret
                         /\ \A c \in request[h].left : c.secret = mfa.secret
                         /\ ~crossed => /\ Code(h) \in mfa.codes
                                        /\ request[h].left = mfa.codes \ {Code(h)}

\* Recovery codes, and who is using them.
CodesOK ==
  /\ mfa.secret <= enrolled
  /\ \A c \in Codes : c.secret > enrolled => uses[c] = 0
  /\ ~crossed => \A g, h \in Handlers : At(g, "recover") /\ At(h, "recover") => g = h

IInv ==
  /\ TypeOK /\ CodesOK
  /\ hash.legacy => hash.password = 0
  /\ \A h \in Handlers : KnowledgeOK(h)
  /\ EnabledSecretIsProved /\ CodesWorkOnce /\ LastPasswordHolds

LEMMA InitInv == Init => IInv
  <1> SUFFICES ASSUME Init PROVE IInv
    OBVIOUS
  <1>0. /\ hash \in [password : Passwords, legacy : BOOLEAN]
        /\ mfa \in [secret : 0..MaxEnrolled, enabled : BOOLEAN, codes : SUBSET Codes]
        /\ uses \in [Codes -> Nat]
    BY DEF Init, Passwords, NoSecret
  <1>1. RowOK
    BY <1>0 DEF Init, RowOK, Passwords, Locks, NoSecret
  <1>2. TypeOK
    BY <1>1, IdleTyped, TypeParts DEF Init
  <1>3. \A h \in Handlers : request[h] = Idle
    BY DEF Init
  <1>h. hash.legacy \in BOOLEAN
    BY <1>0
  <1>4. CodesOK
    BY <1>3 DEF Init, CodesOK, At, Idle, NoSecret
  <1>5. \A h \in Handlers : KnowledgeOK(h)
    <2>1. Idle.at = "idle" /\ ~Idle.legacy
      BY DEF Idle
    <2> QED BY <1>3, <2>1, <1>h DEF KnowledgeOK, At
  <1>6. EnabledSecretIsProved /\ CodesWorkOnce /\ LastPasswordHolds /\ (hash.legacy => hash.password = 0)
    BY DEF Init, EnabledSecretIsProved, CodesWorkOnce, LastPasswordHolds
  <1> QED BY <1>2, <1>4, <1>5, <1>6 DEF IInv

-----------------------------------------------------------------------------
\* The record a handler takes over; the others keep theirs.
LEMMA BecomeTyped ==
  ASSUME request \in [Handlers -> Requests], NEW h \in Handlers, NEW r \in Requests, Become(h, r)
  PROVE  /\ request' \in [Handlers -> Requests] /\ request'[h] = r
         /\ \A g \in Handlers : g # h => request'[g] = request[g]
  BY DEF Become

\* A step that ends h's request, or lets h become somebody who spends no code
\* and knows no more than is true, and leaves mfa and the hash alone.
LEMMA Plain ==
  ASSUME IInv, NEW h \in Handlers, NEW r \in Requests, Become(h, r), r.at # "recover",
         r.legacy => r.typed = 0, r.at = "confirm" => r.secret # NoSecret,
         hash.legacy /\ r.at \in {"recover", "reload", "pass"} => r.typed = 0,
         UNCHANGED <<hash, mfa, enrolled, chosen, proof, uses, crossed>>, RowOK'
  PROVE  IInv'
  <1>0. request \in [Handlers -> Requests] /\ \A g \in Handlers : KnowledgeOK(g)
    BY TypeParts DEF IInv
  <1>1. /\ request' \in [Handlers -> Requests] /\ request'[h] = r
        /\ \A g \in Handlers : g # h => request'[g] = request[g]
    BY <1>0, BecomeTyped
  <1>2. \A g \in Handlers : KnowledgeOK(g)'
    BY <1>0, <1>1 DEF KnowledgeOK, At, Code
  <1>3. CodesOK'
    BY <1>1 DEF IInv, CodesOK, At
  <1>4. TypeOK'
    BY <1>1, TypesThen
  <1> QED
    BY <1>2, <1>3, <1>4 DEF IInv, EnabledSecretIsProved, CodesWorkOnce, LastPasswordHolds

LEMMA StepInv == IInv /\ [Next]_vars => IInv'
  <1> SUFFICES ASSUME IInv, [Next]_vars PROVE IInv'
    OBVIOUS
  <1>0. /\ RowOK /\ request \in [Handlers -> Requests] /\ \A h \in Handlers : KnowledgeOK(h)
        /\ CodesOK /\ (hash.legacy => hash.password = 0)
        /\ EnabledSecretIsProved /\ CodesWorkOnce /\ LastPasswordHolds
    BY TypeParts DEF IInv
  <1>i. Idle.at # "recover" /\ ~Idle.legacy /\ Idle.at = "idle" /\ Idle \in Requests
    BY IdleTyped DEF Idle
  <1>d. ASSUME NEW h \in Handlers, Done(h), RowOK',
               UNCHANGED <<hash, mfa, enrolled, chosen, proof, uses, crossed>>
        PROVE  IInv'
    BY <1>i, <1>d, Plain DEF Done
  <1>1. ASSUME Expire PROVE IInv'
    <2>1. RowOK' /\ UNCHANGED <<hash, mfa, request, history>>
      BY <1>0, <1>1 DEF Expire, RowOK, Locks, history
    <2> QED BY <1>0, <2>1, TypesThen
            DEF IInv, history, KnowledgeOK, At, Code, CodesOK, EnabledSecretIsProved, CodesWorkOnce,
                LastPasswordHolds
  <1>2. ASSUME NEW h \in Handlers, WrongPassword(h) PROVE IInv'
    <2> DEFINE r == [Idle EXCEPT !.at = "wrong", !.failed = failed]
    <2>1. r \in Requests /\ r.at = "wrong" /\ ~r.legacy
      BY <1>0, IdleTyped DEF Idle, Requests, Places, RowOK
    <2>2. Become(h, r) /\ RowOK' /\ UNCHANGED <<row, history>>
      BY <1>0, <1>2 DEF WrongPassword, RowOK, row, history
    <2> HIDE DEF r
    <2> QED BY <2>1, <2>2, Plain DEF row, history
  <1>3. ASSUME NEW h \in Handlers, CountFailure(h) PROVE IInv'
    <2>1. request[h].failed \in Nat
      BY <1>0 DEF Requests
    <2>2. RowOK'
      BY <1>0, <1>3, <2>1 DEF CountFailure, RowOK, Locks
    <2> QED BY <1>3, <1>d, <2>2 DEF CountFailure
  <1>4. ASSUME NEW h \in Handlers, RightPassword(h) PROVE IInv'
    <2> DEFINE r == [Idle EXCEPT !.at = "pass", !.typed = hash.password, !.legacy = hash.legacy]
    <2>1. r \in Requests /\ r.at = "pass" /\ r.typed = hash.password /\ r.legacy = hash.legacy
      BY <1>0, IdleTyped DEF Idle, Requests, Places, RowOK
    <2>2. Become(h, r) /\ RowOK' /\ UNCHANGED <<row, history>>
      BY <1>0, <1>4 DEF RightPassword, RowOK, row, history
    <2> HIDE DEF r
    <2> QED BY <1>0, <2>1, <2>2, Plain DEF row, history
  <1>5. ASSUME NEW h \in Handlers, RecoveryCode(h) PROVE IInv'
    <2>0. PICK c \in mfa.codes :
            Become(h, [Idle EXCEPT !.at = "recover", !.typed = hash.password, !.secret = c.secret,
                                   !.code = c.number, !.left = mfa.codes \ {c}])
      BY <1>5 DEF RecoveryCode
    <2> DEFINE r == [Idle EXCEPT !.at = "recover", !.typed = hash.password, !.secret = c.secret,
                                 !.code = c.number, !.left = mfa.codes \ {c}]
    <2>1. c \in Codes /\ mfa.codes \subseteq Codes /\ c.secret = mfa.secret /\ mfa.enabled
      BY <1>0, <1>5 DEF RecoveryCode, RowOK, CodesWorkOnce
    <2>2. c = [secret |-> c.secret, number |-> c.number] /\ c.secret \in 0..MaxEnrolled
          /\ c.number \in 0..CodesEach
      BY <2>1 DEF Codes
    <2>3. /\ r \in Requests /\ r.at = "recover" /\ r.typed = hash.password /\ r.legacy = FALSE
          /\ r.secret = c.secret /\ r.code = c.number /\ r.left = mfa.codes \ {c}
      BY <1>0, <2>1, <2>2, IdleTyped DEF Idle, Requests, Places, RowOK
    <2>4. Become(h, r) /\ UNCHANGED <<row, enrolled, chosen, guesses, proof, uses>>
      BY <1>5, <2>0 DEF RecoveryCode
    <2>5. /\ crossed' \in BOOLEAN /\ (crossed => crossed')
          /\ ~crossed' => \A g \in Handlers \ {h} : ~At(g, "recover")
      BY <1>0, <1>5 DEF RecoveryCode, RowOK
    <2> HIDE DEF r
    <2>6. /\ request' \in [Handlers -> Requests] /\ request'[h] = r
          /\ \A g \in Handlers : g # h => request'[g] = request[g]
      BY <1>0, <2>3, <2>4, BecomeTyped
    <2>7. RowOK' /\ TypeOK'
      BY <1>0, <2>4, <2>5, <2>6, TypesThen DEF RowOK, row
    <2>8. KnowledgeOK(h)'
      BY <1>0, <2>1, <2>2, <2>3, <2>4, <2>6 DEF KnowledgeOK, At, Code, row, CodesWorkOnce
    <2>9. \A g \in Handlers : g # h => KnowledgeOK(g)'
      BY <1>0, <2>4, <2>5, <2>6 DEF KnowledgeOK, At, Code, row
    <2>10. CodesOK'
      BY <1>0, <2>4, <2>5, <2>6 DEF CodesOK, At, row
    <2> QED BY <1>0, <2>4, <2>5, <2>7, <2>8, <2>9, <2>10
            DEF IInv, EnabledSecretIsProved, CodesWorkOnce, LastPasswordHolds, row
  <1>6. ASSUME NEW h \in Handlers, SpendCode(h) PROVE IInv'
    <2> DEFINE r == [request[h] EXCEPT !.at = "reload", !.secret = NoSecret, !.code = 0, !.left = {}]
    <2>0. "reload" \in Places /\ NoSecret \in 0..MaxEnrolled /\ 0 \in 0..CodesEach
      BY DEF Places, NoSecret
    <2>1. /\ r \in Requests /\ r.at = "reload" /\ r.typed = request[h].typed
          /\ r.legacy = request[h].legacy
      BY <1>0, <2>0 DEF Requests
    <2>2. /\ At(h, "recover") /\ Become(h, r) /\ mfa' = [mfa EXCEPT !.codes = request[h].left]
          /\ uses' = [uses EXCEPT ![Code(h)] = IF @ < 2 THEN @ + 1 ELSE @]
          /\ UNCHANGED <<failed, lock, hash, enrolled, chosen, guesses, proof, crossed>>
      BY <1>6 DEF SpendCode, Code
    <2>3. /\ mfa'.secret = mfa.secret /\ mfa'.enabled = mfa.enabled /\ mfa'.codes = request[h].left
          /\ mfa.enabled /\ Code(h) \in Codes /\ request[h].secret = mfa.secret
          /\ request[h].left \subseteq Codes
      BY <1>0, <2>2 DEF RowOK, KnowledgeOK, Requests
    <2>4. /\ uses' \in [Codes -> Nat] /\ uses'[Code(h)] <= uses[Code(h)] + 1
          /\ \A c \in Codes : c # Code(h) => uses'[c] = uses[c]
      BY <1>0, <2>2, <2>3 DEF RowOK
    <2> HIDE DEF r
    <2>5. /\ request' \in [Handlers -> Requests] /\ request'[h] = r
          /\ \A g \in Handlers : g # h => request'[g] = request[g]
      BY <1>0, <2>1, <2>2, BecomeTyped
    <2>6. RowOK'
      BY <1>0, <2>2, <2>3, <2>4 DEF RowOK
    <2>7. TypeOK'
      BY <2>5, <2>6, TypesThen
    <2>8. KnowledgeOK(h)'
      BY <1>0, <2>1, <2>2, <2>5 DEF KnowledgeOK, At
    <2>9. \A g \in Handlers : g # h => KnowledgeOK(g)'
      BY <1>0, <2>2, <2>3, <2>5 DEF KnowledgeOK, At, Code, CodesOK
    <2>10. CodesOK'
      <3>1. Code(h).secret = mfa.secret /\ mfa.secret \in Int /\ enrolled \in Int
        BY <1>0, <2>3 DEF Code, RowOK
      <3>2. \A c \in Codes : c.secret > enrolled => c # Code(h)
        BY <1>0, <3>1 DEF CodesOK, Codes
      <3>3. \A g \in Handlers : At(g, "recover")' => At(g, "recover")
        BY <2>1, <2>5 DEF At
      <3> QED BY <1>0, <2>2, <2>3, <2>4, <3>2, <3>3 DEF CodesOK
    <2>11. CodesWorkOnce'
      <3>1. \A c \in mfa'.codes : c.secret = mfa'.secret
        BY <1>0, <2>2, <2>3 DEF KnowledgeOK
      <3>2. ASSUME ~crossed PROVE /\ \A c \in Codes : uses'[c] <= 1
                                  /\ \A c \in mfa'.codes : uses'[c] = 0
        <4>1. Code(h) \in mfa.codes /\ mfa'.codes = mfa.codes \ {Code(h)}
          BY <1>0, <2>2, <2>3, <3>2 DEF KnowledgeOK
        <4>2. uses[Code(h)] = 0
          BY <1>0, <3>2, <4>1 DEF CodesWorkOnce
        <4> QED BY <1>0, <2>3, <2>4, <3>2, <4>1, <4>2 DEF CodesWorkOnce, RowOK
      <3> QED BY <2>2, <3>1, <3>2 DEF CodesWorkOnce
    <2> QED BY <1>0, <2>2, <2>3, <2>7, <2>8, <2>9, <2>10, <2>11
            DEF IInv, EnabledSecretIsProved, LastPasswordHolds
  <1>7. ASSUME NEW h \in Handlers, Reload(h) PROVE IInv'
    <2> DEFINE r == [request[h] EXCEPT !.at = "pass", !.legacy = hash.legacy]
    <2>1. r \in Requests /\ r.at = "pass" /\ r.typed = request[h].typed /\ r.legacy = hash.legacy
      BY ZenonT(60), <1>0 DEF Requests, Places, RowOK
    <2>2. At(h, "reload") /\ Become(h, r) /\ RowOK' /\ UNCHANGED <<row, history>>
      BY <1>0, <1>7 DEF Reload, RowOK, row, history
    <2>3. hash.legacy => r.typed = 0
      BY <1>0, <2>1, <2>2 DEF KnowledgeOK, At
    <2> HIDE DEF r
    <2> QED BY <2>1, <2>2, <2>3, Plain DEF row, history
  <1>8. ASSUME NEW h \in Handlers, RecordLogin(h) PROVE IInv'
    <2> DEFINE r == [Idle EXCEPT !.at = "issue"]
    <2>1. r \in Requests /\ r.at = "issue" /\ ~r.legacy
      BY IdleTyped DEF Idle, Requests, Places
    <2>2. CASE ~request[h].legacy
      <3>1. Become(h, r) /\ RowOK' /\ UNCHANGED <<hash, mfa, history>>
        BY <1>0, <1>8, <2>2 DEF RecordLogin, RowOK, history
      <3> HIDE DEF r
      <3> QED BY <2>1, <3>1, Plain DEF history
    <2>3. CASE request[h].legacy
      <3>1. /\ hash' = [password |-> 0, legacy |-> FALSE] /\ Become(h, r)
            /\ UNCHANGED <<failed, lock, mfa, history>>
        BY <1>0, <1>8, <2>3 DEF RecordLogin, KnowledgeOK
      <3> HIDE DEF r
      <3>2. /\ request' \in [Handlers -> Requests] /\ request'[h] = r
            /\ \A g \in Handlers : g # h => request'[g] = request[g]
        BY <1>0, <2>1, <3>1, BecomeTyped
      <3>3. RowOK'
        BY <1>0, <3>1 DEF RowOK, history, Passwords
      <3>4. TypeOK'
        BY <3>2, <3>3, TypesThen
      <3>5. \A g \in Handlers : KnowledgeOK(g)'
        BY <1>0, <2>1, <3>1, <3>2 DEF KnowledgeOK, At, Code, history
      <3>6. CodesOK'
        BY <1>0, <2>1, <3>1, <3>2 DEF CodesOK, At, history
      <3> QED BY <1>0, <3>1, <3>4, <3>5, <3>6
              DEF IInv, EnabledSecretIsProved, CodesWorkOnce, LastPasswordHolds, history
    <2> QED BY <2>2, <2>3
  <1>9. ASSUME NEW h \in Handlers, LoadForIssue(h) PROVE IInv'
    <2> DEFINE r == [Idle EXCEPT !.at = "clear", !.failed = failed, !.lock = lock]
    <2>1. r \in Requests /\ r.at = "clear" /\ ~r.legacy
      BY <1>0, IdleTyped DEF Idle, Requests, Places, RowOK
    <2>2. Become(h, r) /\ RowOK' /\ UNCHANGED <<row, history>>
      BY <1>0, <1>9 DEF LoadForIssue, RowOK, row, history
    <2> HIDE DEF r
    <2> QED BY <2>1, <2>2, Plain DEF row, history
  <1>10. ASSUME NEW h \in Handlers, Issue(h) PROVE IInv'
    <2>1. RowOK'
      BY <1>0, <1>10 DEF Issue, RowOK, Locks
    <2> QED BY <1>10, <1>d, <2>1 DEF Issue
  <1>11. ASSUME NEW h \in Handlers, LoadForChange(h) PROVE IInv'
    <2> DEFINE r == [Idle EXCEPT !.at = "change"]
    <2>1. r \in Requests /\ r.at = "change" /\ ~r.legacy
      BY IdleTyped DEF Idle, Requests, Places
    <2>2. Become(h, r) /\ RowOK' /\ UNCHANGED <<row, history>>
      BY <1>0, <1>11 DEF LoadForChange, RowOK, row, history
    <2> HIDE DEF r
    <2> QED BY <2>1, <2>2, Plain DEF row, history
  <1>12. ASSUME NEW h \in Handlers, ChangePassword(h) PROVE IInv'
    <2>1. /\ hash' = [password |-> chosen', legacy |-> FALSE] /\ chosen' \in Passwords
          /\ Become(h, Idle)
          /\ UNCHANGED <<failed, lock, mfa, enrolled, guesses, proof, uses, crossed>>
      BY <1>0, <1>12 DEF ChangePassword, Done, RowOK, Passwords
    <2>2. /\ request' \in [Handlers -> Requests] /\ request'[h] = Idle
          /\ \A g \in Handlers : g # h => request'[g] = request[g]
      BY <1>0, <1>i, <2>1, BecomeTyped
    <2>3. RowOK'
      BY <1>0, <2>1 DEF RowOK
    <2>4. TypeOK'
      BY <2>2, <2>3, TypesThen
    <2>5. \A g \in Handlers : KnowledgeOK(g)'
      BY <1>0, <1>i, <2>1, <2>2 DEF KnowledgeOK, At, Code
    <2>6. CodesOK'
      BY <1>0, <1>i, <2>1, <2>2 DEF CodesOK, At
    <2> QED BY <1>0, <2>1, <2>4, <2>5, <2>6
            DEF IInv, EnabledSecretIsProved, CodesWorkOnce, LastPasswordHolds
  <1>13. ASSUME NEW h \in Handlers, LoadForEnroll(h) PROVE IInv'
    <2> DEFINE r == [Idle EXCEPT !.at = "enroll", !.secret = mfa.secret]
    <2>1. r \in Requests /\ r.at = "enroll" /\ ~r.legacy
      BY <1>0, IdleTyped DEF Idle, Requests, Places, RowOK
    <2>2. Become(h, r) /\ RowOK' /\ UNCHANGED <<row, history>>
      BY <1>0, <1>13 DEF LoadForEnroll, RowOK, row, history
    <2> HIDE DEF r
    <2> QED BY <2>1, <2>2, Plain DEF row, history
  <1>14. ASSUME NEW h \in Handlers, Enroll(h) PROVE IInv'
    <2>1. CASE UNCHANGED <<mfa, enrolled>>
      <3>1. RowOK'
        BY <1>0, <1>14, <2>1 DEF Enroll, RowOK
      <3> QED BY <1>14, <1>d, <2>1, <3>1 DEF Enroll
    <2>2. CASE /\ ~mfa.enabled /\ enrolled < MaxEnrolled /\ enrolled' = enrolled + 1
               /\ mfa' = [mfa EXCEPT !.secret = enrolled', !.codes = NewCodes(enrolled')]
      <3>1. /\ Become(h, Idle) /\ UNCHANGED <<failed, lock, hash, chosen, guesses, proof, uses, crossed>>
        BY <1>14 DEF Enroll, Done
      <3>2. /\ mfa'.secret = enrolled + 1 /\ ~mfa'.enabled /\ mfa'.codes = NewCodes(enrolled + 1)
            /\ enrolled + 1 \in 1..MaxEnrolled /\ enrolled \in Nat
        BY <1>0, <2>2 DEF RowOK
      <3>3. /\ NewCodes(enrolled + 1) \subseteq Codes
            /\ \A c \in NewCodes(enrolled + 1) : c.secret = enrolled + 1
        BY <3>2 DEF NewCodes, Codes
      <3>4. /\ request' \in [Handlers -> Requests] /\ request'[h] = Idle
            /\ \A g \in Handlers : g # h => request'[g] = request[g]
        BY <1>0, <1>i, <3>1, BecomeTyped
      <3>5. RowOK'
        <4>0. mfa' = [secret |-> enrolled + 1, enabled |-> FALSE, codes |-> NewCodes(enrolled + 1)]
          BY <1>0, <2>2, <3>2 DEF RowOK
        <4>1. mfa' \in [secret : 0..MaxEnrolled, enabled : BOOLEAN, codes : SUBSET Codes]
          BY <3>2, <3>3, <4>0
        <4> QED BY <1>0, <2>2, <3>1, <3>2, <4>1 DEF RowOK
      <3>6. TypeOK'
        BY <3>4, <3>5, TypesThen
      <3>7. \A g \in Handlers : ~At(g, "recover")'
        BY <1>0, <1>i, <2>2, <3>4 DEF KnowledgeOK, At
      <3>8. \A g \in Handlers : KnowledgeOK(g)'
        BY <1>0, <1>i, <3>1, <3>4, <3>7 DEF KnowledgeOK, At
      <3>9. CodesOK'
        BY <1>0, <2>2, <3>1, <3>2, <3>7 DEF CodesOK, Codes
      <3>10. CodesWorkOnce'
        BY <1>0, <3>1, <3>2, <3>3 DEF CodesWorkOnce, CodesOK
      <3>11. EnabledSecretIsProved'
        BY <3>2 DEF EnabledSecretIsProved
      <3> QED BY <1>0, <3>1, <3>6, <3>8, <3>9, <3>10, <3>11 DEF IInv, LastPasswordHolds
    <2> QED BY <1>14, <2>1, <2>2 DEF Enroll
  <1>15. ASSUME NEW h \in Handlers, LoadForConfirm(h) PROVE IInv'
    <2> DEFINE r == [Idle EXCEPT !.at = "confirm", !.secret = mfa.secret]
    <2>1. r \in Requests /\ r.at = "confirm" /\ ~r.legacy /\ r.secret = mfa.secret
      BY <1>0, IdleTyped DEF Idle, Requests, Places, RowOK
    <2>2. Become(h, r) /\ RowOK' /\ UNCHANGED <<row, history>> /\ mfa.secret # NoSecret
      BY <1>0, <1>15 DEF LoadForConfirm, RowOK, row, history
    <2> HIDE DEF r
    <2> QED BY <2>1, <2>2, Plain DEF row, history
  <1>16. ASSUME NEW h \in Handlers, Confirm(h) PROVE IInv'
    <2>1. CASE UNCHANGED <<mfa, proof>>
      <3>1. RowOK'
        BY <1>0, <1>16, <2>1 DEF Confirm, RowOK
      <3> QED BY <1>16, <1>d, <2>1, <3>1 DEF Confirm
    <2>2. CASE /\ ~mfa.enabled /\ mfa.secret = request[h].secret
               /\ mfa' = [mfa EXCEPT !.enabled = TRUE] /\ proof' = request[h].secret
      <3>1. /\ Become(h, Idle) /\ At(h, "confirm")
            /\ UNCHANGED <<failed, lock, hash, enrolled, chosen, guesses, uses, crossed>>
        BY <1>16 DEF Confirm, Done
      <3>2. mfa'.enabled /\ mfa'.secret = mfa.secret /\ mfa'.codes = mfa.codes
        BY <1>0, <2>2 DEF RowOK
      <3>3. /\ request' \in [Handlers -> Requests] /\ request'[h] = Idle
            /\ \A g \in Handlers : g # h => request'[g] = request[g]
        BY <1>0, <1>i, <3>1, BecomeTyped
      <3>4. RowOK'
        BY <1>0, <2>2, <3>1, <3>2 DEF RowOK
      <3>5. TypeOK'
        BY <3>3, <3>4, TypesThen
      <3>6. \A g \in Handlers : KnowledgeOK(g)'
        BY <1>0, <1>i, <3>1, <3>2, <3>3 DEF KnowledgeOK, At, Code
      <3>7. CodesOK'
        BY <1>0, <1>i, <3>1, <3>2, <3>3 DEF CodesOK, At
      <3>8. CodesWorkOnce' /\ LastPasswordHolds'
        BY <1>0, <3>1, <3>2 DEF CodesWorkOnce, LastPasswordHolds
      <3>9. mfa.secret # NoSecret
        BY <1>0, <2>2, <3>1 DEF KnowledgeOK
      <3>10. EnabledSecretIsProved'
        BY <2>2, <3>2, <3>9 DEF EnabledSecretIsProved
      <3> QED BY <1>0, <3>1, <3>5, <3>6, <3>7, <3>8, <3>10 DEF IInv
    <2> QED BY <1>16, <2>1, <2>2 DEF Confirm
  <1>17. ASSUME NEW h \in Handlers, Abandon(h) PROVE IInv'
    <2>1. RowOK'
      BY <1>0, <1>17 DEF Abandon, RowOK, row, history
    <2> QED BY <1>17, <1>d, <2>1 DEF Abandon, row, history
  <1>18. ASSUME UNCHANGED vars PROVE IInv'
    <2>1. RowOK'
      BY <1>0, <1>18 DEF RowOK, vars, row, history
    <2> QED BY <1>0, <1>18, <2>1, TypesThen
            DEF vars, row, history, IInv, KnowledgeOK, At, Code, CodesOK, EnabledSecretIsProved,
                CodesWorkOnce, LastPasswordHolds
  <1> QED
    BY <1>1, <1>2, <1>3, <1>4, <1>5, <1>6, <1>7, <1>8, <1>9, <1>10, <1>11, <1>12, <1>13, <1>14,
       <1>15, <1>16, <1>17, <1>18 DEF Next

LEMMA Invariance == Spec => []IInv
  BY InitInv, StepInv, PTL DEF Spec

\* The row, the requests and the history have their types, for any number of
\* handlers and any bounds (app/routers/auth.py:60-236).
THEOREM LoginTyping == Spec => []TypeOK
  BY Invariance, PTL DEF IInv

\* A second factor that is asked for is one whose secret the user has shown to
\* work, however enrolments and confirmations interleave (auth.py:212-236).
THEOREM ProvedSecret == Spec => []EnabledSecretIsProved
  BY Invariance, PTL DEF IInv

\* Recovery codes are those of the stored secret, and each works once, unless
\* two logins used codes at the same time (auth.py:104-123).
THEOREM CodesOnce == Spec => []CodesWorkOnce
  BY Invariance, PTL DEF IInv

\* The password that verifies is the last one set, or the first one, written
\* back once by a login that upgrades its hash (auth.py:126-129).
THEOREM LastPassword == Spec => []LastPasswordHolds
  BY Invariance, PTL DEF IInv

-----------------------------------------------------------------------------
(* How many failures two handlers can lose.                                *)

\* What h will count from: what it has loaded, or what it would load.
Seen(h) == IF At(h, "wrong") THEN request[h].failed ELSE failed

Triangle(n) == (n * (n + 1)) \div 2

\* Both count from low or more; at least one, and a handler that has loaded
\* nothing, from high or more.  A failure either raises high by one, or raises
\* low, and then high may start again from it.
Rounds(low, high) ==
  /\ low <= failed /\ high <= failed
  /\ \A h \in Handlers : low <= Seen(h)
  /\ \E h \in Handlers : high <= Seen(h)
  /\ guesses + (MaxFailed - high) + Triangle(MaxFailed - 1 - low) <= Triangle(MaxFailed)

AttemptsInv ==
  \A g, h \in Handlers : Handlers = {g, h} => \E low, high \in 0..(MaxFailed - 1) : Rounds(low, high)

LEMMA HalfOfDouble == ASSUME NEW n \in Int, NEW k \in Int PROVE (n + 2 * k) \div 2 = (n \div 2) + k
  OBVIOUS

LEMMA TriangleNat == ASSUME NEW n \in Nat PROVE Triangle(n) \in Nat
  <1>1. PICK p \in Nat : p = n * (n + 1)
    OBVIOUS
  <1>2. p \div 2 \in Nat
    OBVIOUS
  <1> QED BY <1>1, <1>2 DEF Triangle

LEMMA TriangleStep == ASSUME NEW n \in Nat PROVE Triangle(n + 1) = Triangle(n) + n + 1
  <1>1. PICK p \in Int : p = n * (n + 1)
    OBVIOUS
  <1>2. (n + 1) * ((n + 1) + 1) = p + 2 * (n + 1)
    BY <1>1
  <1>3. (p + 2 * (n + 1)) \div 2 = (p \div 2) + (n + 1)
    BY HalfOfDouble
  <1>4. Triangle(n + 1) = (p + 2 * (n + 1)) \div 2 /\ Triangle(n) = p \div 2
    BY <1>1, <1>2 DEF Triangle
  <1>5. p \div 2 \in Int
    OBVIOUS
  <1> QED BY <1>3, <1>4, <1>5

LEMMA TriangleGrows ==
  ASSUME NEW m \in Nat, NEW n \in Nat, m <= n
  PROVE  Triangle(m) <= Triangle(n)
  <1>1. PICK p \in Nat, q \in Nat : p = m * (m + 1) /\ q = n * (n + 1)
    OBVIOUS
  <1>2. p <= q
    BY <1>1
  <1>3. p \div 2 <= q \div 2
    BY <1>2
  <1> QED BY <1>1, <1>3 DEF Triangle

\* Before the first failure all rounds are left.
LEMMA AllRounds == 0 + (MaxFailed - 0) + Triangle(MaxFailed - 1 - 0) <= Triangle(MaxFailed)
  <1>1. PICK n \in Nat : n + 1 = MaxFailed
    OBVIOUS
  <1>2. Triangle(n + 1) = Triangle(n) + n + 1 /\ Triangle(n) \in Nat
    BY TriangleStep, TriangleNat
  <1>3. MaxFailed - 1 - 0 = n
    BY <1>1
  <1> QED BY <1>1, <1>2, <1>3

\* What every handler counts from is a number.
LEMMA SeenNat == ASSUME IInv PROVE \A h \in Handlers : Seen(h) \in Nat
  BY TypeParts DEF IInv, RowOK, Requests, Seen

LEMMA AttemptsInit == Init => AttemptsInv
  <1> SUFFICES ASSUME Init PROVE AttemptsInv
    OBVIOUS
  <1>1. failed = 0 /\ guesses = 0 /\ \A h \in Handlers : Seen(h) = 0
    BY DEF Init, Seen, At, Idle
  <1>2. ASSUME NEW h \in Handlers PROVE Rounds(0, 0)
    BY <1>1, AllRounds DEF Rounds
  <1>3. 0 \in 0..(MaxFailed - 1)
    OBVIOUS
  <1> QED BY <1>2, <1>3 DEF AttemptsInv

\* A step after which h has loaded nothing that it will count from, and which
\* counts nothing: it may only have given up what it had loaded.
LEMMA AttemptsStay ==
  ASSUME IInv, AttemptsInv, NEW h \in Handlers, NEW r, Become(h, r), UNCHANGED <<failed, guesses>>,
         r.at = "wrong" => r.failed = failed
  PROVE  AttemptsInv'
  <1>1. request'[h] = r /\ \A g \in Handlers : g # h => request'[g] = request[g]
    BY TypeParts DEF IInv, Become
  <1>2. Seen(h)' = failed /\ \A g \in Handlers : g # h => Seen(g)' = Seen(g)
    BY <1>1 DEF Seen, At
  <1>3. ASSUME NEW low \in 0..(MaxFailed - 1), NEW high \in 0..(MaxFailed - 1), Rounds(low, high)
        PROVE  Rounds(low, high)'
    BY <1>2, <1>3 DEF Rounds
  <1> QED BY <1>3 DEF AttemptsInv

LEMMA AttemptsCount ==
  ASSUME IInv, AttemptsInv, NEW h \in Handlers, CountFailure(h)
  PROVE  AttemptsInv'
  <1>0. /\ request' = [request EXCEPT ![h] = Idle] /\ request \in [Handlers -> Requests]
        /\ failed \in Nat /\ guesses \in Nat /\ Seen(h) = request[h].failed /\ Seen(h) \in Nat
        /\ failed' = Seen(h) + 1 /\ \A g \in Handlers : Seen(g) \in Nat
    BY TypeParts, SeenNat DEF IInv, RowOK, CountFailure, Done, Become, Seen
  <1>1. Seen(h)' = failed' /\ \A g \in Handlers : g # h => Seen(g)' = IF At(g, "wrong") THEN Seen(g) ELSE failed'
    BY <1>0, IdleTyped DEF Seen, At
  <1>2. CASE Seen(h) + 1 >= MaxFailed
    <2>1. guesses' = 0 /\ failed' \in Nat
      BY <1>0, <1>2 DEF CountFailure
    <2>2. \A g \in Handlers : Seen(g)' \in Nat
      BY <1>0, <1>1
    <2>3. Rounds(0, 0)' /\ 0 \in 0..(MaxFailed - 1)
      BY <2>1, <2>2, AllRounds DEF Rounds
    <2> QED BY <2>3 DEF AttemptsInv
  <1>3. CASE Seen(h) + 1 < MaxFailed
    <2> SUFFICES ASSUME NEW a \in Handlers, NEW b \in Handlers, Handlers = {a, b}
                 PROVE  \E low, high \in 0..(MaxFailed - 1) : Rounds(low, high)'
      BY DEF AttemptsInv
    <2>1. PICK low \in 0..(MaxFailed - 1), high \in 0..(MaxFailed - 1) : Rounds(low, high)
      BY DEF AttemptsInv
    <2>2. guesses' = guesses + 1
      BY <1>0, <1>3 DEF CountFailure
    <2>3. /\ Triangle(MaxFailed - 1 - low) \in Nat /\ Triangle(MaxFailed) \in Nat
          /\ MaxFailed - 1 - low \in Nat
      BY TriangleNat
    <2>4. CASE \A g \in Handlers : g # h /\ At(g, "wrong") => Seen(g) >= Seen(h) + 1
      <3>1. PICK n \in Nat : n = MaxFailed - 2 - Seen(h)
        BY <1>0, <1>3
      <3>2. Triangle(n + 1) = Triangle(n) + n + 1 /\ Triangle(n) \in Nat
        BY TriangleStep, TriangleNat
      <3>3. n + 1 <= MaxFailed - 1 - low
        BY <1>0, <2>1, <3>1 DEF Rounds
      <3>4. Triangle(n + 1) <= Triangle(MaxFailed - 1 - low)
        BY <2>3, <3>3, TriangleGrows
      <3>5. MaxFailed - 1 - (Seen(h) + 1) = n
        BY <1>0, <3>1
      <3>6. PICK m \in 0..(MaxFailed - 1) : m = Seen(h) + 1
        BY <1>0, <1>3
      <3>7. /\ \A g \in Handlers : Seen(h) + 1 <= Seen(g)'
            /\ \E g \in Handlers : Seen(h) + 1 <= Seen(g)'
        BY <1>0, <1>1, <2>4
      <3>8. (guesses + 1) + (MaxFailed - (Seen(h) + 1)) + Triangle(n) <= Triangle(MaxFailed)
        <4>1. guesses + (MaxFailed - high) + Triangle(MaxFailed - 1 - low) <= Triangle(MaxFailed)
          BY <2>1 DEF Rounds
        <4>2. MaxFailed - (Seen(h) + 1) = n + 1 /\ MaxFailed - high >= 1
          BY <1>0, <3>1
        <4> QED BY <1>0, <2>3, <3>2, <3>4, <4>1, <4>2
      <3>9. Rounds(m, m)'
        BY <1>0, <2>2, <3>5, <3>6, <3>7, <3>8 DEF Rounds
      <3> QED BY <3>6, <3>9
    <2>5. CASE \E g \in Handlers : g # h /\ At(g, "wrong") /\ Seen(g) <= Seen(h)
      <3>1. PICK g \in Handlers : g # h /\ At(g, "wrong") /\ Seen(g) <= Seen(h)
        BY <2>5
      <3>2. Handlers = {g, h}
        BY <3>1
      <3>3. high <= Seen(h) /\ low <= Seen(h) /\ low <= Seen(g)
        BY <1>0, <2>1, <3>1, <3>2 DEF Rounds
      <3>4. PICK m \in 0..(MaxFailed - 1) : m = Seen(h) + 1
        BY <1>0, <1>3
      <3>5. (\A f \in Handlers : low <= Seen(f)') /\ (\E f \in Handlers : Seen(h) + 1 <= Seen(f)')
            /\ low <= failed'
        BY <1>0, <1>1, <3>1, <3>2, <3>3
      <3>6. guesses + (MaxFailed - high) + Triangle(MaxFailed - 1 - low) <= Triangle(MaxFailed)
        BY <2>1 DEF Rounds
      <3>7. (guesses + 1) + (MaxFailed - (Seen(h) + 1)) + Triangle(MaxFailed - 1 - low) <= Triangle(MaxFailed)
        BY <1>0, <2>3, <3>3, <3>6
      <3>8. Rounds(low, m)'
        BY <1>0, <2>2, <3>4, <3>5, <3>7 DEF Rounds
      <3> QED BY <3>4, <3>8
    <2> QED BY <1>0, <2>4, <2>5
  <1> QED BY <1>0, <1>2, <1>3

LEMMA AttemptsIssue ==
  ASSUME IInv, AttemptsInv, NEW h \in Handlers, Issue(h)
  PROVE  AttemptsInv'
  <1>0. /\ request' = [request EXCEPT ![h] = Idle] /\ request \in [Handlers -> Requests]
        /\ guesses' = 0 /\ failed' \in Nat /\ \A g \in Handlers : Seen(g) \in Nat
    BY TypeParts, SeenNat DEF IInv, RowOK, Issue, Done, Become
  <1>1. \A g \in Handlers : Seen(g)' \in Nat
    BY <1>0, IdleTyped DEF Seen, At
  <1>2. Rounds(0, 0)' /\ 0 \in 0..(MaxFailed - 1)
    BY <1>0, <1>1, AllRounds DEF Rounds
  <1> QED BY <1>2 DEF AttemptsInv

LEMMA AttemptsStep == IInv /\ AttemptsInv /\ [Next]_vars => AttemptsInv'
  <1> SUFFICES ASSUME IInv, AttemptsInv, [Next]_vars PROVE AttemptsInv'
    OBVIOUS
  <1>1. CASE Expire \/ UNCHANGED vars
    BY <1>1 DEF Expire, vars, row, history, AttemptsInv, Rounds, Seen, At
  <1>2. ASSUME NEW h \in Handlers, Done(h), UNCHANGED <<failed, guesses>> PROVE AttemptsInv'
    BY <1>2, IdleTyped, AttemptsStay DEF Done
  <1>3. ASSUME NEW h \in Handlers,
               \/ ChangePassword(h) \/ Enroll(h) \/ Confirm(h) \/ Abandon(h)
        PROVE  AttemptsInv'
    BY <1>2, <1>3 DEF ChangePassword, Enroll, Confirm, Abandon, row, history
  <1>4. ASSUME NEW h \in Handlers, WrongPassword(h) PROVE AttemptsInv'
    <2>1. PICK r : r = [Idle EXCEPT !.at = "wrong", !.failed = failed]
      OBVIOUS
    <2>2. Become(h, r) /\ UNCHANGED <<failed, guesses>>
      BY <1>4, <2>1 DEF WrongPassword, row, history
    <2>3. r.failed = failed
      BY <2>1 DEF Idle
    <2> QED BY <2>2, <2>3, AttemptsStay
  <1>5. ASSUME NEW h \in Handlers,
               \/ RightPassword(h) \/ RecoveryCode(h) \/ RecordLogin(h) \/ LoadForIssue(h)
               \/ LoadForChange(h) \/ LoadForEnroll(h) \/ LoadForConfirm(h)
        PROVE  AttemptsInv'
    <2>1. PICK r : Become(h, r) /\ r.at # "wrong"
      <3>1. CASE RightPassword(h)
        <4>1. [Idle EXCEPT !.at = "pass", !.typed = hash.password, !.legacy = hash.legacy].at # "wrong"
          BY DEF Idle
        <4> QED BY <3>1, <4>1 DEF RightPassword
      <3>2. CASE RecoveryCode(h)
        <4>1. PICK c : Become(h, [Idle EXCEPT !.at = "recover", !.typed = hash.password, !.secret = c.secret,
                                              !.code = c.number, !.left = mfa.codes \ {c}])
          BY <3>2 DEF RecoveryCode
        <4>2. [Idle EXCEPT !.at = "recover", !.typed = hash.password, !.secret = c.secret,
                           !.code = c.number, !.left = mfa.codes \ {c}].at # "wrong"
          BY DEF Idle
        <4> QED BY <4>1, <4>2
      <3>3. CASE RecordLogin(h)
        BY <3>3 DEF RecordLogin, Idle
      <3>4. CASE LoadForIssue(h)
        <4>1. [Idle EXCEPT !.at = "clear", !.failed = failed, !.lock = lock].at # "wrong"
          BY DEF Idle
        <4> QED BY <3>4, <4>1 DEF LoadForIssue
      <3>5. CASE LoadForChange(h)
        BY <3>5 DEF LoadForChange, Idle
      <3>6. CASE LoadForEnroll(h)
        <4>1. [Idle EXCEPT !.at = "enroll", !.secret = mfa.secret].at # "wrong"
          BY DEF Idle
        <4> QED BY <3>6, <4>1 DEF LoadForEnroll
      <3>7. CASE LoadForConfirm(h)
        <4>1. [Idle EXCEPT !.at = "confirm", !.secret = mfa.secret].at # "wrong"
          BY DEF Idle
        <4> QED BY <3>7, <4>1 DEF LoadForConfirm
      <3> QED BY <1>5, <3>1, <3>2, <3>3, <3>4, <3>5, <3>6, <3>7
    <2>2. UNCHANGED <<failed, guesses>>
      BY <1>5
         DEF RightPassword, RecoveryCode, RecordLogin, LoadForIssue, LoadForChange, LoadForEnroll,
             LoadForConfirm, row, history
    <2> QED BY <2>1, <2>2, AttemptsStay
  <1>6. ASSUME NEW h \in Handlers, SpendCode(h) \/ Reload(h) PROVE AttemptsInv'
    <2>1. request[h] \in Requests
      BY TypeParts DEF IInv
    <2>2. PICK r : Become(h, r) /\ r.at # "wrong"
      <3>1. CASE SpendCode(h)
        <4>1. [request[h] EXCEPT !.at = "reload", !.secret = NoSecret, !.code = 0, !.left = {}].at # "wrong"
          BY <2>1 DEF Requests
        <4> QED BY <3>1, <4>1 DEF SpendCode
      <3>2. CASE Reload(h)
        <4>1. [request[h] EXCEPT !.at = "pass", !.legacy = hash.legacy].at # "wrong"
          BY <2>1 DEF Requests
        <4> QED BY <3>2, <4>1 DEF Reload
      <3> QED BY <1>6, <3>1, <3>2
    <2>3. UNCHANGED <<failed, guesses>>
      BY <1>6 DEF SpendCode, Reload, row, history
    <2> QED BY <2>2, <2>3, AttemptsStay
  <1> QED BY <1>1, <1>3, <1>4, <1>5, <1>6, AttemptsCount, AttemptsIssue DEF Next

\* Whatever two handlers lose of each other's increments, a password can be
\* guessed at most MaxFailed * (MaxFailed + 1) / 2 - 1 times before the lock
\* (auth.py:79-96).
THEOREM AttemptsBounded == Spec => []AttemptsAreBounded
  <1>1. IInv /\ AttemptsInv => AttemptsAreBounded
    <2> SUFFICES ASSUME IInv, AttemptsInv, NEW g \in Handlers, NEW h \in Handlers, Handlers = {g, h}
                 PROVE  guesses < Triangle(MaxFailed)
      BY DEF AttemptsAreBounded, Triangle
    <2>1. PICK low \in 0..(MaxFailed - 1), high \in 0..(MaxFailed - 1) : Rounds(low, high)
      BY DEF AttemptsInv
    <2>2. /\ Triangle(MaxFailed - 1 - low) \in Nat /\ Triangle(MaxFailed) \in Nat
      BY TriangleNat
    <2> QED BY <2>1, <2>2, TypeParts DEF Rounds, IInv, RowOK
  <1> QED BY Invariance, AttemptsInit, AttemptsStep, <1>1, PTL DEF Spec

-----------------------------------------------------------------------------
(* Requests that do not overlap.                                           *)

OneHandler == \E h : Handlers = {h}

\* "Each works once" (auth.py:239) without exception, if requests do not
\* overlap.
THEOREM SerialCodes ==
  ASSUME OneHandler
  PROVE  Spec => [](\A c \in Codes : uses[c] <= 1 /\ (c \in mfa.codes => uses[c] = 0))
  <1> PICK h : Handlers = {h}
    BY DEF OneHandler
  <1>1. Init => ~crossed
    BY DEF Init
  <1>2. ASSUME ~crossed, [Next]_vars PROVE ~crossed'
    <2>1. CASE RecoveryCode(h)
      BY <1>2, <2>1 DEF RecoveryCode
    <2>2. CASE UNCHANGED crossed
      BY <1>2, <2>2
    <2>3. RecoveryCode(h) \/ UNCHANGED crossed
      BY <1>2 DEF Next, vars, row, history, Expire, WrongPassword, CountFailure, RightPassword, SpendCode, Reload,
         RecordLogin, LoadForIssue, Issue, LoadForChange, ChangePassword, LoadForEnroll, Enroll,
         LoadForConfirm, Confirm, Abandon
    <2> QED BY <2>1, <2>2, <2>3
  <1>3. IInv /\ ~crossed => \A c \in Codes : uses[c] <= 1 /\ (c \in mfa.codes => uses[c] = 0)
    BY DEF IInv, CodesWorkOnce
  <1> QED BY <1>1, <1>2, <1>3, Invariance, PTL DEF Spec
=============================================================================
