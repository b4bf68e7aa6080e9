---------------------------- MODULE RateLimiter ----------------------------
(***************************************************************************)
(* The token-bucket limiter (app/security/ratelimit.py) that threads of    *)
(* one process share: one for every request (app/deps.py:32) and one for   *)
(* logins (app/routers/auth.py:73).                                        *)
(*                                                                         *)
(* A token is divided into the units that flow back in one tick of the     *)
(* clock: Capacity is the window in ticks, Cost what one call takes.  A    *)
(* thread reads the clock before it takes the lock, so the readings reach  *)
(* the bucket in any order.                                                *)
(***************************************************************************)
EXTENDS Integers

CONSTANTS
  Threads,     \* the threads that serve requests
  Identities,  \* the clients
  Capacity,    \* units a full bucket holds
  Cost,        \* units one call takes
  MaxClock     \* bound on the clock

ASSUME LimiterAssumption == Capacity \in Nat /\ Cost \in Nat /\ Cost <= Capacity /\ MaxClock \in Nat

VARIABLES
  clock,    \* time.monotonic()
  known,    \* the identities with a bucket
  buckets,  \* [tokens, updated]
  calls,    \* what each thread is about to check: [busy, identity, now]
  ledger    \* history, for each identity: see Account

limiterVars == <<clock, known, buckets, calls, ledger>>

\* Units admitted since two moments: an arbitrary one (since, spent) and the
\* last time the bucket was full (fullAt, spentFromFull); the latest reading
\* of the clock used; and whether the last call was refused.
Account == [since : Nat, spent : Nat, fullAt : Nat, spentFromFull : Nat,
            latest : Nat, refused : BOOLEAN]

LimiterTypeOK ==
  /\ clock \in Nat
  /\ known \subseteq Identities
  /\ buckets \in [Identities -> [tokens : Int, updated : Nat]]
  /\ calls \in [Threads -> [busy : BOOLEAN, identity : Identities, now : Nat]]
  /\ ledger \in [Identities -> Account]

LimiterInit ==
  /\ clock = 0
  /\ known = {}
  /\ buckets = [i \in Identities |-> [tokens |-> Capacity, updated |-> 0]]
  /\ \E i \in Identities : calls = [t \in Threads |-> [busy |-> FALSE, identity |-> i, now |-> 0]]
  /\ ledger = [i \in Identities |-> [since |-> 0, spent |-> 0, fullAt |-> 0,
                                     spentFromFull |-> 0, latest |-> 0, refused |-> FALSE]]

-----------------------------------------------------------------------------
Tick ==
  /\ clock < MaxClock /\ clock' = clock + 1
  /\ UNCHANGED <<known, buckets, calls, ledger>>

\* check: the clock is read outside the lock.
ReadClock(t) ==
  /\ ~calls[t].busy
  /\ \E i \in Identities : calls' = [calls EXCEPT ![t] = [busy |-> TRUE, identity |-> i, now |-> clock]]
  /\ UNCHANGED <<clock, known, buckets, ledger>>

\* The bucket a call finds, or makes, at its reading of the clock.
BucketAt(i, now) ==
  IF i \in known THEN buckets[i] ELSE [tokens |-> Capacity, updated |-> now]

\* Mutant of Level: the bucket has no rim.
LevelUncapped(bucket, now) == bucket.tokens + (now - bucket.updated)

\* Mutant of Level: only whole tokens flow back.
LevelWhole(bucket, now) ==
  LET level == bucket.tokens + ((now - bucket.updated) \div Cost) * Cost IN
  IF level <= Capacity THEN level ELSE Capacity

\* What is in the bucket at a reading, which may be before the last update.
Level(bucket, now) ==
  LET level == bucket.tokens + (now - bucket.updated) IN
  IF level <= Capacity THEN level ELSE Capacity

\* The ledger's side of a check.
Booked(account, level, now, new) ==
  LET taken == IF level >= Cost THEN Cost ELSE 0 IN
  [since |-> IF new THEN now ELSE account.since,
   spent |-> account.spent + taken,
   fullAt |-> IF level = Capacity THEN now ELSE account.fullAt,
   spentFromFull |-> IF level = Capacity THEN taken ELSE account.spentFromFull + taken,
   latest |-> IF new \/ now > account.latest THEN now ELSE account.latest,
   refused |-> level < Cost]

\* check: what follows happens under the lock.
Check(t) ==
  LET i == calls[t].identity
      now == calls[t].now
      level == Level(BucketAt(i, now), now)
  IN
  /\ calls[t].busy
  /\ known' = known \cup {i}
  /\ buckets' = [buckets EXCEPT ![i] = [tokens |-> IF level >= Cost THEN level - Cost ELSE level,
                                        updated |-> now]]
  /\ ledger' = [ledger EXCEPT ![i] = Booked(ledger[i], level, now, i \notin known)]
  /\ calls' = [calls EXCEPT ![t].busy = FALSE]
  /\ UNCHANGED clock

\* Not a step of the program: the ledger starts to count from the last update.
Mark(i) ==
  /\ i \in known
  /\ ledger' = [ledger EXCEPT ![i].since = buckets[i].updated, ![i].spent = 0]
  /\ UNCHANGED <<clock, known, buckets, calls>>

LimiterNext ==
  \/ Tick
  \/ \E t \in Threads : ReadClock(t) \/ Check(t)
  \/ \E i \in Identities : Mark(i)

LimiterSpec == LimiterInit /\ [][LimiterNext]_limiterVars

-----------------------------------------------------------------------------
\* Whatever the order in which threads get the lock, from any update of a
\* bucket on an identity is admitted for at most one full bucket and what
\* has flowed back by the latest reading of the clock that was used.
AllowanceBound ==
  \A i \in known : ledger[i].spent <= Capacity + (ledger[i].latest - ledger[i].since)

\* A call is refused only where what was admitted since the bucket was last
\* full leaves less than one call's cost: no refill is lost, also when a
\* late thread sets the bucket's time back.
NeverRefusedEarly ==
  \A i \in known : LET a == ledger[i] IN
    a.refused => a.spentFromFull + Cost > Capacity + (buckets[i].updated - a.fullAt)

-----------------------------------------------------------------------------
(* The inductive invariant.  What is in a bucket, less its time, plus what *)
(* was spent, never grows; a bucket set back in time is whole again at the *)
(* latest reading; and the bucket is exactly what flowed back since it was *)
(* full, less what was spent.                                              *)

Settled(b, a) ==
  /\ b.tokens - b.updated + a.spent <= Capacity - a.since
  /\ b.tokens + (a.latest - b.updated) >= 0
  /\ b.updated <= a.latest
  /\ b.tokens <= Capacity
  /\ b.tokens = Capacity + (b.updated - a.fullAt) - a.spentFromFull
  /\ a.refused => b.tokens < Cost

Solvent == \A i \in known : Settled(buckets[i], ledger[i])

LimiterInv == LimiterTypeOK /\ Solvent
=============================================================================
