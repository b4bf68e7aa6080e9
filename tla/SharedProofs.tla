---------------------------- MODULE SharedProofs ----------------------------
(***************************************************************************)
(* Proofs about the objects the threads of a process share, the rate       *)
(* limiter, the anomaly model and the GeoIP reader, for any number of      *)
(* threads, identities, events and rows, any capacity and any cost.        *)
(***************************************************************************)
EXTENDS RateLimiter, AnomalyModel, GeoReaders, TLAPS

-----------------------------------------------------------------------------
(* The rate limiter keeps its allowance and refuses nobody early.          *)

\* What one check does to a settled bucket and its account, at any reading
\* of the clock, before or after the last one.
LEMMA CheckSettles ==
  ASSUME NEW b \in [tokens : Int, updated : Nat], NEW a \in Account, NEW now \in Nat,
         Settled(b, a)
  PROVE  LET level == Level(b, now)
             after == [tokens |-> IF level >= Cost THEN level - Cost ELSE level, updated |-> now]
         IN Settled(after, Booked(a, level, now, FALSE))
<1> DEFINE level == Level(b, now)
           booked == Booked(a, level, now, FALSE)
           after == [tokens |-> IF level >= Cost THEN level - Cost ELSE level, updated |-> now]
           taken == IF level >= Cost THEN Cost ELSE 0
           latest == IF now > a.latest THEN now ELSE a.latest
<1>1. /\ level \in Int /\ level <= Capacity
      /\ level = b.tokens + (now - b.updated) \/ level = Capacity
      /\ level <= b.tokens + (now - b.updated)
  BY LimiterAssumption DEF Level
<1>2. /\ taken \in Nat
      /\ after.tokens = level - taken
      /\ after.updated = now
      /\ level < Cost => taken = 0
      /\ taken # 0 => level - taken >= 0
  BY <1>1, LimiterAssumption
<1>3. /\ booked.since = a.since
      /\ booked.spent = a.spent + taken
      /\ booked.latest = latest
      /\ booked.refused <=> level < Cost
      /\ level = Capacity => booked.fullAt = now /\ booked.spentFromFull = taken
      /\ level # Capacity => /\ booked.fullAt = a.fullAt
                             /\ booked.spentFromFull = a.spentFromFull + taken
  BY DEF Booked
<1>4. /\ a.since \in Nat /\ a.spent \in Nat /\ a.latest \in Nat /\ a.fullAt \in Nat
      /\ a.spentFromFull \in Nat /\ b.tokens \in Int /\ b.updated \in Nat
      /\ latest \in Nat /\ latest >= now /\ latest >= a.latest
  BY DEF Account
<1> HIDE DEF level, booked, after, taken, latest
<1>5. after.tokens - after.updated + booked.spent <= Capacity - booked.since
  BY <1>1, <1>2, <1>3, <1>4, LimiterAssumption DEF Settled
<1>6. after.tokens + (booked.latest - after.updated) >= 0
  <2>1. b.tokens + (latest - b.updated) >= 0
    BY <1>4 DEF Settled
  <2>2. level + (latest - now) >= 0
    BY <1>1, <1>4, <2>1, LimiterAssumption
  <2> QED
    BY <1>1, <1>2, <1>3, <1>4, <2>2
<1>7. after.updated <= booked.latest /\ after.tokens <= Capacity
  BY <1>1, <1>2, <1>3, <1>4, LimiterAssumption
<1>8. after.tokens = Capacity + (after.updated - booked.fullAt) - booked.spentFromFull
  <2>1. CASE level = Capacity
    BY <1>2, <1>3, <2>1, LimiterAssumption
  <2>2. CASE level # Capacity
    <3>1. b.tokens = Capacity + (b.updated - a.fullAt) - a.spentFromFull
      BY DEF Settled
    <3>2. level = b.tokens + (now - b.updated)
      BY <1>1, <2>2
    <3>3. booked.fullAt = a.fullAt /\ booked.spentFromFull = a.spentFromFull + taken
      BY <1>3, <2>2
    <3> QED
      BY <1>2, <1>4, <3>1, <3>2, <3>3, LimiterAssumption
  <2> QED
    BY <2>1, <2>2
<1>9. booked.refused => after.tokens < Cost
  BY <1>1, <1>2, <1>3, LimiterAssumption
<1>10. Settled(after, booked)
  BY <1>5, <1>6, <1>7, <1>8, <1>9 DEF Settled
<1> QED
  BY <1>10 DEF level, booked, after

\* The first check of an identity makes a settled bucket.
LEMMA NewBucketSettles ==
  ASSUME NEW a \in Account, NEW now \in Nat, a.spent = 0
  PROVE  Settled([tokens |-> Capacity - Cost, updated |-> now], Booked(a, Capacity, now, TRUE))
<1> DEFINE b == [tokens |-> Capacity - Cost, updated |-> now]
           booked == Booked(a, Capacity, now, TRUE)
<1>1. b.tokens = Capacity - Cost /\ b.updated = now
  OBVIOUS
<1>2. /\ booked.since = now /\ booked.spent = Cost /\ booked.latest = now
      /\ booked.fullAt = now /\ booked.spentFromFull = Cost
  BY LimiterAssumption DEF Booked
<1>3. ~booked.refused
  <2>1. booked.refused = (Capacity < Cost)
    BY DEF Booked
  <2>2. ~(Capacity < Cost)
    BY LimiterAssumption
  <2> QED
    BY <2>1, <2>2, Zenon
<1> HIDE DEF b, booked
<1>4. Settled(b, booked)
  BY <1>1, <1>2, <1>3, LimiterAssumption DEF Settled
<1> QED
  BY <1>4 DEF b, booked

\* A check's books keep their types.
LEMMA BookedType ==
  ASSUME NEW a \in Account, NEW now \in Nat, NEW level \in Int, NEW new \in BOOLEAN
  PROVE  Booked(a, level, now, new) \in Account
BY LimiterAssumption DEF Booked, Account

\* An identity without a bucket has nothing on its account.
Unspent == \A i \in Identities \ known : ledger[i].spent = 0

LEMMA InvInit == LimiterInit => LimiterInv /\ Unspent
<1> SUFFICES ASSUME LimiterInit PROVE LimiterInv /\ Unspent
  OBVIOUS
<1>1. buckets \in [Identities -> [tokens : Int, updated : Nat]]
  BY LimiterAssumption DEF LimiterInit
<1>2. ledger \in [Identities -> Account]
  BY DEF LimiterInit, Account
<1>3. calls \in [Threads -> [busy : BOOLEAN, identity : Identities, now : Nat]]
  BY DEF LimiterInit
<1> QED
  BY <1>1, <1>2, <1>3 DEF LimiterInit, LimiterInv, LimiterTypeOK, Solvent, Unspent

LEMMA InvNext == LimiterInv /\ Unspent /\ [LimiterNext]_limiterVars => LimiterInv' /\ Unspent'
<1> SUFFICES ASSUME LimiterInv, Unspent, [LimiterNext]_limiterVars
             PROVE  LimiterInv' /\ Unspent'
  OBVIOUS
<1> USE DEF LimiterInv
<1>1. CASE Tick
  BY <1>1 DEF Tick, LimiterTypeOK, Solvent, Unspent
<1>2. ASSUME NEW t \in Threads, ReadClock(t) PROVE LimiterInv' /\ Unspent'
  <2>1. PICK i \in Identities : calls' = [calls EXCEPT ![t] = [busy |-> TRUE, identity |-> i, now |-> clock]]
    BY <1>2 DEF ReadClock
  <2>2. calls' \in [Threads -> [busy : BOOLEAN, identity : Identities, now : Nat]]
    BY <2>1 DEF LimiterTypeOK
  <2> QED
    BY <1>2, <2>2 DEF ReadClock, LimiterTypeOK, Solvent, Unspent
<1>3. ASSUME NEW t \in Threads, Check(t) PROVE LimiterInv' /\ Unspent'
  <2> DEFINE i == calls[t].identity
             now == calls[t].now
             b == BucketAt(i, now)
             level == Level(b, now)
             after == [tokens |-> IF level >= Cost THEN level - Cost ELSE level, updated |-> now]
             booked == Booked(ledger[i], level, now, i \notin known)
  <2>1. i \in Identities /\ now \in Nat /\ ledger[i] \in Account
    BY DEF LimiterTypeOK
  <2>2. b \in [tokens : Int, updated : Nat]
    BY <2>1, LimiterAssumption DEF BucketAt, LimiterTypeOK
  <2>3. level \in Int
    BY <2>1, <2>2, LimiterAssumption DEF Level
  <2>4. after \in [tokens : Int, updated : Nat] /\ booked \in Account
    <3>1. booked \in Account
      BY <2>1, <2>3, BookedType
    <3>2. (IF level >= Cost THEN level - Cost ELSE level) \in Int
      BY <2>3, LimiterAssumption
    <3> QED
      BY <2>1, <3>1, <3>2
  <2>5. /\ known' = known \cup {i}
        /\ buckets' = [buckets EXCEPT ![i] = after]
        /\ ledger' = [ledger EXCEPT ![i] = booked]
        /\ calls' = [calls EXCEPT ![t].busy = FALSE]
        /\ clock' = clock
    BY <1>3 DEF Check
  <2>6. Settled(after, booked)
    <3>1. CASE i \in known
      <4>1. b = buckets[i] /\ Settled(buckets[i], ledger[i])
        BY <3>1 DEF BucketAt, Solvent
      <4> QED
        BY <2>1, <2>2, <3>1, <4>1, CheckSettles
    <3>2. CASE i \notin known
      <4>1. b = [tokens |-> Capacity, updated |-> now]
        BY <3>2 DEF BucketAt
      <4>2. level = Capacity
        BY <2>1, <4>1, LimiterAssumption DEF Level
      <4>3. after = [tokens |-> Capacity - Cost, updated |-> now]
        BY <4>2, LimiterAssumption
      <4>4. ledger[i].spent = 0
        BY <2>1, <3>2 DEF Unspent
      <4> QED
        BY <2>1, <3>2, <4>2, <4>3, <4>4, NewBucketSettles
    <3> QED
      BY <3>1, <3>2
  <2> HIDE DEF after, booked
  <2>7. LimiterTypeOK'
    <3>1. calls' \in [Threads -> [busy : BOOLEAN, identity : Identities, now : Nat]]
      BY <2>5 DEF LimiterTypeOK
    <3>2. /\ buckets' \in [Identities -> [tokens : Int, updated : Nat]]
          /\ ledger' \in [Identities -> Account]
          /\ known' \subseteq Identities
      BY <2>1, <2>4, <2>5 DEF LimiterTypeOK
    <3> QED
      BY <2>5, <3>1, <3>2 DEF LimiterTypeOK
  <2>8. ASSUME NEW j \in known' PROVE Settled(buckets'[j], ledger'[j])
    <3>1. CASE j = i
      <4>1. buckets'[j] = after /\ ledger'[j] = booked
        BY <2>1, <2>5, <3>1 DEF LimiterTypeOK
      <4> QED
        BY <2>6, <4>1
    <3>2. CASE j # i
      <4>1. /\ j \in known /\ j \in Identities
            /\ buckets'[j] = buckets[j] /\ ledger'[j] = ledger[j]
        BY <2>5, <3>2 DEF LimiterTypeOK
      <4> QED
        BY <4>1 DEF Solvent
    <3> QED
      BY <3>1, <3>2
  <2>9. Unspent'
    BY <2>1, <2>5 DEF Unspent, LimiterTypeOK
  <2> QED
    BY <2>7, <2>8, <2>9 DEF Solvent
<1>4. ASSUME NEW i \in Identities, Mark(i) PROVE LimiterInv' /\ Unspent'
  <2> DEFINE marked == [ledger[i] EXCEPT !.since = buckets[i].updated, !.spent = 0]
  <2>1. /\ i \in known
        /\ ledger' = [ledger EXCEPT ![i] = marked]
        /\ UNCHANGED <<clock, known, buckets, calls>>
    BY <1>4 DEF Mark, LimiterTypeOK
  <2>2. marked \in Account
    BY DEF LimiterTypeOK, Account
  <2>3. Settled(buckets[i], marked)
    <3>1. Settled(buckets[i], ledger[i])
      BY <2>1 DEF Solvent
    <3>2. /\ marked.since = buckets[i].updated /\ marked.spent = 0
          /\ marked.latest = ledger[i].latest /\ marked.fullAt = ledger[i].fullAt
          /\ marked.spentFromFull = ledger[i].spentFromFull
          /\ marked.refused = ledger[i].refused
      BY DEF LimiterTypeOK, Account
    <3>3. buckets[i].tokens \in Int /\ buckets[i].updated \in Nat
      BY DEF LimiterTypeOK
    <3> HIDE DEF marked
    <3> QED
      BY <3>1, <3>2, <3>3, LimiterAssumption DEF Settled
  <2> HIDE DEF marked
  <2>4. LimiterTypeOK'
    BY <2>1, <2>2 DEF LimiterTypeOK
  <2>5. Solvent'
    BY <2>1, <2>3 DEF Solvent, LimiterTypeOK
  <2>6. Unspent'
    BY <2>1 DEF Unspent, LimiterTypeOK
  <2> QED
    BY <2>4, <2>5, <2>6
<1>5. CASE UNCHANGED limiterVars
  BY <1>5 DEF limiterVars, LimiterTypeOK, Solvent, Unspent
<1> QED
  BY <1>1, <1>2, <1>3, <1>4, <1>5 DEF LimiterNext

\* The types of RateLimiter's variables and the accounts' bookkeeping hold
\* in every behaviour.
THEOREM LimiterInvariant == LimiterSpec => [](LimiterInv /\ Unspent)
BY InvInit, InvNext, PTL DEF LimiterSpec

\* From any update of a bucket on, an identity is never admitted for more
\* than one bucket and the refill, whatever order threads get the lock in.
THEOREM AllowanceHolds == LimiterSpec => []AllowanceBound
<1>1. LimiterInv => AllowanceBound
  <2> SUFFICES ASSUME LimiterInv, NEW i \in known
               PROVE  ledger[i].spent <= Capacity + (ledger[i].latest - ledger[i].since)
    BY DEF AllowanceBound
  <2>1. /\ ledger[i].spent \in Nat /\ ledger[i].latest \in Nat /\ ledger[i].since \in Nat
        /\ buckets[i].tokens \in Int /\ buckets[i].updated \in Nat
    BY DEF LimiterInv, LimiterTypeOK, Account
  <2> QED
    BY <2>1, LimiterAssumption DEF LimiterInv, Solvent, Settled
<1> QED
  BY <1>1, LimiterInvariant, PTL

\* A refused identity has really spent its bucket.
THEOREM RefusalsAreDue == LimiterSpec => []NeverRefusedEarly
<1>1. LimiterInv => NeverRefusedEarly
  <2> SUFFICES ASSUME LimiterInv, NEW i \in known, ledger[i].refused
               PROVE  ledger[i].spentFromFull + Cost
                        > Capacity + (buckets[i].updated - ledger[i].fullAt)
    BY DEF NeverRefusedEarly
  <2>1. /\ ledger[i].spentFromFull \in Nat /\ ledger[i].fullAt \in Nat
        /\ buckets[i].tokens \in Int /\ buckets[i].updated \in Nat
    BY DEF LimiterInv, LimiterTypeOK, Account
  <2> QED
    BY <2>1, LimiterAssumption DEF LimiterInv, Solvent, Settled
<1> QED
  BY <1>1, LimiterInvariant, PTL

-----------------------------------------------------------------------------
(* The GeoIP reader.                                                       *)

\* Who opens the file holds the lock, and nobody else does; once somebody has
\* tried and the lock is free, a file that is there has its reader.
GeoInv ==
  /\ GeoTypeOK
  /\ \A t \in Lookups : holder = t <=> lookup[t].pc \in {"open", "publish"}
  /\ holder # Nobody \/ reader => attempted
  /\ attempted /\ holder = Nobody /\ file = "present" => reader
  /\ ~attempted => opened = 0
  /\ \A t \in Lookups :
       /\ lookup[t].pc = "open" => opened = 0
       /\ lookup[t].pc = "publish" => file = "present"
       /\ lookup[t].pc = "get" => reader \/ file # "present" \/ lookup[t].during
       /\ lookup[t].pc = "done" => lookup[t].found \/ file # "present" \/ lookup[t].during

\* A step of t leaves the other threads where they are.
LEMMA GeoOthers ==
  ASSUME GeoTypeOK, NEW t \in Lookups, GeoStep(t)
  PROVE  /\ lookup' \in [Lookups -> [pc : {"idle", "wait", "open", "publish", "get", "done", "failed"},
                                     found : BOOLEAN, during : BOOLEAN]]
         /\ \A u \in Lookups : u # t => lookup'[u] = lookup[u]
         /\ file' = file
  <1>1. CASE Begin(t)
    BY <1>1 DEF GeoTypeOK, Begin
  <1>2. CASE Lock(t)
    BY <1>2 DEF GeoTypeOK, Lock, At
  <1>3. CASE Open(t)
    BY <1>3 DEF GeoTypeOK, Open, At
  <1>4. CASE Publish(t)
    BY <1>4 DEF GeoTypeOK, Publish, At
  <1>5. CASE Get(t)
    BY <1>5 DEF GeoTypeOK, Get
  <1> QED BY <1>1, <1>2, <1>3, <1>4, <1>5 DEF GeoStep

LEMMA GeoStepInv ==
  ASSUME GeoInv, NEW t \in Lookups, GeoStep(t)
  PROVE  GeoInv'
  <1>0. /\ GeoTypeOK
        /\ lookup' \in [Lookups -> [pc : {"idle", "wait", "open", "publish", "get", "done", "failed"},
                                    found : BOOLEAN, during : BOOLEAN]]
        /\ \A u \in Lookups : u # t => lookup'[u] = lookup[u]
        /\ file' = file
    BY GeoOthers DEF GeoInv
  <1>1. CASE Begin(t)
    <2>1. /\ lookup'[t] = [pc |-> IF reader \/ attempted THEN "get" ELSE "wait",
                           found |-> FALSE, during |-> holder # Nobody]
          /\ lookup[t].pc \notin {"open", "publish"}
          /\ UNCHANGED <<reader, attempted, holder, opened>>
      BY <1>0, <1>1 DEF Begin, GeoTypeOK
    <2> QED BY <1>0, <2>1, LookupsAssumption DEF GeoInv, GeoTypeOK
  <1>2. CASE Lock(t) /\ attempted
    <2>1. /\ lookup'[t] = [lookup[t] EXCEPT !.pc = "get"] /\ lookup[t].pc = "wait" /\ holder = Nobody
          /\ UNCHANGED <<reader, attempted, holder, opened>>
      BY <1>0, <1>2 DEF Lock, At, GeoTypeOK
    <2> QED BY <1>0, <1>2, <2>1, LookupsAssumption DEF GeoInv, GeoTypeOK
  <1>3. CASE Lock(t) /\ ~attempted
    <2>1. /\ lookup'[t] = [lookup[t] EXCEPT !.pc = "open"] /\ lookup[t].pc = "wait" /\ holder = Nobody
          /\ attempted' = TRUE /\ holder' = t /\ UNCHANGED <<reader, opened>>
      BY <1>0, <1>3 DEF Lock, At, GeoTypeOK
    <2> QED BY <1>0, <1>3, <2>1, LookupsAssumption DEF GeoInv, GeoTypeOK
  <1>4. CASE Open(t)
    <2>1. /\ lookup[t].pc = "open" /\ holder = t /\ opened = 0 /\ attempted
          /\ UNCHANGED <<reader, attempted>>
      BY <1>0, <1>4, LookupsAssumption DEF Open, GeoInv
    <2>2. \/ /\ file = "present" /\ opened' = 1 /\ holder' = holder
             /\ lookup'[t] = [lookup[t] EXCEPT !.pc = "publish"]
          \/ /\ file # "present" /\ opened' = opened /\ holder' = Nobody
             /\ \E place \in {"get", "failed"} : lookup'[t] = [lookup[t] EXCEPT !.pc = place]
      BY <1>0, <1>4, <2>1 DEF Open, At, GeoTypeOK
    <2> QED BY <1>0, <2>1, <2>2, LookupsAssumption DEF GeoInv, GeoTypeOK
  <1>5. CASE Publish(t)
    <2>1. /\ lookup'[t] = [lookup[t] EXCEPT !.pc = "get"] /\ lookup[t].pc = "publish" /\ holder = t
          /\ reader' = TRUE /\ holder' = Nobody /\ UNCHANGED <<attempted, opened>>
      BY <1>0, <1>5 DEF Publish, At, GeoTypeOK, GeoInv
    <2> QED BY <1>0, <2>1, LookupsAssumption DEF GeoInv, GeoTypeOK
  <1>6. CASE Get(t)
    <2>1. /\ lookup'[t] = [lookup[t] EXCEPT !.found = reader, !.pc = "done"] /\ lookup[t].pc = "get"
          /\ UNCHANGED <<reader, attempted, holder, opened>>
      BY <1>0, <1>6 DEF Get, GeoTypeOK
    <2> QED BY ZenonT(60), <1>0, <2>1, LookupsAssumption DEF GeoInv, GeoTypeOK
  <1> QED BY <1>1, <1>2, <1>3, <1>4, <1>5, <1>6 DEF GeoStep

LEMMA GeoInvariance == GeoSpec => []GeoInv
  <1>1. GeoInit => GeoInv
    <2> SUFFICES ASSUME GeoInit PROVE GeoInv
      OBVIOUS
    <2>1. \A t \in Lookups : lookup[t] = [pc |-> "idle", found |-> FALSE, during |-> FALSE]
      BY DEF GeoInit
    <2>2. GeoTypeOK
      <3>1. lookup \in [Lookups -> [pc : {"idle", "wait", "open", "publish", "get", "done", "failed"},
                                   found : BOOLEAN, during : BOOLEAN]]
        BY DEF GeoInit
      <3>2. reader \in BOOLEAN /\ attempted \in BOOLEAN
        BY Zenon DEF GeoInit
      <3>3. opened \in 0..1
        BY DEF GeoInit
      <3> QED BY <3>1, <3>2, <3>3 DEF GeoInit, GeoTypeOK
    <2> QED BY <2>1, <2>2, LookupsAssumption DEF GeoInit, GeoInv
  <1>2. GeoInv /\ [GeoNext]_geoVars => GeoInv'
    <2>1. ASSUME GeoInv, UNCHANGED geoVars PROVE GeoInv'
      BY <2>1 DEF geoVars, GeoInv, GeoTypeOK
    <2> QED BY <2>1, GeoStepInv DEF GeoNext
  <1> QED BY <1>1, <1>2, PTL DEF GeoSpec

\* The variables of the loader keep their types (geoip.py:20-34).
THEOREM GeoTyping == GeoSpec => []GeoTypeOK
  <1>1. GeoInv => GeoTypeOK
    BY DEF GeoInv
  <1> QED BY GeoInvariance, <1>1, PTL

\* A lookup finds nothing only without a readable file, or when it began while
\* the file was being opened; the file is opened once (geoip.py:6, 25-34).
THEOREM GeoEmpty == GeoSpec => []EmptyOnlyWithoutFile
  <1>1. GeoInv => EmptyOnlyWithoutFile
    BY DEF GeoInv, GeoTypeOK, EmptyOnlyWithoutFile
  <1> QED BY GeoInvariance, <1>1, PTL

-----------------------------------------------------------------------------
(* The anomaly model.                                                      *)

USE AnomalyAssumption

Places == Fitting \cup Scoring \cup Resting \cup {"count", "due", "due2", "fit", "stamp"}
Ingesting == [pc : Places, rows : 0..MaxEvents, then : {"explain", "idle"}, disturbed : BOOLEAN]

\* A fit has enough rows.  Fits that overlap are recorded.
FitsOK ==
  /\ \A t \in Ingests : ingest[t].pc \in Fitting => ingest[t].rows >= MinRows
  /\ overlap = "never" =>
       \A t, u \in Ingests : ingest[t].pc \in Fitting /\ ingest[u].pc \in Fitting => t = u
  /\ overlap # "kinds" =>
       \A t, u \in Ingests : ingest[t].pc \in ForestFit => ingest[u].pc \notin BaselineFit

\* What fits of one kind leave to one another and to the scorings after them.
ModelOK ==
  /\ \A t \in Ingests : ingest[t].pc \in {"dropMean", "dropStd"} => forest # None
  /\ \A t \in Ingests : ingest[t].pc \in {"setMean", "readMean", "setStd"} => forest = None
  /\ \A t \in Ingests : ingest[t].pc \in {"readMean", "setStd"} => mean # None
  /\ (\A t \in Ingests : ingest[t].pc \notin BaselineFit) => forest # None \/ (mean = None <=> std = None)
  /\ (\A t \in Ingests : ingest[t].pc # "dropMean") => forest = None \/ mean = None
  /\ (\A t \in Ingests : ingest[t].pc # "setMean") =>
       \/ forest # None \/ mean # None
       \/ fittedAt < MinRows /\ \A t \in Ingests : ingest[t].pc = "stamp" => ingest[t].rows < MinRows

\* What one fit at a time leaves besides.
SingleOK ==
  /\ \A t \in Ingests : ingest[t].pc \in {"readMean", "setStd"} => mean = ingest[t].rows
  /\ (\A t \in Ingests : ingest[t].pc \notin BaselineFit) => forest # None \/ mean = std

\* Nobody fits while a scoring is undisturbed, which may then rely on what it
\* has tested.
ScoreOK ==
  /\ \A t \in Ingests : ingest[t].pc \in Scoring \ {"gate"} /\ ~ingest[t].disturbed => NoFit
  /\ overlap # "kinds" =>
       \A t \in Ingests : ~ingest[t].disturbed =>
         /\ ingest[t].pc = "useForest" => forest # None
         /\ ingest[t].pc \in {"check", "use"} => mean # None
         /\ ingest[t].pc # "failed"

AnomalyInv ==
  /\ AnomalyTypeOK
  /\ FitsOK
  /\ overlap # "kinds" => ModelOK
  /\ overlap = "never" => SingleOK
  /\ ScoreOK

LEMMA AnomalyInitInv == AnomalyInit => AnomalyInv
  <1> SUFFICES ASSUME AnomalyInit PROVE AnomalyInv
    OBVIOUS
  <1>1. \A t \in Ingests : ingest[t].pc = "idle"
    BY DEF AnomalyInit
  <1>2. /\ stored \in 0..ForestRows /\ fittedAt = 0 /\ forest = 0 /\ mean = 0 /\ std = 0
        /\ overlap = "never"
    BY DEF AnomalyInit, None
  <1>3. AnomalyTypeOK
    <2>1. ingest \in [Ingests -> Ingesting]
      BY DEF AnomalyInit, Ingesting, Places, Resting
    <2> QED BY <1>2, <2>1 DEF AnomalyTypeOK, Ingesting, Places
  <1>4. \A t \in Ingests : ingest[t].pc \notin Fitting \cup Scoring \cup {"stamp"}
    BY <1>1 DEF Fitting, ForestFit, BaselineFit, Scoring
  <1>5. FitsOK
    BY <1>4 DEF FitsOK, Fitting
  <1>6. ModelOK
    BY <1>2, <1>4 DEF ModelOK, Fitting, ForestFit, BaselineFit, None
  <1>7. SingleOK
    BY <1>2, <1>4 DEF SingleOK, Fitting, BaselineFit
  <1>8. ScoreOK
    BY <1>1, <1>4 DEF ScoreOK, Scoring
  <1> QED BY <1>3, <1>5, <1>6, <1>7, <1>8 DEF AnomalyInv

LEMMA ThreadsTyped ==
  ASSUME AnomalyTypeOK, NEW t \in Ingests
  PROVE  ingest \in [Ingests -> Ingesting] /\ ingest[t] \in Ingesting
  BY DEF AnomalyTypeOK, Ingesting, Places

\* Where t goes, with the rest of its state.
Moved(t, place) ==
  [pc |-> place, rows |-> ingest[t].rows, then |-> ingest[t].then, disturbed |-> ingest[t].disturbed]

LEMMA GoFacts ==
  ASSUME AnomalyTypeOK, NEW t \in Ingests, NEW place, Go(t, place)
  PROVE  ingest' = [ingest EXCEPT ![t] = Moved(t, place)]
  <1>1. ingest[t] \in Ingesting
    BY ThreadsTyped
  <1>2. [ingest[t] EXCEPT !.pc = place] = Moved(t, place)
    BY <1>1 DEF Ingesting, Moved
  <1> HIDE DEF Moved
  <1> QED BY <1>2 DEF Go

\* A step that touches neither the model nor the assignments of a fit.
LEMMA Aside ==
  ASSUME AnomalyInv, NEW t \in Ingests, NEW place \in Places \ Fitting, NEW rows \in 0..MaxEvents,
         NEW then \in {"explain", "idle"}, NEW disturbed \in BOOLEAN,
         ingest' = [ingest EXCEPT ![t] = [pc |-> place, rows |-> rows, then |-> then,
                                          disturbed |-> disturbed]],
         UNCHANGED <<forest, mean, std, fittedAt, overlap>>, stored' \in 0..MaxEvents,
         ingest[t].pc \notin Fitting \cup {"stamp"}, place = "stamp" => rows < MinRows,
         place \in Scoring \ {"gate"} /\ ~disturbed => NoFit,
         overlap # "kinds" /\ ~disturbed =>
           /\ place = "useForest" => forest # None
           /\ place \in {"check", "use"} => mean # None
           /\ place # "failed"
  PROVE  AnomalyInv'
  <1>0. AnomalyTypeOK /\ ingest \in [Ingests -> Ingesting]
    BY ThreadsTyped DEF AnomalyInv
  <1>1. /\ ingest' \in [Ingests -> Ingesting]
        /\ ingest'[t] = [pc |-> place, rows |-> rows, then |-> then, disturbed |-> disturbed]
        /\ \A u \in Ingests : u # t => ingest'[u] = ingest[u]
    BY <1>0 DEF Ingesting
  <1>2. AnomalyTypeOK'
    BY <1>0, <1>1 DEF AnomalyTypeOK, Ingesting, Places
  <1>3. \A u \in Ingests : ingest'[u].pc \in Fitting => u # t /\ ingest'[u] = ingest[u]
    BY <1>1
  <1>4. \A u \in Ingests : ingest[u].pc \in Fitting => u # t
    OBVIOUS
  <1>5. FitsOK'
    BY <1>3 DEF FitsOK, AnomalyInv, Fitting
  <1>6. NoFit' <=> NoFit
    BY <1>1, <1>3, <1>4 DEF NoFit
  <1>7. overlap # "kinds" => ModelOK'
    <2> SUFFICES ASSUME overlap # "kinds" PROVE ModelOK'
      OBVIOUS
    <2>1. ModelOK /\ UNCHANGED <<forest, mean, std, fittedAt>>
      BY DEF AnomalyInv
    <2>2. \A u \in Ingests, p \in Fitting : ingest'[u].pc = p <=> ingest[u].pc = p
      BY <1>1
    <2>3. \A u \in Ingests : ingest[u].pc = "stamp" => u # t /\ ingest'[u] = ingest[u]
      BY <1>1
    <2>4. \A u \in Ingests : ingest'[u].pc = "stamp" => ingest'[u] = ingest[u] \/ ingest'[u].rows < MinRows
      BY <1>1
    <2> QED BY <2>1, <2>2, <2>3, <2>4 DEF ModelOK, Fitting, ForestFit, BaselineFit
  <1>8. overlap = "never" => SingleOK'
    BY <1>1, <1>3, <1>4 DEF AnomalyInv, SingleOK, Fitting, BaselineFit
  <1>9. ScoreOK'
    BY <1>1, <1>6 DEF AnomalyInv, ScoreOK
  <1> QED BY <1>2, <1>5, <1>7, <1>8, <1>9 DEF AnomalyInv

\* The next place of a scoring is decided by what it reads.
LEMMA AsideGo ==
  ASSUME AnomalyInv, NEW t \in Ingests, NEW place \in Places \ Fitting, Go(t, place), Quiet,
         ingest[t].pc \notin Fitting \cup {"stamp"}, place = "stamp" => ingest[t].rows < MinRows,
         place \in Scoring \ {"gate"} /\ ~ingest[t].disturbed => NoFit,
         overlap # "kinds" /\ ~ingest[t].disturbed =>
           /\ place = "useForest" => forest # None
           /\ place \in {"check", "use"} => mean # None
           /\ place # "failed"
  PROVE  AnomalyInv'
  <1>1. AnomalyTypeOK /\ ingest[t] \in Ingesting
    BY ThreadsTyped DEF AnomalyInv
  <1>2. /\ ingest' = [ingest EXCEPT ![t] = Moved(t, place)] /\ ingest[t].rows \in 0..MaxEvents
        /\ ingest[t].then \in {"explain", "idle"} /\ ingest[t].disturbed \in BOOLEAN
        /\ stored' \in 0..MaxEvents /\ UNCHANGED <<forest, mean, std, fittedAt, overlap>>
    BY <1>1, GoFacts DEF Ingesting, Quiet, Model, AnomalyTypeOK
  <1> QED BY <1>2, Aside DEF Moved

LEMMA AsideFar ==
  ASSUME AnomalyInv, NEW t \in Ingests, NEW place \in Places \ Fitting, NEW rows \in 0..MaxEvents,
         NEW then \in {"explain", "idle"}, NEW disturbed \in BOOLEAN,
         ingest' = [ingest EXCEPT ![t] = [pc |-> place, rows |-> rows, then |-> then,
                                          disturbed |-> disturbed]],
         UNCHANGED <<forest, mean, std, fittedAt, overlap>>, stored' \in 0..MaxEvents,
         ingest[t].pc \notin Fitting \cup {"stamp"}, place # "stamp",
         place \notin Scoring \ {"gate"}, place \notin {"useForest", "check", "use", "failed"}
  PROVE  AnomalyInv'
  BY Aside

LEMMA StoreCountInv ==
  ASSUME AnomalyInv, NEW t \in Ingests, Store(t) \/ Count(t)
  PROVE  AnomalyInv'
  <1>0. AnomalyTypeOK /\ ingest[t] \in Ingesting
    BY ThreadsTyped DEF AnomalyInv
  <1>1. CASE Store(t)
    <2>1. /\ stored' \in 0..MaxEvents /\ UNCHANGED <<forest, mean, std, fittedAt, overlap>>
          /\ ingest[t].pc \notin Fitting \cup {"stamp"}
      BY <1>0, <1>1 DEF Store, AnomalyTypeOK, Model, Resting, Fitting, ForestFit, BaselineFit
    <2>2. /\ "count" \in Places \ Fitting /\ "count" \notin Scoring \ {"gate"} /\ "count" # "stamp"
          /\ "count" \notin {"useForest", "check", "use", "failed"}
      BY DEF Places, Fitting, ForestFit, BaselineFit, Scoring
    <2>3. 0 \in 0..MaxEvents
      OBVIOUS
    <2>4. ingest' = [ingest EXCEPT ![t] = [pc |-> "count", rows |-> 0, then |-> "explain",
                                           disturbed |-> FALSE]]
      BY <1>1 DEF Store
    <2>5. "explain" \in {"explain", "idle"} /\ FALSE \in BOOLEAN
      BY Zenon
    <2> QED BY <2>1, <2>2, <2>3, <2>4, <2>5, AsideFar, Zenon
  <1>2. CASE Count(t)
    <2>1. /\ stored' = stored /\ stored \in 0..MaxEvents /\ ingest[t].pc = "count"
          /\ UNCHANGED <<forest, mean, std, fittedAt, overlap>>
      BY <1>0, <1>2 DEF Count, AnomalyTypeOK, Model, Quiet
    <2>2. /\ "due" \in Places \ Fitting /\ "due" \notin Scoring \ {"gate"} /\ "due" # "stamp"
          /\ "due" \notin {"useForest", "check", "use", "failed"}
          /\ ingest[t].pc \notin Fitting \cup {"stamp"}
      BY <2>1 DEF Places, Fitting, ForestFit, BaselineFit, Scoring
    <2>3. ingest' = [ingest EXCEPT ![t] = [pc |-> "due", rows |-> stored, then |-> ingest[t].then,
                                           disturbed |-> ingest[t].disturbed]]
      <3>1. [ingest[t] EXCEPT !.rows = stored, !.pc = "due"] =
              [pc |-> "due", rows |-> stored, then |-> ingest[t].then,
               disturbed |-> ingest[t].disturbed]
        <4>1. PICK r : r = [ingest[t] EXCEPT !.rows = stored]
          OBVIOUS
        <4>2. /\ r \in Ingesting /\ r.rows = stored /\ r.then = ingest[t].then
              /\ r.disturbed = ingest[t].disturbed
          BY <1>0, <2>1, <4>1 DEF Ingesting
        <4>3. [r EXCEPT !.pc = "due"] =
                [pc |-> "due", rows |-> r.rows, then |-> r.then, disturbed |-> r.disturbed]
          BY <4>2 DEF Ingesting
        <4>4. [ingest[t] EXCEPT !.rows = stored, !.pc = "due"] = [r EXCEPT !.pc = "due"]
          BY <4>1
        <4> QED BY <4>2, <4>3, <4>4
      <3>2. ingest' = [ingest EXCEPT ![t] = [ingest[t] EXCEPT !.rows = stored, !.pc = "due"]]
        BY <1>0, <1>2 DEF Count, AnomalyTypeOK
      <3> QED BY <3>1, <3>2
    <2>4. ingest[t].then \in {"explain", "idle"} /\ ingest[t].disturbed \in BOOLEAN
      BY <1>0 DEF Ingesting
    <2>5. stored' \in 0..MaxEvents
      BY <2>1
    <2> QED BY <2>1, <2>2, <2>3, <2>4, <2>5, AsideFar, Zenon
  <1> QED BY <1>1, <1>2

LEMMA DueInv ==
  ASSUME AnomalyInv, NEW t \in Ingests, Due(t)
  PROVE  AnomalyInv'
  <1>1. PICK place \in {"fit", "gate", "due2"} : Go(t, place)
    BY DEF Due
  <1>2. /\ ingest[t].pc \notin Fitting \cup {"stamp"} /\ Quiet
        /\ place \in Places \ Fitting /\ place \notin Scoring \ {"gate"}
    BY DEF Due, Places, Fitting, ForestFit, BaselineFit, Scoring
  <1> QED BY <1>1, <1>2, AsideGo

\* Nobody fits while an undisturbed scoring is past its gate; then what it
\* has tested holds, and a mean has its deviations.
LEMMA Undisturbed ==
  ASSUME AnomalyInv, NEW t \in Ingests, ingest[t].pc \in Scoring \ {"gate"}, ~ingest[t].disturbed,
         overlap # "kinds"
  PROVE  /\ NoFit
         /\ forest # None \/ (mean = None <=> std = None)
         /\ forest = None \/ mean = None
  <1>1. NoFit /\ ModelOK
    BY DEF AnomalyInv, ScoreOK
  <1>2. \A u \in Ingests : ingest[u].pc \notin BaselineFit /\ ingest[u].pc # "dropMean"
    BY <1>1 DEF NoFit, Fitting, ForestFit
  <1> QED BY <1>1, <1>2 DEF ModelOK

LEMMA ScoreInv ==
  ASSUME AnomalyInv, NEW t \in Ingests, Score(t) \/ Deviations(t)
  PROVE  AnomalyInv'
  <1>0. /\ Quiet /\ ingest[t] \in Ingesting
        /\ ingest[t].pc \in {"score", "useForest", "scoreMean", "check", "use"}
    BY ThreadsTyped DEF Score, Deviations, AnomalyInv
  <1>1. /\ ingest[t].pc \in Scoring \ {"gate"} /\ ingest[t].pc \notin Fitting \cup {"stamp"}
    BY <1>0 DEF Scoring, Fitting, ForestFit, BaselineFit
  <1>2. ASSUME overlap # "kinds", ~ingest[t].disturbed
        PROVE  /\ NoFit
               /\ ingest[t].pc = "useForest" => forest # None
               /\ ingest[t].pc \in {"check", "use"} => mean # None /\ std # None
    BY <1>1, <1>2, Undisturbed DEF AnomalyInv, ScoreOK
  <1>3. ~ingest[t].disturbed => NoFit
    BY <1>1 DEF AnomalyInv, ScoreOK
  <1>4. PICK place \in {"useForest", "scoreMean", "explain", "failed", "check", "use", "idle"} :
          /\ Go(t, place)
          /\ place = "useForest" => forest # None
          /\ place = "check" => mean # None
          /\ place = "use" => mean # None
          /\ place = "failed" => \/ ingest[t].pc = "useForest" /\ forest = None
                                 \/ ingest[t].pc \in {"check", "use"} /\ (mean = None \/ std = None)
    <2>1. ingest[t].then \in {"explain", "idle"}
      BY <1>0 DEF Ingesting
    <2> QED BY <2>1 DEF Score, Deviations
  <1>5. place \in Places \ Fitting /\ place # "stamp"
    BY DEF Places, Scoring, Resting, Fitting, ForestFit, BaselineFit
  <1> QED BY <1>0, <1>1, <1>2, <1>3, <1>4, <1>5, AsideGo

LEMMA GateInv ==
  ASSUME AnomalyInv, NEW t \in Ingests, Gate(t)
  PROVE  AnomalyInv'
  <1>0. /\ Quiet /\ ingest[t] \in Ingesting /\ AnomalyTypeOK
        /\ ingest[t].pc \in {"gate", "gate2"} /\ ingest[t].pc \notin Fitting \cup {"stamp"}
    BY ThreadsTyped DEF Gate, AnomalyInv, Fitting, ForestFit, BaselineFit
  <1>1. CASE ingest[t].pc = "gate2"
    <2>1. ~ingest[t].disturbed => NoFit
      BY <1>0, <1>1 DEF AnomalyInv, ScoreOK, Scoring
    <2>2. PICK place \in {"score", "idle"} : Go(t, place)
      BY <1>1 DEF Gate
    <2>3. place \in Places \ Fitting /\ place # "stamp"
      BY DEF Places, Scoring, Resting, Fitting, ForestFit, BaselineFit
    <2> QED BY <1>0, <2>1, <2>2, <2>3, AsideGo
  <1>2. CASE ingest[t].pc = "gate"
    <2>0. PICK busy \in BOOLEAN : busy = Busy(t, Fitting)
      BY Zenon DEF Busy
    <2>1. PICK place \in {"score", "gate2"} :
            ingest' = [ingest EXCEPT ![t].pc = place, ![t].disturbed = busy]
      BY <1>2, <2>0 DEF Gate
    <2>2. ingest' = [ingest EXCEPT ![t] = [pc |-> place, rows |-> ingest[t].rows,
                                           then |-> ingest[t].then, disturbed |-> busy]]
      <3>1. PICK r : r = [ingest[t] EXCEPT !.pc = place]
        OBVIOUS
      <3>2. r \in Ingesting /\ r.pc = place /\ r.rows = ingest[t].rows /\ r.then = ingest[t].then
        BY <1>0, <3>1 DEF Ingesting, Places, Scoring
      <3>3. [r EXCEPT !.disturbed = busy] =
              [pc |-> r.pc, rows |-> r.rows, then |-> r.then, disturbed |-> busy]
        BY <3>2 DEF Ingesting
      <3>4. [ingest EXCEPT ![t].pc = place, ![t].disturbed = busy] =
              [ingest EXCEPT ![t] = [r EXCEPT !.disturbed = busy]]
        BY <1>0, <3>1 DEF AnomalyTypeOK
      <3> QED BY <2>1, <3>2, <3>3, <3>4
    <2>3. ~busy => NoFit
      BY <1>0, <2>0 DEF Busy, Others, NoFit
    <2>4. /\ place \in Places \ Fitting /\ place # "stamp"
          /\ place \notin {"useForest", "check", "use", "failed"}
      BY DEF Places, Scoring, Resting, Fitting, ForestFit, BaselineFit
    <2>5. /\ ingest[t].rows \in 0..MaxEvents /\ ingest[t].then \in {"explain", "idle"}
          /\ stored' \in 0..MaxEvents /\ UNCHANGED <<forest, mean, std, fittedAt, overlap>>
      BY <1>0 DEF Ingesting, Quiet, Model, AnomalyTypeOK
    <2> QED BY <1>0, <2>2, <2>3, <2>4, <2>5, Aside
  <1> QED BY <1>0, <1>1, <1>2

LEMMA ExplainInv ==
  ASSUME AnomalyInv, NEW t \in Ingests, Explain(t)
  PROVE  AnomalyInv'
  <1>0. /\ Quiet /\ ingest[t] \in Ingesting /\ AnomalyTypeOK /\ ingest[t].pc = "explain"
    BY ThreadsTyped DEF Explain, AnomalyInv
  <1>1. ingest[t].pc \in Scoring \ {"gate"} /\ ingest[t].pc \notin Fitting \cup {"stamp"}
    BY <1>0 DEF Scoring, Fitting, ForestFit, BaselineFit
  <1>2. PICK place \in {"check", "idle"} :
          /\ ingest' = [ingest EXCEPT ![t].pc = place, ![t].then = "idle"]
          /\ place = "check" => mean # None
    BY DEF Explain
  <1>3. ingest' = [ingest EXCEPT ![t] = [pc |-> place, rows |-> ingest[t].rows, then |-> "idle",
                                         disturbed |-> ingest[t].disturbed]]
    <2>1. PICK r : r = [ingest[t] EXCEPT !.pc = place]
      OBVIOUS
    <2>2. /\ r \in Ingesting /\ r.pc = place /\ r.rows = ingest[t].rows
          /\ r.disturbed = ingest[t].disturbed
      BY <1>0, <2>1 DEF Ingesting, Places, Scoring, Resting
    <2>3. [r EXCEPT !.then = "idle"] =
            [pc |-> r.pc, rows |-> r.rows, then |-> "idle", disturbed |-> r.disturbed]
      BY <2>2 DEF Ingesting
    <2>4. [ingest EXCEPT ![t].pc = place, ![t].then = "idle"] =
            [ingest EXCEPT ![t] = [r EXCEPT !.then = "idle"]]
      BY <1>0, <2>1 DEF AnomalyTypeOK
    <2> QED BY <1>2, <2>2, <2>3, <2>4
  <1>4. ~ingest[t].disturbed => NoFit
    BY <1>1 DEF AnomalyInv, ScoreOK
  <1>5. place \in Places \ Fitting /\ place # "stamp" /\ place \notin {"useForest", "failed", "use"}
    BY DEF Places, Scoring, Resting, Fitting, ForestFit, BaselineFit
  <1>6. /\ ingest[t].rows \in 0..MaxEvents /\ ingest[t].disturbed \in BOOLEAN
        /\ stored' \in 0..MaxEvents /\ UNCHANGED <<forest, mean, std, fittedAt, overlap>>
    BY <1>0 DEF Ingesting, Quiet, Model, AnomalyTypeOK
  <1> QED BY <1>1, <1>2, <1>3, <1>4, <1>5, <1>6, Aside

LEMMA StartFitInv ==
  ASSUME AnomalyInv, NEW t \in Ingests, NEW kin \in {ForestFit, BaselineFit}, NEW place \in kin,
         ingest[t].pc = "fit", ingest[t].rows >= MinRows, place \in {"setForest", "clearForest"},
         StartFit(t, place, kin)
  PROVE  AnomalyInv'
  <1>0. /\ AnomalyTypeOK /\ ingest \in [Ingests -> Ingesting] /\ FitsOK /\ ScoreOK
        /\ UNCHANGED <<stored, fittedAt, forest, mean, std>>
    BY ThreadsTyped DEF AnomalyInv, StartFit, Model
  <1>1. /\ ingest'[t] = Moved(t, place)
        /\ \A u \in Ingests : u # t =>
             ingest'[u] = [ingest[u] EXCEPT !.disturbed = @ \/ ingest[u].pc \in Scoring]
        /\ ingest' \in [Ingests -> Ingesting]
    <2>1. [ingest[t] EXCEPT !.pc = place] = Moved(t, place) /\ Moved(t, place) \in Ingesting
      BY <1>0 DEF Ingesting, Moved, Places, Fitting
    <2>2. \A u \in Ingests : [ingest[u] EXCEPT !.disturbed = @ \/ ingest[u].pc \in Scoring] \in Ingesting
      BY <1>0 DEF Ingesting
    <2> HIDE DEF Moved
    <2> QED BY <2>1, <2>2 DEF StartFit
  <1>2. /\ ingest'[t].pc = place /\ ingest'[t].rows = ingest[t].rows
        /\ \A u \in Ingests : u # t => /\ ingest'[u].pc = ingest[u].pc
                                       /\ ingest'[u].rows = ingest[u].rows
                                       /\ ~ingest'[u].disturbed =>
                                            ~ingest[u].disturbed /\ ingest[u].pc \notin Scoring
    <2>1. ASSUME NEW u \in Ingests, u # t
          PROVE  /\ ingest'[u].pc = ingest[u].pc /\ ingest'[u].rows = ingest[u].rows
                 /\ ingest'[u].disturbed = (ingest[u].disturbed \/ ingest[u].pc \in Scoring)
      BY <1>0, <1>1, <2>1 DEF Ingesting
    <2>2. ASSUME NEW u \in Ingests, u # t, ~ingest'[u].disturbed
          PROVE  ~ingest[u].disturbed /\ ingest[u].pc \notin Scoring
      BY <2>1, <2>2
    <2>3. ingest'[t].pc = place /\ ingest'[t].rows = ingest[t].rows
      BY <1>1 DEF Moved
    <2> QED BY <2>1, <2>2, <2>3
  <1>3. /\ overlap' # "kinds" => overlap # "kinds" /\ ~Busy(t, Fitting \ kin)
        /\ overlap' = "never" => overlap = "never" /\ ~Busy(t, Fitting)
        /\ overlap' \in {"never", "same", "kinds"}
    BY <1>0 DEF StartFit, AnomalyTypeOK, Busy
  <1>4. place \in Fitting /\ place \notin Scoring \cup {"stamp"} /\ place \notin {"dropMean", "setMean", "readMean", "setStd", "dropStd"}
    BY DEF Fitting, ForestFit, BaselineFit, Scoring
  <1>5. AnomalyTypeOK'
    BY <1>0, <1>1, <1>3 DEF AnomalyTypeOK, Ingesting, Places
  <1>6. FitsOK'
    <2>1. \A u \in Ingests : ingest'[u].pc \in Fitting => ingest'[u].rows >= MinRows
      BY <1>0, <1>2 DEF FitsOK
    <2>2. overlap' = "never" =>
            \A u, v \in Ingests : ingest'[u].pc \in Fitting /\ ingest'[v].pc \in Fitting => u = v
      BY <1>2, <1>3 DEF Busy, Others
    <2>3. overlap' # "kinds" =>
            \A u, v \in Ingests : ingest'[u].pc \in ForestFit => ingest'[v].pc \notin BaselineFit
      <3>1. ForestFit \cap BaselineFit = {}
        BY DEF ForestFit, BaselineFit
      <3> QED BY <1>0, <1>2, <1>3, <3>1 DEF FitsOK, Busy, Others, Fitting
    <2> QED BY <2>1, <2>2, <2>3 DEF FitsOK
  <1>7. overlap' # "kinds" => ModelOK'
    <2> SUFFICES ASSUME overlap' # "kinds" PROVE ModelOK'
      OBVIOUS
    <2>1. ModelOK
      BY <1>3 DEF AnomalyInv
    <2>2. \A u \in Ingests, p \in {"dropMean", "dropStd", "setMean", "readMean", "setStd", "stamp"} :
            ingest'[u].pc = p <=> ingest[u].pc = p
      BY <1>2, <1>4
    <2>3. \A u \in Ingests : ingest[u].pc \in BaselineFit => ingest'[u].pc \in BaselineFit
      BY <1>2 DEF BaselineFit
    <2>4. \A u \in Ingests : ingest'[u].rows = ingest[u].rows
      BY <1>2
    <2> QED BY <1>0, <2>1, <2>2, <2>3, <2>4 DEF ModelOK
  <1>8. overlap' = "never" => SingleOK'
    <2> SUFFICES ASSUME overlap' = "never" PROVE SingleOK'
      OBVIOUS
    <2>1. SingleOK
      BY <1>3 DEF AnomalyInv
    <2>2. \A u \in Ingests, p \in {"readMean", "setStd"} : ingest'[u].pc = p <=> ingest[u].pc = p
      BY <1>2, <1>4
    <2>3. \A u \in Ingests : ingest[u].pc \in BaselineFit => ingest'[u].pc \in BaselineFit
      BY <1>2 DEF BaselineFit
    <2>4. \A u \in Ingests : ingest'[u].rows = ingest[u].rows
      BY <1>2
    <2> QED BY <1>0, <2>1, <2>2, <2>3, <2>4 DEF SingleOK
  <1>9. ScoreOK'
    <2>1. ASSUME NEW u \in Ingests, ~ingest'[u].disturbed
          PROVE  /\ ingest'[u].pc \notin Scoring
                 /\ overlap # "kinds" => ingest'[u].pc # "failed"
      BY <1>0, <1>2, <1>4, <2>1 DEF ScoreOK, Fitting, ForestFit, BaselineFit
    <2> QED BY <1>3, <2>1 DEF ScoreOK, Scoring
  <1> QED BY <1>5, <1>6, <1>7, <1>8, <1>9 DEF AnomalyInv

LEMMA FitInv ==
  ASSUME AnomalyInv, NEW t \in Ingests, Fit(t)
  PROVE  AnomalyInv'
  <1>0. ingest[t] \in Ingesting /\ ingest[t].pc = "fit"
    BY ThreadsTyped DEF Fit, AnomalyInv
  <1>1. CASE ingest[t].rows < MinRows
    <2>1. "stamp" \in Places \ Fitting /\ "stamp" \notin Scoring /\ "fit" \notin Fitting \cup {"stamp"}
      BY DEF Places, Scoring, Fitting, ForestFit, BaselineFit
    <2> QED BY <1>0, <1>1, <2>1, AsideGo DEF Fit
  <1>2. CASE ~(ingest[t].rows < MinRows)
    <2>1. ingest[t].rows >= MinRows
      BY <1>0, <1>2 DEF Ingesting
    <2>2. "setForest" \in ForestFit /\ "clearForest" \in BaselineFit
      BY DEF ForestFit, BaselineFit
    <2> QED BY <1>0, <1>2, <2>1, <2>2, StartFitInv DEF Fit
  <1> QED BY <1>1, <1>2

\* The assignments of a fit: what they leave as it was.
LEMMA AssignFacts ==
  ASSUME AnomalyInv, NEW t \in Ingests, NEW kin \in {ForestFit, BaselineFit}, ingest[t].pc \in kin,
         NEW place \in kin \cup {"stamp"}, Go(t, place), UNCHANGED <<stored, fittedAt, overlap>>,
         forest' \in 0..MaxEvents, mean' \in 0..MaxEvents, std' \in 0..MaxEvents
  PROVE  /\ AnomalyTypeOK' /\ FitsOK' /\ ScoreOK'
         /\ ingest[t].rows \in MinRows..MaxEvents /\ ingest[t].rows # None
         /\ ingest'[t].pc = place
         /\ \A u \in Ingests : ingest'[u].rows = ingest[u].rows
         /\ \A u \in Ingests : u # t => ingest'[u].pc = ingest[u].pc
         /\ overlap = "never" =>
              \A u \in Ingests : u # t => ingest[u].pc \notin Fitting /\ ingest'[u].pc \notin Fitting
         /\ overlap # "kinds" =>
              \A u \in Ingests : ingest[u].pc \in Fitting => ingest[u].pc \in kin
  <1>0. /\ AnomalyTypeOK /\ ingest \in [Ingests -> Ingesting] /\ FitsOK /\ ScoreOK
        /\ ingest' = [ingest EXCEPT ![t] = Moved(t, place)]
    BY ThreadsTyped, GoFacts DEF AnomalyInv
  <1>1. /\ ingest'[t].pc = place /\ ingest'[t].rows = ingest[t].rows
        /\ \A u \in Ingests : u # t => ingest'[u] = ingest[u]
    BY <1>0 DEF Moved
  <1>2. ingest[t].pc \in Fitting /\ place \in Fitting \cup {"stamp"} /\ place \notin Scoring /\ place # "failed"
    BY DEF Fitting, ForestFit, BaselineFit, Scoring
  <1>3. ingest' \in [Ingests -> Ingesting]
    <2>1. place \in Places
      BY <1>2 DEF Places
    <2>2. Moved(t, place) \in Ingesting
      BY <1>0, <2>1 DEF Moved, Ingesting
    <2> QED BY <1>0, <2>2
  <1>4. AnomalyTypeOK'
    BY <1>0, <1>3 DEF AnomalyTypeOK, Ingesting, Places
  <1>5. ForestFit \cap BaselineFit = {} /\ "stamp" \notin Fitting
    BY DEF Fitting, ForestFit, BaselineFit
  <1>6. overlap # "kinds" => \A u \in Ingests : ingest[u].pc \in Fitting => ingest[u].pc \in kin
    BY <1>0, <1>5 DEF FitsOK, Fitting
  <1>7. overlap = "never" => \A u \in Ingests : u # t => ingest[u].pc \notin Fitting
    BY <1>0, <1>2 DEF FitsOK
  <1>8. FitsOK'
    <2>1. \A u \in Ingests : ingest'[u].pc \in Fitting => ingest'[u].rows >= MinRows
      BY <1>0, <1>1, <1>2 DEF FitsOK
    <2>2. overlap' = "never" =>
            \A u, v \in Ingests : ingest'[u].pc \in Fitting /\ ingest'[v].pc \in Fitting => u = v
      BY <1>1, <1>7
    <2>3. overlap' # "kinds" => \A u \in Ingests : ingest'[u].pc \in Fitting => ingest'[u].pc \in kin
      BY <1>1, <1>5, <1>6
    <2> QED BY <1>5, <2>1, <2>2, <2>3 DEF FitsOK, Fitting
  <1>9. ScoreOK'
    <2>1. ~NoFit
      BY <1>2 DEF NoFit
    <2>2. ASSUME NEW u \in Ingests, ingest'[u].pc \in Scoring \ {"gate"} PROVE ingest'[u].disturbed
      BY <1>0, <1>1, <1>2, <2>1, <2>2 DEF ScoreOK
    <2>3. ASSUME NEW u \in Ingests, overlap # "kinds", ingest'[u].pc = "failed" PROVE ingest'[u].disturbed
      BY <1>0, <1>1, <1>2, <2>3 DEF ScoreOK
    <2>4. {"useForest", "check", "use"} \subseteq Scoring \ {"gate"}
      BY DEF Scoring
    <2> QED BY <2>2, <2>3, <2>4 DEF ScoreOK
  <1>10. ingest[t].rows \in MinRows..MaxEvents /\ ingest[t].rows # None
    BY <1>0, <1>2 DEF FitsOK, Ingesting, None
  <1> QED BY <1>1, <1>4, <1>6, <1>7, <1>8, <1>9, <1>10

LEMMA AssignForestInv ==
  ASSUME AnomalyInv, NEW t \in Ingests, AssignForest(t)
  PROVE  AnomalyInv'
  <1>0. AnomalyTypeOK /\ UNCHANGED <<stored, fittedAt, overlap>> /\ None \in 0..MaxEvents
    BY DEF AnomalyInv, AssignForest, None
  <1>1. CASE ingest[t].pc = "setForest"
    <2>1. /\ Go(t, "dropMean") /\ forest' = ingest[t].rows /\ mean' = mean /\ std' = std
          /\ ingest[t].rows \in 0..MaxEvents
      BY <1>0, <1>1, ThreadsTyped DEF AssignForest, Ingesting
    <2>2. ingest[t].pc \in ForestFit /\ "dropMean" \in ForestFit
      BY <1>1 DEF ForestFit
    <2> DEFINE Facts ==
          /\ AnomalyTypeOK' /\ FitsOK' /\ ScoreOK'
          /\ forest' # None
          /\ ingest'[t].pc = "dropMean"
          /\ \A u \in Ingests : u # t => ingest'[u].pc = ingest[u].pc
          /\ overlap # "kinds" => \A u \in Ingests : ingest[u].pc \in Fitting => ingest[u].pc \in ForestFit
          /\ overlap = "never" => \A u \in Ingests : u # t => ingest'[u].pc \notin Fitting
    <2>3. Facts
      BY <1>0, <2>1, <2>2, AssignFacts DEF AnomalyTypeOK
    <2>4. overlap # "kinds" => ModelOK'
      BY <1>0, <2>3 DEF ModelOK, Fitting, ForestFit, BaselineFit
    <2>5. overlap = "never" => SingleOK'
      BY <1>0, <2>3 DEF SingleOK, Fitting, BaselineFit
    <2> QED BY <1>0, <2>3, <2>4, <2>5 DEF AnomalyInv
  <1>2. CASE ingest[t].pc \in {"dropMean", "dropStd"}
    <2>1. PICK place \in {"dropStd", "stamp"} :
            /\ Go(t, place) /\ forest' = forest
            /\ mean' \in {mean, None} /\ std' \in {std, None}
            /\ ingest[t].pc = "dropMean" => mean' = None
      BY <1>2 DEF AssignForest
    <2>2. ingest[t].pc \in ForestFit /\ place \in ForestFit \cup {"stamp"}
      BY <1>2 DEF ForestFit
    <2> DEFINE Facts ==
          /\ AnomalyTypeOK' /\ FitsOK' /\ ScoreOK'
          /\ ingest'[t].pc = place
          /\ \A u \in Ingests : u # t => ingest'[u].pc = ingest[u].pc
          /\ overlap # "kinds" => \A u \in Ingests : ingest[u].pc \in Fitting => ingest[u].pc \in ForestFit
          /\ overlap = "never" => \A u \in Ingests : u # t => ingest'[u].pc \notin Fitting
    <2>3. Facts
      BY <1>0, <2>1, <2>2, AssignFacts DEF AnomalyTypeOK
    <2>4. overlap # "kinds" => ModelOK' /\ forest # None
      <3> SUFFICES ASSUME overlap # "kinds" PROVE ModelOK' /\ forest # None
        OBVIOUS
      <3>1. ModelOK
        BY DEF AnomalyInv
      <3>2. forest # None /\ forest' # None
        BY <1>2, <2>1, <3>1 DEF ModelOK
      <3>3. \A u \in Ingests : ingest'[u].pc \notin BaselineFit
        BY <2>3 DEF Fitting, ForestFit, BaselineFit
      <3>4. (\A u \in Ingests : ingest'[u].pc # "dropMean") => mean' = None
        BY <1>2, <2>1, <2>3, <3>1, <3>2 DEF ModelOK
      <3> QED BY <3>2, <3>3, <3>4 DEF ModelOK, BaselineFit
    <2>5. overlap = "never" => SingleOK'
      BY <1>0, <2>1, <2>3, <2>4 DEF SingleOK, Fitting, BaselineFit
    <2> QED BY <1>0, <2>3, <2>4, <2>5 DEF AnomalyInv
  <1> QED BY <1>1, <1>2 DEF AssignForest

\* Only fits of the two kinds at once take the mean from under a fit.
LEMMA BrokenFitInv ==
  ASSUME AnomalyInv, NEW t \in Ingests, ingest[t].pc = "readMean", mean = None,
         Go(t, "failed"), UNCHANGED <<stored, fittedAt, overlap, Model>>
  PROVE  AnomalyInv'
  <1>0. /\ AnomalyTypeOK /\ ingest \in [Ingests -> Ingesting] /\ FitsOK /\ ScoreOK
        /\ ingest' = [ingest EXCEPT ![t] = Moved(t, "failed")]
    BY ThreadsTyped, GoFacts DEF AnomalyInv
  <1>1. /\ ingest'[t].pc = "failed" /\ ingest'[t].rows = ingest[t].rows
        /\ \A u \in Ingests : u # t => ingest'[u] = ingest[u]
    BY <1>0 DEF Moved
  <1>2. ingest[t].pc \in Fitting /\ "failed" \notin Fitting \cup Scoring
    BY DEF Fitting, ForestFit, BaselineFit, Scoring
  <1>3. overlap = "kinds"
    BY DEF AnomalyInv, ModelOK
  <1>4. ingest' \in [Ingests -> Ingesting]
    <2>1. Moved(t, "failed") \in Ingesting
      BY <1>0 DEF Moved, Ingesting, Places, Resting
    <2> QED BY <1>0, <2>1
  <1>5. AnomalyTypeOK'
    BY <1>0, <1>4 DEF AnomalyTypeOK, Ingesting, Places, Model
  <1>6. FitsOK'
    BY <1>0, <1>1, <1>2, <1>3 DEF FitsOK
  <1>7. ~NoFit
    BY <1>2 DEF NoFit
  <1>8. ScoreOK'
    BY <1>0, <1>1, <1>2, <1>3, <1>7 DEF ScoreOK
  <1> QED BY <1>3, <1>5, <1>6, <1>8 DEF AnomalyInv

LEMMA AssignBaselineInv ==
  ASSUME AnomalyInv, NEW t \in Ingests, AssignBaseline(t),
         ingest[t].pc = "readMean" => mean # None
  PROVE  AnomalyInv'
  <1>0. /\ AnomalyTypeOK /\ UNCHANGED <<stored, fittedAt, overlap>> /\ None \in 0..MaxEvents
        /\ ingest[t].rows \in 0..MaxEvents
        /\ ingest[t].pc \in BaselineFit
    BY ThreadsTyped DEF AnomalyInv, AssignBaseline, None, BaselineFit, Ingesting
  <1>1. PICK place \in {"setMean", "readMean", "setStd", "stamp"} :
          /\ Go(t, place)
          /\ \/ /\ ingest[t].pc = "clearForest" /\ place = "setMean"
                /\ forest' = None /\ mean' = mean /\ std' = std
             \/ /\ ingest[t].pc = "setMean" /\ place = "readMean"
                /\ forest' = forest /\ mean' = ingest[t].rows /\ std' = std
             \/ /\ ingest[t].pc = "readMean" /\ place = "setStd"
                /\ forest' = forest /\ mean' = mean /\ std' = std
             \/ /\ ingest[t].pc = "setStd" /\ place = "stamp"
                /\ forest' = forest /\ mean' = mean /\ std' = ingest[t].rows
    BY DEF AssignBaseline, Model
  <1>2. /\ place \in BaselineFit \cup {"stamp"}
        /\ forest' \in 0..MaxEvents /\ mean' \in 0..MaxEvents /\ std' \in 0..MaxEvents
    BY <1>0, <1>1 DEF BaselineFit, AnomalyTypeOK
  <1>3. /\ AnomalyTypeOK' /\ FitsOK' /\ ScoreOK'
        /\ ingest[t].rows # None /\ ingest'[t].pc = place
        /\ \A u \in Ingests : ingest'[u].rows = ingest[u].rows
        /\ \A u \in Ingests : u # t => ingest'[u].pc = ingest[u].pc
        /\ overlap = "never" => \A u \in Ingests : u # t => ingest'[u].pc \notin Fitting
        /\ overlap # "kinds" => \A u \in Ingests : ingest[u].pc \in Fitting => ingest[u].pc \in BaselineFit
    BY <1>0, <1>1, <1>2, AssignFacts
  <1>4. overlap # "kinds" => ModelOK'
    <2> SUFFICES ASSUME overlap # "kinds" PROVE ModelOK'
      OBVIOUS
    <2>1. ModelOK
      BY DEF AnomalyInv
    <2>2. \A u \in Ingests : ingest'[u].pc \notin {"dropMean", "dropStd"}
      BY <1>1, <1>3 DEF Fitting, ForestFit, BaselineFit
    <2>3. forest' = None
      BY <1>1, <2>1 DEF ModelOK
    <2>4. (\A u \in Ingests : ingest'[u].pc \in {"readMean", "setStd"} => mean' # None)
          /\ (place = "stamp" => mean' # None)
      BY <1>1, <1>3, <2>1 DEF ModelOK
    <2>5. CASE place = "setMean"
      <3>1. ingest'[t].pc \in BaselineFit /\ ingest'[t].pc = "setMean"
        BY <1>3, <2>5 DEF BaselineFit
      <3> QED BY <2>2, <2>3, <2>4, <3>1 DEF ModelOK
    <2>6. CASE place \in {"readMean", "setStd"}
      <3>1. ingest'[t].pc \in BaselineFit /\ mean' # None
        BY <1>3, <2>4, <2>6 DEF BaselineFit
      <3> QED BY <2>2, <2>3, <2>4, <3>1 DEF ModelOK
    <2>7. CASE place = "stamp"
      <3>1. mean' # None /\ std' # None
        BY <1>1, <1>3, <2>4, <2>7
      <3> QED BY <2>2, <2>3, <2>4, <3>1 DEF ModelOK
    <2> QED BY <2>5, <2>6, <2>7
  <1>5. overlap = "never" => SingleOK'
    <2> SUFFICES ASSUME overlap = "never" PROVE SingleOK'
      OBVIOUS
    <2>1. SingleOK
      BY DEF AnomalyInv
    <2>2. \A u \in Ingests, p \in {"readMean", "setStd"} : ingest'[u].pc = p => u = t /\ place = p
      BY <1>3 DEF Fitting, BaselineFit
    <2>3. place # "stamp" => ingest'[t].pc \in BaselineFit
      BY <1>3 DEF BaselineFit
    <2>4. place = "stamp" => mean' = std'
      BY <1>1, <2>1 DEF SingleOK
    <2>5. place \in {"readMean", "setStd"} => mean' = ingest'[t].rows
      BY <1>1, <1>3, <2>1 DEF SingleOK
    <2> QED BY <2>2, <2>3, <2>4, <2>5 DEF SingleOK
  <1> QED BY <1>0, <1>3, <1>4, <1>5 DEF AnomalyInv

LEMMA StampInv ==
  ASSUME AnomalyInv, NEW t \in Ingests, Stamp(t)
  PROVE  AnomalyInv'
  <1>0. /\ AnomalyTypeOK /\ ingest \in [Ingests -> Ingesting] /\ FitsOK /\ ScoreOK
        /\ UNCHANGED <<stored, forest, mean, std, overlap>> /\ ingest[t].pc = "stamp"
        /\ ingest' = [ingest EXCEPT ![t] = Moved(t, "gate")] /\ fittedAt' = ingest[t].rows
    BY ThreadsTyped, GoFacts DEF AnomalyInv, Stamp, Model
  <1>1. /\ ingest'[t].pc = "gate"
        /\ \A u \in Ingests : u # t => ingest'[u] = ingest[u]
    BY <1>0 DEF Moved
  <1>2. {"gate", "stamp"} \cap Fitting = {} /\ "gate" \in Places
    BY DEF Fitting, ForestFit, BaselineFit, Places, Scoring
  <1>3. Moved(t, "gate") \in Ingesting /\ ingest[t].rows \in 0..MaxEvents
    BY <1>0, <1>2 DEF Moved, Ingesting
  <1>4. AnomalyTypeOK'
    <2>1. ingest' \in [Ingests -> Ingesting]
      BY <1>0, <1>3
    <2> QED BY <1>0, <1>3, <2>1 DEF AnomalyTypeOK, Ingesting, Places
  <1>5. \A u \in Ingests : ingest'[u].pc \in Fitting => u # t /\ ingest'[u] = ingest[u]
    BY <1>1, <1>2
  <1>6. FitsOK'
    BY <1>0, <1>5 DEF FitsOK, Fitting
  <1>7. \A u \in Ingests, p \in Fitting : ingest'[u].pc = p <=> ingest[u].pc = p
    BY <1>0, <1>1, <1>2
  <1>8. ASSUME ModelOK PROVE ModelOK'
    <2>1. (\A u \in Ingests : ingest'[u].pc # "setMean") =>
            \/ forest' # None \/ mean' # None
            \/ fittedAt' < MinRows /\ \A u \in Ingests : ingest'[u].pc = "stamp" => ingest'[u].rows < MinRows
      <3>1. \A u \in Ingests : ingest'[u].pc = "setMean" <=> ingest[u].pc = "setMean"
        BY <1>7 DEF Fitting, BaselineFit
      <3>2. \A u \in Ingests : ingest'[u].pc = "stamp" => ingest'[u] = ingest[u]
        BY <1>1
      <3> QED BY <1>0, <1>8, <3>1, <3>2 DEF ModelOK
    <2> QED BY <1>0, <1>7, <1>8, <2>1 DEF ModelOK, Fitting, ForestFit, BaselineFit
  <1>9. ASSUME SingleOK PROVE SingleOK'
    BY <1>0, <1>5, <1>7, <1>9 DEF SingleOK, Fitting, BaselineFit
  <1>10. ScoreOK'
    <2>1. NoFit' <=> NoFit
      BY <1>0, <1>1, <1>2 DEF NoFit
    <2> QED BY <1>0, <1>1, <2>1 DEF ScoreOK
  <1> QED BY <1>0, <1>4, <1>6, <1>8, <1>9, <1>10 DEF AnomalyInv

LEMMA AnomalyInvariance == AnomalySpec => []AnomalyInv
  <1>1. ASSUME AnomalyInv, NEW t \in Ingests, AnomalyStep(t) PROVE AnomalyInv'
    <2>1. CASE AssignBaseline(t)
      <3>1. /\ ingest[t].pc = "readMean" /\ mean = None =>
                 Go(t, "failed") /\ UNCHANGED <<stored, fittedAt, overlap, Model>>
        BY <2>1 DEF AssignBaseline
      <3> QED BY <1>1, <2>1, <3>1, BrokenFitInv, AssignBaselineInv
    <2> QED BY <1>1, <2>1, StoreCountInv, DueInv, FitInv, AssignForestInv, StampInv, GateInv,
               ScoreInv, ExplainInv DEF AnomalyStep
  <1>2. ASSUME AnomalyInv, UNCHANGED anomalyVars PROVE AnomalyInv'
    BY <1>2 DEF anomalyVars, AnomalyInv, AnomalyTypeOK, FitsOK, ModelOK, SingleOK, ScoreOK, NoFit
  <1>3. AnomalyInv /\ [AnomalyNext]_anomalyVars => AnomalyInv'
    BY <1>1, <1>2 DEF AnomalyNext
  <1> QED BY AnomalyInitInv, <1>3, PTL DEF AnomalySpec

\* The attributes and the threads that use them keep their types
\* (anomaly.py:87-128, services.py:436-459).
THEOREM AnomalyTyping == AnomalySpec => []AnomalyTypeOK
  <1>1. AnomalyInv => AnomalyTypeOK
    BY DEF AnomalyInv
  <1> QED BY AnomalyInvariance, <1>1, PTL

\* Between fits the model is whole and stays trained, unless fits of the two
\* kinds have overlapped (anomaly.py:106-128).
THEOREM WholeModel == AnomalySpec => []WholeBetweenFits
  <1>1. AnomalyInv => WholeBetweenFits
    <2> SUFFICES ASSUME AnomalyInv, NoFit PROVE WholeBetweenFits
      BY DEF WholeBetweenFits
    <2>1. \A t \in Ingests : ingest[t].pc \notin BaselineFit /\ ingest[t].pc # "setMean"
      BY DEF NoFit, Fitting, BaselineFit
    <2>2. fittedAt \in Nat
      BY DEF AnomalyInv, AnomalyTypeOK
    <2> QED BY <2>1, <2>2 DEF AnomalyInv, ModelOK, SingleOK, WholeBetweenFits
  <1> QED BY AnomalyInvariance, <1>1, PTL

\* Scoring raises no error unless a fit was under way at the same time or fits
\* of the two kinds have overlapped before (anomaly.py:131-148).
THEOREM QuietScoring == AnomalySpec => []QuietScoringSucceeds
  <1>1. AnomalyInv => QuietScoringSucceeds
    BY DEF AnomalyInv, ScoreOK, QuietScoringSucceeds
  <1> QED BY AnomalyInvariance, <1>1, PTL
=============================================================================
