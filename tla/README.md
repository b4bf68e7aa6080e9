# SkyRecon in TLA+

TLA+ models of SkyRecon, a self-hosted threat-intelligence platform (FastAPI, SQLModel, SQLite or
PostgreSQL), model-checked with TLC and, where it says so, proved with TLAPS. Paths are relative to
the repository.

## How the program runs

One uvicorn process per container serves the API. Every endpoint is a synchronous function, so
Starlette runs it in a thread pool: **request handlers overlap**. Each handler has a database session
of its own (`app/db.py:50`), and the models rest on these facts about it:

- every SELECT sees the latest committed rows, and what it returned stays in the session's objects
  until the session's next commit;
- a commit is atomic and writes only the columns that were assigned;
- a SELECT first flushes pending assignments (autoflush). On SQLite the flush takes the single write
  lock, which is held until that session commits or rolls back; readers are never blocked (WAL). On
  PostgreSQL there is no such lock. The constant `WriteLock` tells the two apart;
- no row is ever read with a lock, and no handler retries.

So the unit of atomicity is one SELECT or one commit, and that is what a step of the models is.
A handler can fail at any point (an exception rolls its transaction back) and the process can die; what
was committed stays.

## Inventory

| Component | State | Operations | Interacts with | What is hard | What makes it correct |
|---|---|---|---|---|---|
| Audit log (`app/audit.py`) | `audit_log` rows | `record`, `verify_chain` | every handler ends in `record` | appends race; entry and change in different transactions; loss of rows | rows form one chain; verification tells what happened |
| Sessions (`app/routers/auth.py`, `app/security/tokens.py`) | `sessions` rows | login, refresh, replay, logout, password change | users, audit log, dashboard | stale reads, two commits per refresh, lost responses | rotation, family revocation, logout everywhere |
| Login, lockout (`auth.py`, `deps.py`) | `users.failed_logins`, `locked_until`, `password_hash` | login, refresh (clears the counter) | sessions, rate limiter | read-modify-write of the counter | five failures lock |
| MFA (`auth.py`, `security/mfa.py`) | `mfa_secret_sealed`, `mfa_enabled`, `recovery_hashes` | enrol, confirm, login | login | compare-and-set against plain writes | the confirmed secret is the shown one; a code works once |
| Accounts (`admin.py`, `rbac.py`, `deps.py`) | `users.role`, `is_active` | create, set role, disable | every guarded endpoint | two administrators at once | someone can still administer |
| Key rotation (`crypto.py`, `rotation.py`, `admin.py`) | key of each sealed field, vault cache, environment | seal, open, rotate, restart | every table | inserts during a rotation; two keys alive | nothing becomes unreadable |
| Rate limiter (`ratelimit.py`) | buckets | `check`, `reset`, `sweep` | login, guarded endpoints | clock read outside the lock | at most capacity plus refill |
| Indicators (`services.py`, `intel.py`) | `indicators` rows | upsert, retire, bulk ingest | alerts | read-modify-write, unique index | one row per value, bounded confidence |
| Events and alerts (`services.py`, `intel.py`) | `events`, `alerts`, `detection_rules` | ingest, raise, triage | indicators, rules, anomaly model | dedupe check then insert | one cause, one alert; nothing lost |
| Anomaly model (`detect/anomaly.py`) | `_model`, `_mean`, `_std` | `fit`, `score`, `explain` | ingest | process-wide object changed field by field | a trained model always scores |
| Rule engine (`detect/rules.py`) | the parser's position and stack | tokenize, parse, evaluate | ingest, rule endpoints | evaluation during parsing, deep nesting | parses as documented; a verdict at saving stands |
| Scoring, parser (`ioc/`) | none | pure functions | indicators | rounding and bounds | ranges, monotonicity |
| GeoIP (`geoip.py`) | reader table | `_open` | live intelligence | double-checked loading | a database present is used |
| Start-up (`main.py`, `config.py`) | first administrator | `bootstrap` | accounts, audit log | two processes starting; a crash before the password is shown | one usable administrator |
| Dashboard (`static/app.js`) | token pair | `api`, `renew`, poll | sessions | parallel renewals | stays signed in |
| Case desk (`console/`, `engine/`) | browser storage | edit, import, analyse | its other tabs | two tabs write one store | no case lost |

`schemas.py`, `headers.py`, `assessment.py`, `sarif_import.py` and `native_reports.py` are stateless
conversions; `db/mysql`, `tools`, `docs` and `brand` are offline material. Of `enrich.py` only the modifier
it adds to a risk is modelled (in `Scoring`), and nothing of `stix.py`, which writes records out.

## What is modelled

### `AuditLog` — `app/audit.py` and how it is called

`log` is the set of committed `audit_log` rows. A row holds `seq`, `body` (all described fields),
`prev` and `hash`; SHA-256 is taken to be collision-free, so the hash *is* the tuple it covers.
Each member of `Entries` is one call of `record()` a request may make. Its handler goes through
`Arrive`, then the change the entry describes, then `ReadLast` (the SELECT of `audit.py:50`) and `Insert`
(`audit.py:68-69`). The constant `Follow` says which entry the handler records next, if any (`GoOn`). The constant `Kind` says how the change relates to `record()`:

- `"after"`: committed before the call (`CommitChange`; most handlers, for example `admin.py:76-77`);
- `"with"`: pending, flushed by `record()`'s own SELECT and committed by its commit (`FlushChange`;
  the lockout, `auth.py:86-91`). On SQLite the flush takes `writer`, the write lock;
- `"alone"`: there is none (a failed login, `auth.py:94`).

A login that locks the account records the lockout `"with"` its change and then, with nothing pending and without the
lock, the failed login, `"alone"` (`auth.py:86-95`); the instance has one such pair.

`Fail` is an exception in one handler, `Crash` the death of the process; both are bounded by
`MaxFaults`. `verify_chain` is the group `OrdersBySeq`, `Bad`, `FirstBad`, `Intact`: the order of rows with
equal `seq` is left open by the query (`audit.py:76`), so the properties quantify over all of them.

`AuditChain` is the promise of a chain whose appends do not exclude one another: the sequence a verification confirms
grows at its end, each entry recorded once, until an append that was overtaken between its read and its insert forks the
log; from then on it is only cut back. `Confirmed` (the entries below the first fork), `Forked` and `Overtaken` map the
rows and the reads under way to it. A crash may take all overtaken appends with it (`GiveUp`).

### `Sessions` — refresh tokens

Rows are numbered as they are inserted (`last`), and `owner`, `family`, `revoked`, `replacedBy` and `expired`
are the columns of `sessions`; `active` and `password` are the columns of `users` that decide.
`job[h]` is what thread `h` has loaded and where it is. Login is `Verify`, `LoginIssue`, `Respond`;
refresh is `LoadRow`, `LoadUser`, `RefreshIssue`, `RefreshRevoke`, `Respond`, or for a token found revoked
`ReplaySelect`, `ReplayRevoke`; then `LogoutLoad`/`LogoutRevoke`,
`PasswordCheck`/`PasswordSelect`/`PasswordCommit`, and `Disable`. A token can be presented once it is in
`delivered`, as often as the client likes: an old token presented again is the ordinary retry after a
lost response. `parent`, `secret`, `burned` and `late` are history variables that no guard reads.

Left out: the lock, second factor and rate limit, which only keep a login from reaching `Verify`;
the access token's expiry; tokens that match no row (a 401 without effect); `user_agent` and `ip`.

`TokenFamilies` is the promise: a session has one token in use, a use replaces it by one never in use
before, and a closed session stays closed. `Used` and `Holder` map the table to it; a rotation takes effect
when the presented row is revoked.

### `KeyRotation` — `crypto.py`, `rotation.py`, `rotate_keys`

Rows are numbered as they are inserted and belong to a table of `PLAN`. A row has two fields: `"value"` stands
for the sealed columns and blind indexes it is inserted with, which move together, and `"note"` for the one
column that is set later (`users.mfa_secret_sealed` by `mfa_enroll`, a compare-and-set, and
`alerts.resolution_note_sealed` by `triage`, a plain write). `under` is the key each field is sealed under. Tables
are numbered in the order of `PLAN` with users first, alerts before the last, `audit_log` last; indicators,
events and sessions behave alike and one table in between would add nothing.

`Seal`/`Store` is any handler that inserts a row, `Note`/`SetNote` one that sets a note. A rotation is
`RotateBegin`, one `RotateTable` per table (the SELECT first flushes, which takes the write lock on SQLite and row
locks on PostgreSQL: `writer`, `Flushed`), `RotateCommit`, `RotateRecord` (its audit entry), `RotateReset`
(`reset_vault`) and `RotateAnswer`. `vault` is the cached vault, `env` the key of the cached settings, `known` what
the operator has; `Deploy` is the restart with a newer key once the pool is idle. `Fail` and `Crash` are bounded
by `MaxFaults`.

Left out: the contents of fields (so a note overwritten by a rotation that had read the old one shows only as
a field under the new key), lookups by blind index, which fail between commit and restart, and the dry run.

### `Login` — one account's row

`failed`, `lock`, `hash` and `mfa` are the columns `failed_logins`, `locked_until`, `password_hash` (which
password verifies, and whether its parameters are old) and the three MFA columns of `auth.py`. `request[h]` is what
thread `h` does and keeps of the row *as it loaded it*; a commit writes only the columns it assigned whose value
differs from the loaded one, which is why `Issue` clears the counter only if it was loaded as not clear. A wrong
password is `WrongPassword`, `CountFailure` (one commit for counter and lock); a login is `RightPassword` or
`RecoveryCode`, `SpendCode`, `Reload` (the row is loaded again after the code's commit), then `RecordLogin` (the audit
entry's commit carries a rehash along), `LoadForIssue` and `Issue`; a refresh enters at `LoadForIssue`, with no look
at the lock. `Enroll` and `Confirm` are the two compare-and-sets. `Expire` is the lock's time running out, which leaves
the counter. `chosen`, `guesses`, `proof`, `uses` and `crossed` are history variables that no guard reads.

Left out: that a time-based code verifies (an input of the actions), the sessions a login issues (`Sessions`), the
limit in front of it (`RateLimiter`).

### `AccessControl` — roles, accounts, first administrator

`accounts` is the users table by e-mail address, `tokens` every access token ever issued (they do not expire
here, which only adds behaviours). A request is `Check` (`deps.py` and the handler's own refusals), `Load`
(`session.get` of the target) and `Commit` (`Changed`: only the assigned column, and only if it differs from what
was loaded). `bootstrap` of each process is `LookForRules` and `SeedRules` (`seed_builtin_rules`: `rules` tells whether its
one commit has been made), `FindEmpty`, `CreateAdmin`, `ShowPassword`; the unique index on names may refuse
`SeedRules` and the one on addresses `CreateAdmin`; `Crash` at any point of it. A process that lost a race starts again. `shown`, `crossed` and
`late` are history; `late` counts, for each account and each right, the requests that got through without it.

### `Pipeline` and `AlertDesk` — indicators, events, rules, alerts

`rows`, `hits` and `alerts` are the tables; `work[h]` is what a request has loaded (`read` are the counts, which
stay as they were loaded until its next commit). An ingest is `Ingest` (the event's own commit), `Match` per value,
`Sight` per matched indicator, `Evaluate` per rule, `Score`, `Finish`; each raise in between is `Look` and `Settle`.
`Look` is the SELECT for an open alert, which first flushes the pending `hit_count` and so takes SQLite's write lock
(`Flush`, `writer`); the anomaly's raise has nothing pending and takes none. Reports are `Report`, `Find`, `Store`;
single rows change by `RetireLoad`/`Retire`, `CreateLoad`/`CreateRule`, `DeleteLoad`/`DeleteRule` and
`TriageLoad`/`Triage`. `Refused` is what the database refuses (a row that is gone, a second row of one name),
`Fail` any other error or the end of the process at any point. Which values an event contains and which rules match are
free choices. `raised`, `reported` and `overlap` are history.

`AlertDesk` is the promise: a raise counts on the open alert of its cause or opens one under a new id, in one step.
`CountedDesk` maps the alerts of indicators and rules to it; those of anomalies, read without a lock, promise less.
Time is counted in dedupe windows. The model is of the SQLite build; PostgreSQL, where the flush locks one row, is not modelled.

### `RateLimiter`, `AnomalyModel`, `GeoReaders` — what threads of one process share

`RateLimiter`: `ReadClock` is the reading of `time.monotonic()` outside the lock, `Check` all that follows under it, so
readings reach a bucket in any order. Tokens are counted in the units that flow back per tick, which keeps the arithmetic
whole. `ledger` is history: what was admitted since an arbitrary update (`Mark`) and since the bucket was full.

`AnomalyModel`: `forest`, `mean` and `std` are `_model`, `_mean` and `_std`, each holding the number of rows of
the fit that set it; every assignment of `fit`, its second look at `_mean`, and every read of `is_trained`, `score`, `explain` and `_z` is a step.
`overlap` is history: whether two fits overlapped, and of one kind (baseline, forest) or both.

`GeoReaders`: `_open` as `Begin` (the unlocked look), `Lock`, `Open`, `Publish`, `Get`, with a file that is there,
missing or unreadable.

They never touch one another: in `MCSharedObjects` a behaviour is about one of them, its `focus`.

### `RuleEngine`, `Extraction`, `Scoring` — the pure parts

`RuleEngine` is the recursive descent parser, which evaluates while it parses, as a machine: `at` is the place in its code,
`calls` are the calls it is in the middle of, each known by the token it has eaten, `lefts` what they hold in local variables,
and `depth` the frames on Python's stack, of which there are `MaxDepth`. `Step` has one operator per place, named after the method
(`NotExpr`, `Primary`, `AfterPrimary` for what follows a call of `primary`, and so on); the methods that only call the next one have
no place of their own. A parser ends `accepted`, `rejected`, with a `badPattern`, or with one of the errors that no caller
catches, `overflowed` and `exhausted`. A rule is validated against dummy facts (`Probe`) and evaluated against those of every event;
there is a parser for each set of facts, and they read one rule side by side (`Advance`), so that they can be compared.
`RevealToken` and `RevealEnd` choose the rule as it is read. `RuleGrammar` is the reference definition: the grammar as sets of
derivations (`Disjunction` and below), every way to cut the tokens up. `Extraction` is the loop by which types
claim parts of a text, given what the regular expressions match: `FindMatch` grows the text, `TryType` is one pass of the
loop of `extract`, for a report and for an event side by side. `Scoring` is the arithmetic of confidence and risk,
in units that keep it whole and with Python's rounding, for a half-life of at least a day, and the life of one stored indicator; the powers the code computes
afresh from age and hits, 2^(age/half-life) and 0.75^hits, are kept as `faded` and, as a fraction, `doubt`. `MCDetection`
puts the three next to one another, one focus per behaviour, and bounds the rules.

## Runs

Each `.cfg` sets the constants of the `MC` module of its component.

| Run | Instance | Shows |
|---|---|---|
| `AuditConcurrent` | 5 entries of all kinds, a lockout and its failed login among them, 3 handlers at a time, SQLite, 1 fault, fair | whatever races: rows form a tree rooted at GENESIS (`Linked`); verification objects exactly when two rows share a `seq`, at the smallest, in every tie order (`VerdictIsExact`); losing a continued row is reported (`InnerLossIsReported`); a committed change without an entry is due to a fault, at most as many for each as handlers ran, and is never one that was pending (`LossesAreFew`); every handler the pool runs ends (`EveryRequestIsRecorded`); what is confirmed only grows until an overtaken append forks the log (`ImplementsChain`) |
| `AuditGap` | the same | *violated* `ChangesAreRecorded`: a handler of `admin.py:76` commits its change and fails before `record()` commits the entry |
| `SessionsConcurrent` | 2 threads, 1 user, 3 tokens, 1 password change, 1 fault, SQLite, symmetric threads | whatever overlaps: tokens stay in their user's family and `replaced_by` points to a row issued for it (`SuccessionOK`); a delivered token's predecessor is revoked (`HandoverRevokes`); a disabled account gets at most one late row per thread (`DisabledStaysOut`) |
| `SessionsSerial` | 1 thread, 2 users, 3 tokens, 1 password change, 1 fault, PostgreSQL | without overlap the documented promises hold, failures and crashes included (`SingleUse`, `BurnedFamilyIsDead`, `LivesUnderCurrentPassword`), and each family is a token that moves (`ImplementsFamilies`) |
| `RotationConcurrent` | 2 threads, 3 tables, 4 rows, 2 new keys, 1 fault, PostgreSQL, symmetric threads | a rotation about to return its key has moved every field that was there when it began and was not set since (`RotationIsComplete`); a field under another key than the configured one stops every rotation (`StaleFieldBlocks`); without a failure no field is under a key that is neither known nor on its way (`KeyIsReturned`) |
| `RotationEntry` | 1 thread, no faults | *violated* `NothingLeftBehind`: the rotation's own audit entry is sealed under the key it retires, and from then on `StaleFieldBlocks` stops every later rotation |
| `Login` | 2 symmetric threads, lock after 3 failures, counter up to 4, 2 codes per enrolment, 2 password changes, 2 enrolments | lost increments only slow the lock down: fewer than 1+2+3 failures are committed before it (`AttemptsAreBounded`); only a secret the user has shown to work is asked for (`EnabledSecretIsProved`); a recovery code works once unless two logins use codes at once (`CodesWorkOnce`); the password that verifies is the last one set, or the one from before its hash was upgraded (`LastPasswordHolds`) |
| `AccessControl` | 2 addresses, roles viewer, admin and an unknown one, 2 threads, 2 processes, 1 crash | an active administrator remains unless requests of two administrators overlap (`AdminRemains`); who loses a right gets fewer requests through than there are threads (`LateChangesAreFew`); one password is printed or lost to a crash (`PasswordIsPrintedOnce`); each process serves in the end (`ProcessesServe`) |
| `Pipeline` | any 3 requests, 2 at a time, symmetric threads, 2 values and 2 rules of which one each is stored, 2 windows, an error at any step | every raise is an occurrence of an alert and every occurrence a raise (`EveryRaiseIsCounted`); `hit_count` is never too high and too low only where two requests had the row loaded at once (`HitsMissOnlyOverlaps`); a deleted rule raises nothing (`DeletedRulesAreSilent`); to everybody else SELECT and commit of a raise are one step (`ImplementsDesk`) |
| `SharedObjects` | 2 threads, bucket of 4 units, 2 per call, clock to 6; 2 ingests, 7 events, fits from 2 rows, forests from 4; 3 lookups | no order of threads admits more than a bucket and its refill, or refuses too early (`AllowanceBound`, `NeverRefusedEarly`); scoring fails only under an overlapping fit (`QuietScoringSucceeds`) and the model is whole between fits (`WholeBetweenFits`), unless fits of both kinds overlapped; a lookup is empty without the file or while it is opened (`EmptyOnlyWithoutFile`), and ends (`LookupsEnd`) |
| `Detection` | every rule of up to 5 tokens of logic or 4 of comparisons, longer ones (7 and 5) as long as they may still become one, the built-in rules; 5 sets of facts, 11 frames; every text of up to 4 matches of 4 types over 3 places, type by type; 3 reports and 2 half-lives from every source | the parser accepts what its grammar derives and finds its one value, whatever the facts (`ParsesItsGrammar`); a verdict at saving stands (`AcceptedOnceIsAcceptedAlways`); best type first (`BestTypeFirst`); an indicator of a report is recognised in an event unless noise of an earlier type reaches it through overlaps (`ReportsAreRecognised`); confidence stays under the ceiling of its sources (`ConfidenceIsEarned`), seeing never lowers a risk and silence never raises it (`RiskFollowsSightings`) |
| `RuleOverflow` | the rules of comparisons | *violated* `NoRuleBreaksIngestion`: comparing a field with an integer no float can hold raises an error nobody catches |

The violated properties are sentences of the repository; `PROJECT.json` quotes each with its line. Other sentences
hold only under a condition, which the passing runs state instead:

- "Append-only, hash-chained" (`app/models.py:188`): with one handler at a time, or up to the first fork. Two appends
  that read one tip fork the untouched log, on SQLite too: a lockout inserts under the write lock, its failed login
  (`auth.py:94`) does not. The loss of the log's newest row is not noticed.
- rotation, replay and "log out everywhere": one handler at a time. Overlapping handlers can deliver two successors of
  one token, leave a successor alive in a replayed family, or a session from before a password change.
- "each works once" (`auth.py:239`): unless two logins use codes at the same time.
- "Every stored indicator that literally appears in this payload" (`services.py:254`): unless noise, which an event
  keeps and a report drops, claims its place, or that of a match that would have kept a third one from claiming it. With
  four types such a chain exists; overlapping the noise directly is not the only way to be hidden.
- "64 for OSINT" of the ceiling of a source (`ioc/scoring.py:49`): the formula gives 73.
- "into an expression tree, then walks the tree" (`docs/ARCHITECTURE.md:100`): there is no tree, the parser evaluates as
  it reads (`AcceptedOnceIsAcceptedAlways` and `ParsesItsGrammar` say that this makes no difference).

**Bounds.** Three appends at a time with two to come are enough for a fork, a fork of a fork and an
append on top of a fork. Three tokens are enough for a token, its
successor and the successor's successor or rival, two threads for every pair of handlers; a second user
shows that nothing leaks between accounts. One fault puts a failure or crash at each point of each
handler. For rotation, two threads put an insert, a note or another rotation at each point of a rotation; the two
rows that can be added let one be an alert and one the rotation's entry; PostgreSQL allows every interleaving
SQLite does, and more. For logins, three failures leave room for an increment lost at each count, two codes and two
enrolments for a code of an earlier secret, two changes for a rehash between them. Two administrators and two threads
are the smallest case of every race between administrators, an unknown role the one a request may name.
Three requests let two overlap after or before a third, so an alert, a rule or an indicator can be there, be raised
twice and be triaged or deleted meanwhile. A bucket of two calls and a clock that passes its window once fill,
drain and refill it; seven events make fits of both kinds due, again and at once; three lookups are one that opens the
file, one that waits and one that comes late. A rule of seven tokens nests every connective in every other one; longer
ones only repeat the recursion. Eleven frames hold two parentheses and a `not`, so that three of them, or two and two `not`s,
exhaust the stack; the facts hold nothing, an empty text, one that matches, an invalid pattern and a number.
`MaxTokens`, `MaxChanges`, `MaxRows`, `MaxKeys`, `MaxFaults`, `MaxCount`,
`MaxEnrolled`, `MaxCrashes`, `MaxRequests`, `MaxTime`, `MaxClock`, `MaxEvents`, `MaxHits` and `MaxIdle` only bound guards.

**Deadlock.** The audit runs check it (`Finished` is the only stutter), and so does `Login`. The other runs say
`CHECK_DEADLOCK FALSE`: they stop where a bound is reached and no request is left, and `AccessControl` also where
no account is active any more.

**Fairness.** `AuditLog`'s `FairSpec` assumes that a handler which can take its next step eventually does
(`WF_vars(Handle(e))`): it runs on a thread of its own, and SQLite's busy handler retries for the lock. A
handler may lose the lock to another one, but only finitely many entries are in the system, so weak
fairness suffices. `AccessControl` assumes it of each process that starts (`GoOn`): the container runtime starts a
process that ended again (`restart: unless-stopped`). `GeoReaders` assumes it of each lookup once begun: the lock is
held across steps only by the one that opens the file. Nothing is assumed of arrivals, faults or clients.

## Proofs

`AuditLogProofs` proves about `AuditLog`, for every set of entries, every `Kind` and `Follow`, pool size and either
database, from the named assumptions on the constants alone:

- `Typing`: `TypeOK`, inductive as it stands. Its core is that each row carries the digest of its own
  contents.
- `LogIsLinked`: `Linked` needs the strengthening `BaseContinues` — what a handler has read continues a
  row that is still there, however long ago it read — because `Insert` uses `base`, not the log.
- `VerdictTheorem`: a statement about every ordering of a typed and linked log. The second of
  two rows with one `seq` cannot continue the first (its digest would contain itself at a smaller
  `seq`), and a row at the first bad position whose `seq` is unique has its only possible predecessor right
  before it.
- `InnerLossTheorem`: if the remaining rows verified, the row that continued the lost one would follow
  a row with the lost row's digest, hence the lost row.
- `NothingInventedTheorem`: by the invariant that a handler of kind `"after"` has its change committed from
  `CommitChange` on.
- `SerialIsIntact`: `ChainIsIntact` for `PoolSize = 1`, from the invariant of a log without forks and a handler whose read is
  still the tip.
- `LossesTheorem`: only a fault ends a handler whose change is committed and whose entry is not, and a fault ends no more
  handlers than are busy, which are at most `PoolSize` (`Busy` shrinks or keeps its size in every step but `Arrive`).
  A change that was pending is committed with its entry.
- `ImplementsChainTheorem`: `ImplementsChain` without any condition. The argument is about the sequence numbers: below the
  first fork they are 1 to some `k` with one row each, above it up to some `m` (`Shape`). An insert of a handler whose read is
  still the tip adds number `m + 1` and is a `Record` of an unforked log or a `Bury`; one that was overtaken repeats a number and is a
  `Fork` or a `Bury`; every other step leaves the rows alone.
- `SerialOnlyGrows`: with `PoolSize = 1` every step that changes the log is a `Record`, so nothing is ever cut back.
- `LockIsPendingTheorem`: by the invariant that whoever holds the lock is between flush and commit.
- `LockedReadTheorem`: on SQLite every insert needs the lock, so nobody else inserts while it is held.

`SessionsProofs` proves about `Sessions`, for every finite pool, any users, bounds and either database:

- `SessionsTyping`: `TypeOK` holds only together with `JobsOK` (what a handler has loaded fits the place it is
  at: the row exists, its owner is the job's user, a successor comes after it) and `RowsOK` (a row's parent is
  older, of its own family and owner). `IInv` is the conjunction.
- `SuccessionTheorem`, `HandoverTheorem`: rows are only ever added and revocation is final
  (`Keeps`); what a handler knows about rows is monotone, so no other thread's step takes it away.
- `DisabledTheorem`: a handler that is past the `is_active` check when the account is disabled is counted in
  `Admitted`, late rows plus admitted handlers never exceed the number of threads, and a step that inserts a
  late row takes its handler out of `Admitted`.
- `SerialSingleUse`, `SerialReplay`, `SerialPassword`: under `OneThread`, from the strengthening `SerialInv`: what the
  only handler read is still so, since nobody else can have changed it.

`RotationProofs` proves about `KeyRotation`, for any threads, tables, rows, keys and faults:

- `RotationTyping`: `IInv` is `TypeOK`, `Grounded` (the first administrator and the entry about it are always
  there) and `KeysOK` (whoever is busy seals under the configured key, and a rotation's key is a later one).
- `CompleteRotation`: by `Apart`, why rotations do not mix. A rotation that has read two tables has read the first
  administrator, whom every rotation moves, and so holds the write locks; it reads the entry about that administrator
  last. Whoever commits has therefore read everything under the configured key, and leaves that entry under
  another one until the operator restarts, so no second rotation commits before.
- `StaleFieldTheorem`: a rotation reads each field with the configured key and fails on the first it cannot open, before
  it has committed anything.
- `ReturnedKey`: from an invariant that names, for each key, who is about to return it.

`SerialFamilies` is the refinement of `TokenFamilies` under `OneThread`. `FamilyInv` says that a family has at most one
live token whose rotation has taken effect (`OneHolder`) and that a refresh under way holds a delivered token and then
its live successor (`Onward`). Then each kind of commit is one abstract step, `LoginOpens`, `RevokeRotates`,
`RevokingCloses`, and every other one leaves `Holder` and `Used` as they are; `IssueWaits` is the insert of a successor,
which takes effect only when its predecessor is revoked.

`LoginProofs` proves `LoginTyping`, `ProvedSecret`, `CodesOnce` and `LastPassword` for any number of handlers and any
bounds. `KnowledgeOK` says what a handler still knows of the row it loaded (a code it is about to
spend is one of the enabled secret and, unless logins crossed, unspent; a password typed at a hash with old parameters is
the first one), `CodesOK` that codes belong to enrolments there have been and, without crossing, one login uses one at a time.
`AttemptsBounded` is for two handlers and any limit. Its invariant `Rounds` keeps two counts: both handlers count on from
`low` or more, and one of them from `high` or more. A failure raises `high`, or it raises `low` and `high` may start again
from there, so at most the sum of all counts up to the limit fits before the lock.

`AccessProofs` proves `AccessTyping`, `AdminStays`, `OnePassword` and `LateAreFew` for any addresses, threads, processes and
crashes: `RequestOK` says what the check has established for a request under way, `OneActor` that without crossing all requests
have one actor, whose own row nobody else can then have changed, `CreatorOK` that at most one process holds the password.
`LateAreFew` rests on `LateOK`: who lacks a right has got through, together with what is still in flight, less than there are
threads, since the thread that took the right away is done with its request at that moment (`RightsAreTaken`); only what was checked
before can still be in flight, and what gets through is in flight no more.

`PipelineProofs` proves `LockIsRaising`, `HitsTheorem`, `SilentRules`, `RaisesCounted` and `DeskImplemented`, for any values, rules,
payloads, threads and bounds: `WorkOK` relates what a request holds to the tables, `LockOK` says that the lock's holder is exactly
who stands between `Look` and `Settle`, and that its row is there, and `ReadsOK` that a loaded count is never above the sightings
and, without overlap, equals the stored one. `Looked` adds what a raise has found: while it holds the lock the alert is still the
latest open one of its cause and its count is the stored one, or there is still none. From it `CountOK` follows, the count as the
number of occurrences of a cause's alerts, and the refinement of `AlertDesk`: `Settle` is its `Raise`, `Triage` its `Triage`, `Tick`
its time, and all else a stutter.

`SerialCodes`, `SerialAdmin` and `SerialHits` take the exception out of `CodesWorkOnce`, `AdminRemains` and `HitsMissOnlyOverlaps`:
with one handler, whatever is asked for, fails or crashes, each code works once, an administrator remains and every `hit_count` is
exact. The history variables that name the overlap then never change, so those properties except nothing but real overlaps.

`SharedProofs` proves, of `RateLimiter`, `LimiterInvariant`, `AllowanceHolds` and `RefusalsAreDue` for any clients, capacity and cost. The
inductive invariant `Settled` is a balance: tokens less time plus what was spent never grows. That a bucket set back
in time is whole again at the latest reading (its second conjunct) is what the race on the clock makes necessary.
Of `GeoReaders` it proves `GeoTyping` and `GeoEmpty`, and of `AnomalyModel` `AnomalyTyping`, `WholeModel` and `QuietScoring`,
for any threads and thresholds: `FitsOK` (which fits may be under way together), `ModelOK` and `SingleOK`
(what the attributes are while no fits of two kinds, or none at all, have overlapped), `ScoreOK` (what a
scoring thread has tested is still so, or it is disturbed).

`DetectionProofs` proves, of `Extraction`, `BestFirst` and `ReportsRecognised` for any number of types, any length and any text:
both are inductive over the passes of the loop together with `ClaimsOK` (only types that were tried have claims, and what a
report claims is no noise). Of `Scoring` it proves `ConfidenceEarned` and `RiskFollows` for any indicator, any enrichment and any
number of reports and half-lives. The first needs that a report never takes the confidence past the ceiling of its source
(`ReinforceBounds`). For the second `StepBecomes` reduces every step to the columns it changes, and one lemma per stage carries the
order through the arithmetic: rounding half of a number gives no more than rounding it (`RoundedHalf`), a hit leaves less doubt
(`CorroborationGrows`), and rounding, cutting off and a factor that is never negative keep the order (`RoundedGrows`,
`WithinGrows`, `ModifierIs`).

Of `RuleEngine` it proves `VerdictStands`, `FactsDoNotSteer`, `OnlyHugeNumbersBreakIngestion`, `ShortRulesFit` and `AcceptsOnlyWhatParses`, for any
tokens, rules, facts and stack. `StepMoves` reduces the whole case analysis of the parser to five ways to move, and the invariant only
looks at those. `ReadAlike` says that parsers which no operator has stopped are at the same place, in the same calls and at the same depth,
whatever their facts: `SameStep` shows that only an operator looks at a value. `HurtBy` says what an operator needs to stop one parser and
not another: a number no float can hold in its hands (`ModestParser`: else there is none in any parser), or a pattern that is no literal
(`PatternHeld`: else "matches" is only ever pending, innermost, while its literal is read, so all parsers compile the same pattern).
`DeepEnough` counts the frames against the tokens eaten, five at most for one. So the finding of `RuleOverflow` is the only way:
a rule without such a number that was accepted for the dummy facts breaks no ingestion.

`AcceptsOnlyWhatParses` is the soundness of the parser, for any rule and any facts: what a rule is accepted with, its grammar derives
for the whole of it, although the parser evaluates while it reads, keeps only pending calls and never goes back. Here the grammar
is a set of productions, one operator per method (`DerivesOr` ... `DerivesPrimary`), and what it derives is what every set `Closed` under
them holds, so no recursion is needed. The invariant `ReadsItsGrammar` gives each parser the places at which its pending calls
began: each call has derived what lies before the token it has eaten and knows which calls may be around it (`Pending`), and the
place in the code says what has been derived since (`Place`). There is one lemma for each production at the step that uses it
(`AndRead`, `ListGoesOn` ...), and one for each method (`AfterPrimarySound` ...). That the productions hold for every token
sequence at once makes them survive a rule that grows (`ClosedGrows`, `SoundKept`).

The assumptions are the named ones on the constants: bounds are natural numbers, pools are finite where they are counted
(`ThreadsAssumption`, `HandlersAssumption`), given confidences are integers and counted words natural numbers, tokens are of one kind
and no stored fact is too large for a float (`RuleAssumption`). The type invariants are
proved rather than run: each is the first conjunct of an inductive invariant above.

**Only model-checked**: liveness (`EveryRequestIsRecorded`, `ProcessesServe`, `LookupsEnd`), which the prover cannot reach, and
`ParsesItsGrammar`: the grammar it compares the parser with is recursive, and what a recursive definition yields for every rule
would be an induction over the rule. `AcceptsOnlyWhatParses` proves its one direction, against productions; that every rule of the
grammar is accepted, and has one value only, is checked.

## Not modelled

- **Live feeds, assessment, SARIF import**: calls to the outside and parsing; they keep no state of the server's.
- **Dashboard and case desk**: what the dashboard's parallel renewals do to the server is in `Sessions`, as overlapping
  refreshes; two tabs of the case desk over one browser store are not covered.
- **Start-up with part of the built-in rules deleted** by an administrator: they are seeded again at the next start.
- **A half-life of no days** (`ioc/scoring.py:37`), with which confidence does not fade at all.
- **String processing**: regular expressions, refanging, `detect_type`, recognising signs in `enrich.py`, writing STIX.
- **Cryptography**: SHA-256 and AES-GCM are perfect; a field is the key it is sealed under.
- **Stack depth** beyond the rule parser's own frames: those of an operator, of compiling a pattern and of comparing nested lists, and
  those below the parser, which are as many when a rule is saved (`create_rule`, `validate_expression`) as when an event is ingested
  (`ingest`, `ingest_event`). `POST /rules/test` evaluates a rule against facts of its caller's choice.
- **Unused code**: `RateLimiter.sweep`, `reset` outside tests, `severity_for`.

Known hazards that no property is about: a token from before a demotion is accepted again after a later promotion
(`deps.py:62`); an indicator retired after
an event has matched it still raises (`services.py:315`); `resolved_at` stays when an alert is
reopened; buckets are never swept; a vault rebuilt between a rotation's commit and the restart still uses the
configured, old key (in `KeyRotation` as a step, with no property that forbids it).

## Plan

Done: all of the above. What would come next, most important first: `Pipeline` with PostgreSQL's row locks in place of the
write lock, and which of its theorems survive; theorems for one handler at a time about `Login`, `KeyRotation` and `Pipeline`, as there are for
`Sessions` and `AuditLog`; `Dashboard` composed with `Sessions`; the case desk's store.
