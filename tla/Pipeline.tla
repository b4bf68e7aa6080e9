------------------------------ MODULE Pipeline ------------------------------
(***************************************************************************)
(* Indicators, events, rules and alerts (app/services.py and               *)
(* app/routers/intel.py): every request that writes them, as threads that  *)
(* share an SQLite database.                                               *)
(*                                                                         *)
(* A thread works on rows as it loaded them; a commit writes the columns   *)
(* whose value it changed, and then forgets what it loaded.  A SELECT      *)
(* first writes the changes that are pending, which takes the database's   *)
(* only write lock until the commit, and a commit of changes that were not *)
(* written yet takes and releases it in one step.  What an event contains  *)
(* and what a rule makes of it are Extraction's, Scoring's and             *)
(* RuleEngine's; here any outcome is possible.  The audit entries are      *)
(* AuditLog's.                                                             *)
(***************************************************************************)
EXTENDS Integers, Sequences, FiniteSets

CONSTANTS
  Handlers,     \* the threads that handle requests
  Values,       \* indicator values
  Known,        \* those stored at the start
  Rules,        \* detection rules, by id
  Seeded,       \* those that seed_builtin_rules has stored
  Anomaly,      \* the cause of the anomaly alert
  Payloads,     \* the sets of values that an event or a report contains
  Verdicts,     \* the states analysts choose
  MaxRequests,  \* bound on requests
  MaxTime,      \* bound on the time
  Nobody        \* no thread

\* The time counts windows of DEDUPE_WINDOW_MINUTES and jumps from one to a
\* later one: an alert is current in the window it was seen in.
Window == 0
Counted == Values \cup Rules
Causes == Counted \cup {Anomaly}
Unread == -1

ASSUME PipelineAssumption ==
  /\ Known \subseteq Values /\ Seeded \subseteq Rules /\ Payloads \subseteq SUBSET Values
  /\ Values \cap Rules = {} /\ Anomaly \notin Counted /\ Nobody \notin Handlers
ASSUME BoundsAssumption == MaxRequests \in Nat /\ MaxTime \in Nat

VARIABLES
  rows,      \* of each value and rule: "none", "live" (is_active, enabled), "off", or "gone"
  hits,      \* hit_count of each value and rule
  alerts,    \* the alerts in the order they were opened
  now,       \* the time, in windows
  work,      \* what each thread is doing
  writer,    \* who holds the write lock
  requests,  \* requests so far
  raised,    \* history: committed raises of each cause
  reported,  \* history: committed reports of each stored value
  overlap    \* history: the rows two threads have worked on at the same time

database == <<rows, hits, alerts>>
history == <<raised, reported, overlap>>
vars == <<database, now, work, writer, requests, history>>

Desk == INSTANCE AlertDesk

ASSUME VerdictsAssumption == Verdicts \subseteq Desk!States

Idle == [at |-> "idle", left |-> {}, cause |-> Anomaly, read |-> [c \in Counted |-> Unread],
         was |-> "none", alert |-> 0, occurrences |-> 0]

Places == {"idle", "match", "sight", "rules", "look", "settle", "score", "finish",
           "report", "store", "retire", "triage", "create", "delete"}

TypeOK ==
  /\ rows \in [Counted -> {"none", "live", "off", "gone"}]
  /\ hits \in [Counted -> Nat]
  /\ \A i \in DOMAIN alerts :
       alerts[i] \in [cause : Causes, state : Desk!States, seen : 0..now, occurrences : Nat \ {0}]
  /\ now \in 0..MaxTime /\ requests \in 0..MaxRequests
  /\ writer \in Handlers \cup {Nobody}
  /\ work \in [Handlers -> [at : Places, left : SUBSET Counted, cause : Causes,
                            read : [Counted -> Nat \cup {Unread}],
                            was : {"none", "live", "off"} \cup Desk!States,
                            alert : 0..Len(alerts), occurrences : Nat]]
  /\ raised \in [Causes -> Nat] /\ reported \in [Values -> Nat] /\ overlap \subseteq Counted

\* A database with the demonstration indicators and the built-in rules.
Init ==
  /\ rows = [c \in Counted |-> IF c \in Known \cup Seeded THEN "live" ELSE "none"]
  /\ hits = [c \in Counted |-> 0]
  /\ alerts = <<>> /\ now = 0 /\ requests = 0
  /\ work = [h \in Handlers |-> Idle]
  /\ writer = Nobody
  /\ raised = [c \in Causes |-> 0] /\ reported = [v \in Values |-> 0] /\ overlap = {}

-----------------------------------------------------------------------------
At(h, place) == work[h].at = place
Become(h, w) == work' = [work EXCEPT ![h] = w]
Done(h) == Become(h, Idle)

MayWrite(h) == writer \in {h, Nobody}

Request(h) == At(h, "idle") /\ requests < MaxRequests /\ requests' = requests + 1

\* h loads row c while another thread has it loaded.
Loads(h, c) == overlap' = IF \E g \in Handlers \ {h} : work[g].read[c] # Unread
                          THEN overlap \cup {c} ELSE overlap

\* What h works with as c's hit_count: as it was loaded, or loaded now.
Count(h, c) == IF work[h].read[c] # Unread THEN work[h].read[c] ELSE hits[c]

-----------------------------------------------------------------------------
(* Ingesting an event.                                                     *)

\* The event is stored before anything is looked up.
Ingest(h, values) ==
  /\ Request(h) /\ MayWrite(h)
  /\ Become(h, [Idle EXCEPT !.at = "match", !.left = values])
  /\ UNCHANGED <<database, now, writer, history>>

\* _match_indicators: one SELECT for each value; the rows found are kept.
Match(h) ==
  LET w == work[h] IN
  /\ At(h, "match")
  /\ \/ \E v \in w.left :
          IF rows[v] = "live"
          THEN Become(h, [w EXCEPT !.left = @ \ {v}, !.read[v] = hits[v]]) /\ Loads(h, v)
          ELSE Become(h, [w EXCEPT !.left = @ \ {v}]) /\ UNCHANGED overlap
     \/ /\ w.left = {}
        /\ Become(h, [w EXCEPT !.at = "sight", !.left = {v \in Values : w.read[v] # Unread}])
        /\ UNCHANGED overlap
  /\ UNCHANGED <<database, now, writer, requests, raised, reported>>

\* The next indicator that was matched; then the enabled rules are selected.
Sight(h) ==
  LET w == work[h]
      active == {r \in Rules : rows[r] = "live"}
  IN
  /\ At(h, "sight")
  /\ \/ \E v \in w.left :
          /\ Become(h, [w EXCEPT !.at = "look", !.cause = v, !.left = @ \ {v},
                                 !.read[v] = Count(h, v)])
          /\ Loads(h, v)
     \/ /\ w.left = {}
        /\ Become(h, [w EXCEPT !.at = "rules", !.left = active,
                               !.read = [c \in Counted |-> IF c \in active THEN hits[c] ELSE Unread]])
        /\ overlap' = overlap \cup {r \in active : \E g \in Handlers \ {h} : work[g].read[r] # Unread}
  /\ UNCHANGED <<database, now, writer, requests, raised, reported>>

\* The next rule is evaluated: it matches, or it does not or is broken.  A
\* rule that was deleted after it was selected is not there to be loaded
\* again (Refused).
Evaluate(h) ==
  LET w == work[h] IN
  /\ At(h, "rules")
  /\ \/ \E r \in w.left :
          /\ w.read[r] # Unread \/ rows[r] = "live"
          /\ \/ Become(h, [w EXCEPT !.at = "look", !.cause = r, !.left = @ \ {r},
                                    !.read[r] = Count(h, r)])
             \/ Become(h, [w EXCEPT !.left = @ \ {r}, !.read[r] = Count(h, r)])
          /\ Loads(h, r)
     \/ w.left = {} /\ Become(h, [w EXCEPT !.at = "score"]) /\ UNCHANGED overlap
  /\ UNCHANGED <<database, now, writer, requests, raised, reported>>

\* _score_anomaly, with what is loaded let go.
Score(h) ==
  /\ At(h, "score")
  /\ \E place \in {"look", "finish"} : Become(h, [Idle EXCEPT !.at = place])
  /\ UNCHANGED <<database, now, writer, requests, history>>

-----------------------------------------------------------------------------
(* _raise_alert.                                                           *)

Flushes(h) == work[h].cause # Anomaly

\* Mutant of Flush: the changed row is added to the session after the SELECT.
FlushLate(h) == UNCHANGED writer

\* Mutant of Flush: an UPDATE of no row goes unnoticed.
FlushAnyRow(h) ==
  IF Flushes(h) THEN MayWrite(h) /\ writer' = h ELSE UNCHANGED writer

\* The SELECT writes the pending hit_count first; that takes the lock.  A
\* rule that is no longer there fails the write (Refused).
Flush(h) ==
  IF Flushes(h)
  THEN MayWrite(h) /\ rows[work[h].cause] # "gone" /\ writer' = h
  ELSE UNCHANGED writer

\* The open alert of the cause seen last inside the window, or none.
Look(h) ==
  LET w == work[h] IN
  /\ At(h, "look")
  /\ Flush(h)
  /\ \/ \E i \in Desk!Latest(w.cause) :
          Become(h, [w EXCEPT !.at = "settle", !.alert = i, !.occurrences = alerts[i].occurrences])
     \/ Desk!Current(w.cause) = {} /\ Become(h, [w EXCEPT !.at = "settle"])
  /\ UNCHANGED <<database, now, requests, history>>

\* Where h goes on after the raise.
After(cause) == IF cause \in Values THEN "sight" ELSE IF cause \in Rules THEN "rules" ELSE "finish"

\* The alert that was found, counted once more from what was loaded.
Settled(w) ==
  [alerts EXCEPT ![w.alert].occurrences = w.occurrences + 1, ![w.alert].seen = now]

\* The commit: alert and hit_count together.
Settle(h) ==
  LET w == work[h] IN
  /\ At(h, "settle") /\ MayWrite(h)
  /\ alerts' = IF w.alert = 0 THEN Append(alerts, Desk!NewAlert(w.cause)) ELSE Settled(w)
  /\ hits' = IF Flushes(h) THEN [hits EXCEPT ![w.cause] = w.read[w.cause] + 1] ELSE hits
  /\ writer' = Nobody
  /\ raised' = [raised EXCEPT ![w.cause] = @ + 1]
  /\ Become(h, [Idle EXCEPT !.at = After(w.cause), !.left = w.left])
  /\ UNCHANGED <<rows, now, requests, reported, overlap>>

\* The event's score, the last commit of an ingest.
Finish(h) ==
  /\ At(h, "finish") /\ MayWrite(h)
  /\ Done(h)
  /\ UNCHANGED <<database, now, writer, requests, history>>

-----------------------------------------------------------------------------
(* Indicators: upsert_indicator, bulk_ingest, retire_indicator.            *)

\* A report of one value (create_indicator) or of many (bulk).
Report(h, values) ==
  /\ Request(h)
  /\ Become(h, [Idle EXCEPT !.at = "report", !.left = values])
  /\ UNCHANGED <<database, now, writer, history>>

\* The SELECT of the next value, or the end.
Find(h) ==
  LET w == work[h] IN
  /\ At(h, "report")
  /\ \/ \E v \in w.left :
          /\ Become(h, [w EXCEPT !.at = "store", !.cause = v, !.left = @ \ {v}, !.was = rows[v],
                                 !.read[v] = IF rows[v] = "none" THEN Unread ELSE hits[v]])
          /\ Loads(h, v)
     \/ w.left = {} /\ Done(h) /\ UNCHANGED overlap
  /\ UNCHANGED <<database, now, writer, requests, raised, reported>>

\* Mutant of FirstCount: a new indicator counts its own report.
FirstCountSeen == 1

\* hit_count of a new row.
FirstCount == 0

\* Reinforce the row that was found, or insert one; the unique index fails
\* the insert, and the request, if another thread's came first (Refused).
Store(h) ==
  LET w == work[h] IN
  /\ At(h, "store") /\ MayWrite(h)
  /\ IF w.was # "none"
     THEN /\ hits' = [hits EXCEPT ![w.cause] = w.read[w.cause] + 1]
          /\ rows' = IF w.was = "off" THEN [rows EXCEPT ![w.cause] = "live"] ELSE rows
          /\ reported' = [reported EXCEPT ![w.cause] = @ + 1]
     ELSE /\ rows[w.cause] = "none"
          /\ rows' = [rows EXCEPT ![w.cause] = "live"]
          /\ hits' = [hits EXCEPT ![w.cause] = FirstCount]
          /\ UNCHANGED reported
  /\ Become(h, [Idle EXCEPT !.at = "report", !.left = w.left])
  /\ UNCHANGED <<alerts, now, writer, requests, raised, overlap>>

-----------------------------------------------------------------------------
(* Single rows: a request loads one and commits its change.                *)

LoadRow(h, place, c) ==
  /\ Request(h)
  /\ Become(h, [Idle EXCEPT !.at = place, !.cause = c, !.was = rows[c]])
  /\ UNCHANGED <<database, now, writer, history>>

RetireLoad(h, v) == rows[v] # "none" /\ LoadRow(h, "retire", v)
CreateLoad(h, r) == rows[r] = "none" /\ LoadRow(h, "create", r)
DeleteLoad(h, r) == rows[r] \in {"live", "off"} /\ LoadRow(h, "delete", r)

SaveRow(h, place, row) ==
  /\ At(h, place) /\ MayWrite(h)
  /\ rows' = [rows EXCEPT ![work[h].cause] = row]
  /\ Done(h)
  /\ UNCHANGED <<hits, alerts, now, writer, requests, history>>

\* A value loaded as retired is not written.
Retire(h) == SaveRow(h, "retire", IF work[h].was = "live" THEN "off" ELSE rows[work[h].cause])

\* The name is unique: the insert of a second rule of that name fails (Refused).
CreateRule(h) ==
  /\ At(h, "create") /\ rows[work[h].cause] = "none"
  /\ \E row \in {"live", "off"} : SaveRow(h, "create", row)

DeleteRule(h) == SaveRow(h, "delete", "gone")

TriageLoad(h, i) ==
  /\ Request(h)
  /\ Become(h, [Idle EXCEPT !.at = "triage", !.alert = i, !.was = alerts[i].state,
                            !.cause = alerts[i].cause])
  /\ UNCHANGED <<database, now, writer, history>>

\* Any state may follow any other; one that was loaded is not written.
Triage(h, state) ==
  LET w == work[h] IN
  /\ At(h, "triage") /\ MayWrite(h)
  /\ alerts' = IF state = w.was THEN alerts ELSE [alerts EXCEPT ![w.alert].state = state]
  /\ Done(h)
  /\ UNCHANGED <<rows, hits, now, writer, requests, history>>

-----------------------------------------------------------------------------
\* An error, a rule whose evaluation raises something else than RuleError, or
\* the end of the process: what is not committed is undone, what is committed
\* stays.
Fail(h) ==
  /\ work[h].at # "idle"
  /\ Done(h)
  /\ writer' = IF writer = h THEN Nobody ELSE writer
  /\ UNCHANGED <<database, now, requests, history>>

\* What the database refuses: to load a rule again that was deleted, to write
\* its hit_count, and to store a second row of one value or rule name.
Refused(h) ==
  LET w == work[h] IN
  /\ \/ At(h, "rules") /\ \E r \in w.left : w.read[r] = Unread /\ rows[r] = "gone"
     \/ At(h, "look") /\ Flushes(h) /\ MayWrite(h) /\ rows[w.cause] = "gone"
     \/ At(h, "store") /\ MayWrite(h) /\ w.was = "none" /\ rows[w.cause] # "none"
     \/ At(h, "create") /\ MayWrite(h) /\ rows[w.cause] # "none"
  /\ Done(h)
  /\ UNCHANGED <<database, now, writer, requests, history>>

\* No transaction is held for as long as a window.
Tick ==
  /\ now < MaxTime /\ writer = Nobody
  /\ now' = now + 1
  /\ UNCHANGED <<database, work, writer, requests, history>>

Start(h) ==
  \/ \E values \in Payloads : Ingest(h, values) \/ Report(h, values)
  \/ \E v \in Values : RetireLoad(h, v)
  \/ \E r \in Rules : CreateLoad(h, r) \/ DeleteLoad(h, r)
  \/ \E i \in DOMAIN alerts : TriageLoad(h, i)

Step(h) ==
  \/ Match(h) \/ Sight(h) \/ Evaluate(h) \/ Score(h) \/ Look(h) \/ Settle(h) \/ Finish(h)
  \/ Find(h) \/ Store(h) \/ Retire(h) \/ CreateRule(h) \/ DeleteRule(h)
  \/ \E state \in Verdicts : Triage(h, state)
  \/ Refused(h)

Next == Tick \/ \E h \in Handlers : Start(h) \/ Step(h) \/ Fail(h)

Spec == Init /\ [][Next]_vars

-----------------------------------------------------------------------------
\* The occurrences that the alerts of c have counted.
Occurrences(c) ==
  UNION {{<<i, k>> : k \in 1..alerts[i].occurrences} : i \in {j \in DOMAIN alerts : alerts[j].cause = c}}

\* Every raise for an indicator or a rule is an occurrence of some alert of
\* that cause, and every occurrence is a raise (app/services.py:407-414): two
\* events, or an event and a triage, never cost each other a count.
EveryRaiseIsCounted == \A c \in Counted : raised[c] = Cardinality(Occurrences(c))

\* hit_count, which risk_score takes for independent sightings, misses a
\* sighting only where two requests worked on the row at the same time, and
\* never holds one too many (app/services.py:54, 321, 348).
HitsMissOnlyOverlaps ==
  \A c \in Counted :
    LET sightings == raised[c] + (IF c \in Values THEN reported[c] ELSE 0) IN
    /\ hits[c] <= sightings
    /\ c \notin overlap => hits[c] = sightings

\* No alert is raised for a rule once its deletion is committed, though an
\* event may have selected and even evaluated it before: the hit_count that
\* is written first finds no row (app/services.py:348, routers/intel.py:303).
DeletedRulesAreSilent ==
  [][\A r \in Rules : raised'[r] # raised[r] => rows[r] = "live"]_vars

\* "One cause, one alert" (app/services.py:393): for indicators and rules the
\* SELECT and the commit are one step to everybody else.  The alerts of
\* anomalies, whose SELECT holds no lock, promise nothing of the kind.
CountedAlerts == [i \in {j \in DOMAIN alerts : alerts[j].cause # Anomaly} |-> alerts[i]]
CountedDesk == INSTANCE AlertDesk WITH alerts <- CountedAlerts, Causes <- Counted
ImplementsDesk == CountedDesk!Spec

\* The write lock is held between a raise's SELECT and its commit, and by
\* nobody else: no failure leaves it with a request that has ended.
WriterIsRaising == writer # Nobody => At(writer, "settle") /\ Flushes(writer)
=============================================================================
