--------------------------- MODULE PipelineProofs ---------------------------
(***************************************************************************)
(* Proofs about Pipeline, for any number of handlers, indicators, rules,   *)
(* requests and windows.                                                   *)
(***************************************************************************)
EXTENDS Pipeline, FiniteSetTheorems, TLAPS

RowStates == {"none", "live", "off", "gone"}
Alert == [cause : Causes, state : Desk!States, seen : Nat, occurrences : Nat \ {0}]
Works == [at : Places, left : SUBSET Counted, cause : Causes, read : [Counted -> Nat \cup {Unread}],
          was : {"none", "live", "off"} \cup Desk!States, alert : Nat, occurrences : Nat]

USE PipelineAssumption, BoundsAssumption

Types ==
  /\ rows \in [Counted -> RowStates]
  /\ hits \in [Counted -> Nat]
  /\ alerts \in Seq(Alert)
  /\ now \in 0..MaxTime /\ requests \in 0..MaxRequests
  /\ writer \in Handlers \cup {Nobody}
  /\ work \in [Handlers -> Works]
  /\ raised \in [Causes -> Nat] /\ reported \in [Values -> Nat] /\ overlap \subseteq Counted

\* What a thread's record w says of the rows and the number of alerts: nothing
\* that is there disappears, and a rule that was enabled is enabled or deleted.
Stored(c, rs) == rs[c] # "none"
Selected(r, rs) == r \in Rules /\ rs[r] \in {"live", "gone"}

WorkOK(w, rs, n) ==
  /\ w.alert <= n
  /\ \A c \in Counted : w.read[c] # Unread => Stored(c, rs)
  /\ w.at \in {"match", "report", "store"} => w.left \subseteq Values
  /\ w.at = "sight" => \A v \in w.left : v \in Values /\ Stored(v, rs)
  /\ w.at = "rules" => \A r \in w.left : Selected(r, rs)
  /\ w.at \in {"look", "settle"} /\ w.cause # Anomaly => w.read[w.cause] # Unread
  /\ w.at \in {"look", "settle"} /\ w.cause \in Values => \A v \in w.left : v \in Values /\ Stored(v, rs)
  /\ w.at \in {"look", "settle"} /\ w.cause \in Rules =>
       Selected(w.cause, rs) /\ \A r \in w.left : Selected(r, rs)
  /\ w.at = "store" => /\ w.cause \in Values
                       /\ w.was # "none" => w.read[w.cause] # Unread
  /\ w.at = "retire" => w.cause \in Values /\ Stored(w.cause, rs)
  /\ w.at = "create" => w.cause \in Rules
  /\ w.at = "delete" => w.cause \in Rules /\ Stored(w.cause, rs)
  /\ w.at = "triage" => w.alert # 0

\* The lock is held by whoever has looked for the alert of an indicator or a
\* rule, and by nobody else; the row is there as long as it is held.
LockOK ==
  /\ writer # Nobody => At(writer, "settle") /\ Flushes(writer)
  /\ \A h \in Handlers : At(h, "settle") /\ Flushes(h) => writer = h /\ rows[work[h].cause] # "gone"

\* The sightings of c, and what each thread has read of them.
Sightings(c) == raised[c] + (IF c \in Values THEN reported[c] ELSE 0)

ReadsOK(c) ==
  /\ hits[c] <= Sightings(c)
  /\ \A h \in Handlers : work[h].read[c] # Unread => work[h].read[c] <= Sightings(c)
  /\ c \notin overlap =>
       /\ hits[c] = Sightings(c)
       /\ \A h \in Handlers : work[h].read[c] # Unread => work[h].read[c] = hits[c]
       /\ \A g, h \in Handlers : work[g].read[c] # Unread /\ work[h].read[c] # Unread => g = h
  /\ rows[c] = "none" => hits[c] = 0 /\ Sightings(c) = 0

IInv ==
  /\ Types
  /\ \A v \in Values : rows[v] # "gone"
  /\ \A i \in DOMAIN alerts : alerts[i].seen <= now
  /\ \A h \in Handlers : WorkOK(work[h], rows, Len(alerts))
  /\ LockOK
  /\ \A c \in Counted : ReadsOK(c)

LEMMA IdleFacts ==
  /\ Idle \in Works /\ Idle.at = "idle" /\ Idle.alert = 0 /\ Idle.left = {} /\ Idle.cause = Anomaly
  /\ \A c \in Counted : Idle.read[c] = Unread
  BY DEF Idle, Works, Places, Causes, Unread

LEMMA IdleOK == ASSUME NEW rs, NEW n \in Nat PROVE WorkOK(Idle, rs, n)
  BY IdleFacts DEF WorkOK

LEMMA InitInv == Init => IInv
  <1> SUFFICES ASSUME Init PROVE IInv
    OBVIOUS
  <1>1. /\ rows \in [Counted -> RowStates] /\ hits \in [Counted -> Nat] /\ work \in [Handlers -> Works]
        /\ raised \in [Causes -> Nat] /\ reported \in [Values -> Nat]
    BY IdleFacts DEF Init, RowStates
  <1>2. alerts = <<>> /\ now = 0 /\ requests = 0 /\ writer = Nobody /\ overlap = {}
    BY DEF Init
  <1>3. Types
    BY <1>1, <1>2 DEF Types
  <1>4. \A h \in Handlers : work[h] = Idle
    BY DEF Init
  <1>5. \A h \in Handlers : WorkOK(work[h], rows, Len(alerts))
    BY <1>2, <1>4, IdleOK
  <1>6. LockOK
    BY <1>2, <1>4, IdleFacts DEF LockOK, At
  <1>7. \A c \in Counted : hits[c] = 0 /\ Sightings(c) = 0
    BY DEF Init, Sightings, Causes
  <1>8. \A c \in Counted : ReadsOK(c)
    BY <1>4, <1>7, IdleFacts DEF ReadsOK
  <1>9. \A v \in Values : rows[v] # "gone"
    BY DEF Init, Counted
  <1> QED BY <1>2, <1>3, <1>5, <1>6, <1>8, <1>9 DEF IInv

-----------------------------------------------------------------------------
\* Rows that stay, however they change.
RowsStay ==
  /\ rows' \in [Counted -> RowStates]
  /\ \A c \in Counted : rows[c] # "none" => rows'[c] # "none"
  /\ \A r \in Rules : rows[r] \in {"live", "gone"} => rows'[r] \in {"live", "gone"}
  /\ \A v \in Values : rows'[v] # "gone"
  /\ \A c \in Counted : rows'[c] = "gone" => rows[c] = "gone" \/ writer = Nobody

LEMMA WorkStays ==
  ASSUME RowsStay, NEW w \in Works, NEW m \in Nat, NEW n \in Nat, m <= n, WorkOK(w, rows, m)
  PROVE  WorkOK(w, rows', n)
  BY DEF RowsStay, WorkOK, Stored, Selected, Works, Causes, Counted

\* A step of h that holds no lock before or after it and does not count: it may
\* load rows, change some, and open no alert.
LEMMA Ordinary ==
  ASSUME IInv, NEW h \in Handlers, NEW w \in Works, Become(h, w), RowsStay,
         WorkOK(w, rows', Len(alerts)), w.at # "settle" \/ w.cause = Anomaly,
         alerts' \in Seq(Alert), Len(alerts') = Len(alerts),
         \A i \in DOMAIN alerts : alerts'[i].seen = alerts[i].seen,
         UNCHANGED <<hits, now, writer, raised, reported>>, requests' \in 0..MaxRequests,
         writer # h, overlap \subseteq overlap', overlap' \subseteq Counted,
         \A c \in Counted :
           \/ w.read[c] \in {Unread, work[h].read[c]}
           \/ /\ w.read[c] = hits[c]
              /\ c \notin overlap' => \A g \in Handlers \ {h} : work[g].read[c] = Unread
  PROVE  IInv'
  <1>0. Types /\ LockOK /\ (\A g \in Handlers : WorkOK(work[g], rows, Len(alerts)))
        /\ (\A c \in Counted : ReadsOK(c)) /\ Len(alerts) \in Nat
    BY DEF IInv, Types
  <1>1. /\ work' \in [Handlers -> Works] /\ work'[h] = w
        /\ \A g \in Handlers : g # h => work'[g] = work[g]
    BY <1>0 DEF Become, Types
  <1>2. Types'
    BY <1>0, <1>1 DEF Types, RowsStay
  <1>3. \A g \in Handlers : WorkOK(work'[g], rows', Len(alerts'))
    <2>1. ASSUME NEW g \in Handlers, g # h PROVE WorkOK(work'[g], rows', Len(alerts'))
      <3>1. work'[g] = work[g] /\ work[g] \in Works /\ WorkOK(work[g], rows, Len(alerts))
        BY <1>0, <1>1, <2>1 DEF Types
      <3>2. Len(alerts) <= Len(alerts) /\ Len(alerts') = Len(alerts)
        BY <1>0
      <3>3. WorkOK(work[g], rows', Len(alerts))
        BY <1>0, <3>1, <3>2, WorkStays
      <3> QED BY <3>1, <3>2, <3>3
    <2>2. WorkOK(work'[h], rows', Len(alerts'))
      BY <1>1
    <2> QED BY <2>1, <2>2
  <1>4. LockOK'
    <2>1. writer # Nobody => At(writer, "settle")' /\ Flushes(writer)'
      BY <1>0, <1>1 DEF LockOK, At, Flushes, Types
    <2>2. ASSUME NEW g \in Handlers, At(g, "settle")', Flushes(g)'
          PROVE  writer' = g /\ rows'[work'[g].cause] # "gone"
      <3>1. g # h /\ work'[g] = work[g]
        BY <1>1, <2>2 DEF At, Flushes
      <3>2. writer = g /\ rows[work[g].cause] # "gone" /\ work[g].cause # Anomaly
        BY <1>0, <2>2, <3>1 DEF LockOK, At, Flushes
      <3>3. work[g].cause \in Counted /\ writer # Nobody
        BY <1>0, <3>2 DEF Types, Works, Causes
      <3> QED BY <3>1, <3>2, <3>3 DEF RowsStay
    <2> QED BY <2>1, <2>2 DEF LockOK
  <1>5. ASSUME NEW c \in Counted PROVE ReadsOK(c)'
    <2>1. Sightings(c)' = Sightings(c) /\ Sightings(c) \in Nat /\ hits[c] \in Nat
      BY <1>0 DEF Sightings, Types, Causes
    <2>2. rows'[c] = "none" => rows[c] = "none"
      BY DEF RowsStay
    <2> QED BY <1>0, <1>1, <2>1, <2>2 DEF ReadsOK
  <1>6. \A i \in DOMAIN alerts' : alerts'[i].seen <= now'
    <2>1. DOMAIN alerts' = DOMAIN alerts
      BY <1>0 DEF Types
    <2> QED BY <2>1 DEF IInv
  <1> QED BY <1>2, <1>3, <1>4, <1>5, <1>6 DEF IInv, RowsStay

\* What every step starts from.
LEMMA Before ==
  ASSUME IInv, NEW h \in Handlers
  PROVE  /\ work[h] \in Works /\ WorkOK(work[h], rows, Len(alerts)) /\ Len(alerts) \in Nat
         /\ work[h].at # "settle" => writer # h
         /\ hits \in [Counted -> Nat] /\ rows \in [Counted -> RowStates] /\ alerts \in Seq(Alert)
         /\ requests \in 0..MaxRequests /\ overlap \subseteq Counted
         /\ rows' = rows => RowsStay
  BY DEF IInv, Types, LockOK, At, RowsStay

\* An ordinary step that changes no row and no alert.
LEMMA Quiet ==
  ASSUME IInv, NEW h \in Handlers, NEW w \in Works, Become(h, w), work[h].at # "settle",
         WorkOK(w, rows, Len(alerts)), w.at # "settle" \/ w.cause = Anomaly,
         UNCHANGED <<database, now, writer, raised, reported>>, requests' \in 0..MaxRequests,
         overlap \subseteq overlap', overlap' \subseteq Counted,
         \A c \in Counted :
           \/ w.read[c] \in {Unread, work[h].read[c]}
           \/ /\ w.read[c] = hits[c]
              /\ c \notin overlap' => \A g \in Handlers \ {h} : work[g].read[c] = Unread
  PROVE  IInv'
  BY Before, Ordinary DEF database

LEMMA LoadsFacts ==
  ASSUME IInv, NEW h \in Handlers, NEW c \in Counted, Loads(h, c)
  PROVE  /\ overlap \subseteq overlap' /\ overlap' \subseteq Counted
         /\ c \notin overlap' => \A g \in Handlers \ {h} : work[g].read[c] = Unread
  BY Before DEF Loads

LEMMA DoneStep ==
  ASSUME IInv, NEW h \in Handlers, Done(h), work[h].at # "settle",
         UNCHANGED <<database, now, writer, requests, history>>
  PROVE  IInv'
  <1>1. WorkOK(Idle, rows, Len(alerts))
    BY Before, IdleOK
  <1> QED BY <1>1, Before, IdleFacts, Quiet DEF Done, history

LEMMA IngestInv ==
  ASSUME IInv, NEW h \in Handlers, NEW values \in Payloads, Ingest(h, values) \/ Report(h, values)
  PROVE  IInv'
  <1>1. PICK place \in {"match", "report"} : Become(h, [Idle EXCEPT !.at = place, !.left = values])
    BY DEF Ingest, Report
  <1> DEFINE w == [Idle EXCEPT !.at = place, !.left = values]
  <1>2. values \subseteq Values /\ values \subseteq Counted
    BY DEF Counted
  <1>3. /\ w \in Works /\ w.at = place /\ w.left = values /\ w.alert = 0
        /\ \A c \in Counted : w.read[c] = Unread
    BY <1>2, IdleFacts DEF Works, Places
  <1> HIDE DEF w
  <1>4. WorkOK(w, rows, Len(alerts))
    BY <1>2, <1>3, Before DEF WorkOK
  <1>5. /\ Become(h, w) /\ work[h].at # "settle" /\ requests' \in 0..MaxRequests
        /\ UNCHANGED <<database, now, writer, history>>
    BY <1>1, Before DEF Ingest, Report, Request, At, w
  <1> QED BY <1>3, <1>4, <1>5, Before, Quiet DEF history

LEMMA LoadRowInv ==
  ASSUME IInv, NEW h \in Handlers, NEW c \in Counted, NEW place \in {"retire", "create", "delete"},
         LoadRow(h, place, c), rows[c] # "gone",
         place = "retire" => c \in Values /\ rows[c] # "none",
         place = "create" => c \in Rules, place = "delete" => c \in Rules /\ rows[c] # "none"
  PROVE  IInv'
  <1> DEFINE w == [Idle EXCEPT !.at = place, !.cause = c, !.was = rows[c]]
  <1>1. rows[c] \in {"none", "live", "off"} /\ c \in Causes
    BY Before DEF RowStates, Causes
  <1>2. /\ w \in Works /\ w.at = place /\ w.cause = c /\ w.alert = 0
        /\ \A d \in Counted : w.read[d] = Unread
    BY <1>1, IdleFacts DEF Works, Places
  <1>3. /\ Become(h, w) /\ work[h].at # "settle" /\ requests' \in 0..MaxRequests
        /\ UNCHANGED <<database, now, writer, history>>
    BY Before DEF LoadRow, Request, At
  <1> HIDE DEF w
  <1>4. WorkOK(w, rows, Len(alerts))
    BY <1>2, Before DEF WorkOK, Stored
  <1> QED BY <1>2, <1>3, <1>4, Before, Quiet DEF history

LEMMA TriageLoadInv ==
  ASSUME IInv, NEW h \in Handlers, NEW i \in DOMAIN alerts, TriageLoad(h, i)
  PROVE  IInv'
  <1> DEFINE w == [Idle EXCEPT !.at = "triage", !.alert = i, !.was = alerts[i].state,
                               !.cause = alerts[i].cause]
  <1>1. alerts[i] \in Alert /\ i \in Nat /\ i # 0 /\ i <= Len(alerts)
    BY Before
  <1>2. /\ w \in Works /\ w.at = "triage" /\ w.alert = i
        /\ \A d \in Counted : w.read[d] = Unread
    BY <1>1, IdleFacts DEF Works, Places, Alert
  <1>3. /\ Become(h, w) /\ work[h].at # "settle" /\ requests' \in 0..MaxRequests
        /\ UNCHANGED <<database, now, writer, history>>
    BY Before DEF TriageLoad, Request, At
  <1> HIDE DEF w
  <1>4. WorkOK(w, rows, Len(alerts))
    BY <1>1, <1>2, Before DEF WorkOK
  <1> QED BY <1>2, <1>3, <1>4, Before, Quiet DEF history

LEMMA StartInv ==
  ASSUME IInv, NEW h \in Handlers, Start(h)
  PROVE  IInv'
  <1>1. \A v \in Values : rows[v] # "gone"
    BY DEF IInv
  <1>2. ASSUME NEW v \in Values, RetireLoad(h, v) PROVE IInv'
    BY <1>1, <1>2, LoadRowInv DEF RetireLoad, Counted
  <1>3. ASSUME NEW r \in Rules, CreateLoad(h, r) \/ DeleteLoad(h, r) PROVE IInv'
    BY <1>3, LoadRowInv DEF CreateLoad, DeleteLoad, Counted
  <1> QED BY <1>2, <1>3, IngestInv, TriageLoadInv DEF Start

LEMMA MatchInv ==
  ASSUME IInv, NEW h \in Handlers, Match(h)
  PROVE  IInv'
  <1>0. /\ work[h] \in Works /\ work[h].at = "match" /\ work[h].left \subseteq Values
        /\ WorkOK(work[h], rows, Len(alerts))
        /\ UNCHANGED <<database, now, writer, requests, raised, reported>>
        /\ Values \subseteq Counted
    BY Before DEF Match, At, WorkOK, Counted
  <1>1. ASSUME NEW v \in work[h].left, rows[v] = "live", Loads(h, v),
               Become(h, [work[h] EXCEPT !.left = @ \ {v}, !.read[v] = hits[v]])
        PROVE  IInv'
    <2> DEFINE w == [work[h] EXCEPT !.left = work[h].left \ {v},
                                    !.read = [work[h].read EXCEPT ![v] = hits[v]]]
    <2>1. v \in Counted /\ hits[v] \in Nat
      BY <1>0, Before
    <2>2. Become(h, w)
      BY <1>0, <1>1, <2>1 DEF Become, Works
    <2>3. /\ w \in Works /\ w.at = "match" /\ w.left \subseteq work[h].left /\ w.alert = work[h].alert
          /\ w.read[v] = hits[v] /\ \A c \in Counted : c # v => w.read[c] = work[h].read[c]
      BY <1>0, <2>1 DEF Works
    <2> HIDE DEF w
    <2>4. WorkOK(w, rows, Len(alerts))
      BY <1>0, <1>1, <2>3 DEF WorkOK, Stored
    <2> QED BY SMTT(40), <1>0, <1>1, <2>1, <2>2, <2>3, <2>4, Before, LoadsFacts, Quiet
  <1>2. ASSUME NEW v \in work[h].left, Become(h, [work[h] EXCEPT !.left = @ \ {v}]), UNCHANGED overlap
        PROVE  IInv'
    <2> DEFINE w == [work[h] EXCEPT !.left = @ \ {v}]
    <2>1. /\ w \in Works /\ w.at = "match" /\ w.left \subseteq work[h].left /\ w.alert = work[h].alert
          /\ w.read = work[h].read
      BY <1>0 DEF Works
    <2>2. Become(h, w)
      BY <1>2
    <2> HIDE DEF w
    <2>3. WorkOK(w, rows, Len(alerts))
      BY <1>0, <2>1 DEF WorkOK, Stored
    <2> QED BY <1>0, <1>2, <2>1, <2>2, <2>3, Before, Quiet
  <1>3. ASSUME UNCHANGED overlap,
               Become(h, [work[h] EXCEPT !.at = "sight", !.left = {v \in Values : work[h].read[v] # Unread}])
        PROVE  IInv'
    <2> DEFINE w == [work[h] EXCEPT !.at = "sight", !.left = {v \in Values : work[h].read[v] # Unread}]
    <2>1. /\ w \in Works /\ w.at = "sight" /\ w.alert = work[h].alert /\ w.read = work[h].read
          /\ w.left = {v \in Values : work[h].read[v] # Unread}
      BY <1>0 DEF Works, Places
    <2>2. Become(h, w)
      BY <1>3
    <2> HIDE DEF w
    <2>3. WorkOK(w, rows, Len(alerts))
      BY <1>0, <2>1 DEF WorkOK
    <2> QED BY <1>0, <1>3, <2>1, <2>2, <2>3, Before, Quiet
  <1> QED BY <1>1, <1>2, <1>3 DEF Match

\* h takes up the next row it has matched or selected: it keeps what it read
\* of it before, or reads it now.
LEMMA TakeUp ==
  ASSUME IInv, NEW h \in Handlers, NEW c \in work[h].left, NEW place \in {"look", "rules"},
         NEW cause \in Causes, place = "look" => cause = c, Loads(h, c),
         work[h].at \in {"sight", "rules"}, place = "rules" => work[h].at = "rules",
         Become(h, [work[h] EXCEPT !.at = place, !.cause = cause, !.left = work[h].left \ {c},
                                   !.read = [work[h].read EXCEPT ![c] = Count(h, c)]]),
         Stored(c, rows),
         UNCHANGED <<database, now, writer, requests, raised, reported>>
  PROVE  IInv'
  <1> DEFINE w == [work[h] EXCEPT !.at = place, !.cause = cause, !.left = work[h].left \ {c},
                                  !.read = [work[h].read EXCEPT ![c] = Count(h, c)]]
  <1>0. /\ work[h] \in Works /\ WorkOK(work[h], rows, Len(alerts)) /\ c \in Counted
        /\ work[h].at # "settle"
    BY Before DEF Works
  <1>1. /\ Count(h, c) \in Nat
        /\ Count(h, c) = work[h].read[c] \/ Count(h, c) = hits[c]
    BY <1>0, Before DEF Count, Works
  <1>2. /\ w \in Works /\ w.at = place /\ w.cause = cause /\ w.alert = work[h].alert
        /\ w.left = work[h].left \ {c} /\ w.read[c] = Count(h, c)
        /\ \A d \in Counted : d # c => w.read[d] = work[h].read[d]
    BY ZenonT(60), <1>0, <1>1 DEF Works, Places
  <1>3. Become(h, w)
    OBVIOUS
  <1> HIDE DEF w
  <1>4. work[h].at = "sight" => c \in Values /\ c \notin Rules
    BY <1>0 DEF WorkOK
  <1>5. work[h].at = "rules" => Selected(c, rows) /\ c \notin Values
    BY <1>0 DEF WorkOK, Selected
  <1>6. WorkOK(w, rows, Len(alerts))
    BY <1>0, <1>1, <1>2, <1>4, <1>5 DEF WorkOK, Unread
  <1> QED BY SMTT(40), <1>0, <1>1, <1>2, <1>3, <1>6, Before, LoadsFacts, Quiet

LEMMA SightInv ==
  ASSUME IInv, NEW h \in Handlers, Sight(h)
  PROVE  IInv'
  <1>0. /\ work[h] \in Works /\ work[h].at = "sight" /\ WorkOK(work[h], rows, Len(alerts))
        /\ UNCHANGED <<database, now, writer, requests, raised, reported>>
    BY Before DEF Sight, At
  <1>1. ASSUME NEW v \in work[h].left, Loads(h, v),
               Become(h, [work[h] EXCEPT !.at = "look", !.cause = v, !.left = @ \ {v},
                                         !.read[v] = Count(h, v)])
        PROVE  IInv'
    <2>1. v \in Values /\ Stored(v, rows) /\ v \in Causes /\ v \in Counted
      BY <1>0 DEF WorkOK, Causes, Counted
    <2>2. Become(h, [work[h] EXCEPT !.at = "look", !.cause = v, !.left = work[h].left \ {v},
                                    !.read = [work[h].read EXCEPT ![v] = Count(h, v)]])
      BY <1>0, <1>1, <2>1 DEF Become, Works
    <2> QED BY <1>0, <1>1, <2>1, <2>2, TakeUp
  <1>2. ASSUME NEW active, active = {r \in Rules : rows[r] = "live"},
               Become(h, [work[h] EXCEPT !.at = "rules", !.left = active,
                            !.read = [c \in Counted |-> IF c \in active THEN hits[c] ELSE Unread]]),
               overlap' = overlap \cup
                 {r \in active : \E g \in Handlers \ {h} : work[g].read[r] # Unread}
        PROVE  IInv'
    <2> DEFINE read == [c \in Counted |-> IF c \in active THEN hits[c] ELSE Unread]
               w == [work[h] EXCEPT !.at = "rules", !.left = active, !.read = read]
    <2>1. active \subseteq Counted /\ read \in [Counted -> Nat \cup {Unread}]
      BY <1>2, Before DEF Counted
    <2>2. /\ w \in Works /\ w.at = "rules" /\ w.left = active /\ w.alert = work[h].alert
          /\ \A c \in Counted : w.read[c] = IF c \in active THEN hits[c] ELSE Unread
      BY <1>0, <2>1 DEF Works, Places
    <2>3. Become(h, w)
      BY <1>2
    <2> HIDE DEF w
    <2>4. WorkOK(w, rows, Len(alerts))
      BY <1>0, <1>2, <2>2 DEF WorkOK, Stored, Selected
    <2>5. overlap \subseteq overlap' /\ overlap' \subseteq Counted
      BY <1>2, <2>1, Before
    <2>6. \A c \in active : c \notin overlap' => \A g \in Handlers \ {h} : work[g].read[c] = Unread
      BY <1>2
    <2> QED BY <1>0, <2>2, <2>3, <2>4, <2>5, <2>6, Before, Quiet
  <1> QED BY <1>1, <1>2 DEF Sight

LEMMA EvaluateInv ==
  ASSUME IInv, NEW h \in Handlers, Evaluate(h)
  PROVE  IInv'
  <1>0. /\ work[h] \in Works /\ work[h].at = "rules" /\ WorkOK(work[h], rows, Len(alerts))
        /\ UNCHANGED <<database, now, writer, requests, raised, reported>>
    BY Before DEF Evaluate, At
  <1>1. ASSUME NEW r \in work[h].left, Loads(h, r),
               \/ Become(h, [work[h] EXCEPT !.at = "look", !.cause = r, !.left = @ \ {r},
                                            !.read[r] = Count(h, r)])
               \/ Become(h, [work[h] EXCEPT !.left = @ \ {r}, !.read[r] = Count(h, r)])
        PROVE  IInv'
    <2>1. Selected(r, rows) /\ Stored(r, rows) /\ r \in Causes /\ r \in Counted
      BY <1>0 DEF WorkOK, Selected, Stored, Causes, Counted
    <2>2. CASE Become(h, [work[h] EXCEPT !.at = "look", !.cause = r, !.left = @ \ {r},
                                         !.read[r] = Count(h, r)])
      <3>1. Become(h, [work[h] EXCEPT !.at = "look", !.cause = r, !.left = work[h].left \ {r},
                                      !.read = [work[h].read EXCEPT ![r] = Count(h, r)]])
        BY <1>0, <2>1, <2>2 DEF Become, Works
      <3> QED BY <1>0, <1>1, <2>1, <3>1, TakeUp
    <2>3. CASE Become(h, [work[h] EXCEPT !.left = @ \ {r}, !.read[r] = Count(h, r)])
      <3>1. Become(h, [work[h] EXCEPT !.at = "rules", !.cause = work[h].cause,
                                      !.left = work[h].left \ {r},
                                      !.read = [work[h].read EXCEPT ![r] = Count(h, r)]])
        BY ZenonT(60), <1>0, <2>1, <2>3 DEF Become, Works
      <3>2. work[h].cause \in Causes
        BY <1>0 DEF Works
      <3> QED BY <1>0, <1>1, <2>1, <3>1, <3>2, TakeUp
    <2> QED BY <1>1, <2>2, <2>3
  <1>2. ASSUME Become(h, [work[h] EXCEPT !.at = "score"]), UNCHANGED overlap PROVE IInv'
    <2> DEFINE w == [work[h] EXCEPT !.at = "score"]
    <2>1. /\ w \in Works /\ w.at = "score" /\ w.alert = work[h].alert /\ w.read = work[h].read
      BY <1>0 DEF Works, Places
    <2>2. Become(h, w)
      BY <1>2
    <2> HIDE DEF w
    <2>3. WorkOK(w, rows, Len(alerts))
      BY <1>0, <2>1 DEF WorkOK, Stored
    <2> QED BY <1>0, <1>2, <2>1, <2>2, <2>3, Before, Quiet
  <1> QED BY <1>1, <1>2 DEF Evaluate

LEMMA ScoreInv ==
  ASSUME IInv, NEW h \in Handlers, Score(h)
  PROVE  IInv'
  <1>1. PICK place \in {"look", "finish"} : Become(h, [Idle EXCEPT !.at = place])
    BY DEF Score
  <1> DEFINE w == [Idle EXCEPT !.at = place]
  <1>2. /\ w \in Works /\ w.at = place /\ w.cause = Anomaly /\ w.alert = 0
        /\ \A c \in Counted : w.read[c] = Unread
    BY IdleFacts DEF Works, Places
  <1>3. /\ Become(h, w) /\ work[h].at # "settle"
        /\ UNCHANGED <<database, now, writer, requests, history>>
    BY <1>1 DEF Score, At
  <1> HIDE DEF w
  <1>4. WorkOK(w, rows, Len(alerts))
    BY <1>2, Before DEF WorkOK, Counted
  <1> QED BY <1>2, <1>3, <1>4, Before, Quiet DEF history

LEMMA FindInv ==
  ASSUME IInv, NEW h \in Handlers, Find(h)
  PROVE  IInv'
  <1>0. /\ work[h] \in Works /\ work[h].at = "report" /\ WorkOK(work[h], rows, Len(alerts))
        /\ UNCHANGED <<database, now, writer, requests, raised, reported>>
    BY Before DEF Find, At
  <1>1. ASSUME NEW v \in work[h].left, Loads(h, v),
               Become(h, [work[h] EXCEPT !.at = "store", !.cause = v, !.left = @ \ {v}, !.was = rows[v],
                                         !.read[v] = IF rows[v] = "none" THEN Unread ELSE hits[v]])
        PROVE  IInv'
    <2> DEFINE seen == IF rows[v] = "none" THEN Unread ELSE hits[v]
               w == [work[h] EXCEPT !.at = "store", !.cause = v, !.left = work[h].left \ {v},
                                    !.was = rows[v], !.read = [work[h].read EXCEPT ![v] = seen]]
    <2>1. work[h].left \subseteq Values /\ v \in Values /\ v \in Counted /\ v \in Causes
      BY <1>0 DEF WorkOK, Counted, Causes
    <2>2. rows[v] \in {"none", "live", "off"} /\ hits[v] \in Nat
      BY <2>1, Before DEF IInv, RowStates
    <2>3. Become(h, w)
      BY <1>0, <1>1, <2>1 DEF Become, Works
    <2>4. /\ w \in Works /\ w.at = "store" /\ w.cause = v /\ w.left \subseteq Values /\ w.was = rows[v]
          /\ w.alert = work[h].alert /\ w.read[v] = seen
          /\ \A c \in Counted : c # v => w.read[c] = work[h].read[c]
      BY ZenonT(60), <1>0, <2>1, <2>2 DEF Works, Places
    <2> HIDE DEF w
    <2>5. WorkOK(w, rows, Len(alerts))
      BY <1>0, <2>1, <2>2, <2>4 DEF WorkOK, Stored, Unread
    <2> QED BY <1>0, <1>1, <2>1, <2>3, <2>4, <2>5, Before, LoadsFacts, Quiet
  <1>2. ASSUME Done(h), UNCHANGED overlap PROVE IInv'
    BY <1>0, <1>2, DoneStep DEF history
  <1> QED BY <1>1, <1>2 DEF Find

\* A step of h that changes rows and is its last.
LEMMA DoneWithRows ==
  ASSUME IInv, NEW h \in Handlers, Become(h, Idle), RowsStay, writer # h,
         UNCHANGED <<hits, alerts, now, writer, requests, raised, reported, overlap>>
  PROVE  IInv'
  <1>1. WorkOK(Idle, rows', Len(alerts))
    BY Before, IdleOK
  <1>2. alerts \in Seq(Alert) /\ requests \in 0..MaxRequests /\ overlap \subseteq Counted
    BY Before
  <1>3. Idle \in Works /\ Idle.at # "settle" /\ \A c \in Counted : Idle.read[c] = Unread
    BY IdleFacts
  <1> QED BY <1>1, <1>2, <1>3, Ordinary

LEMMA SaveRowInv ==
  ASSUME IInv, NEW h \in Handlers, NEW place \in {"retire", "create", "delete"}, NEW row \in RowStates,
         SaveRow(h, place, row), row # "none",
         place = "delete" <=> row = "gone",
         place = "retire" => work[h].cause \in Values,
         place # "retire" => work[h].cause \in Rules,
         place = "create" => rows[work[h].cause] = "none"
  PROVE  IInv'
  <1>0. /\ work[h] \in Works /\ work[h].at = place /\ WorkOK(work[h], rows, Len(alerts))
        /\ writer # h
    BY Before DEF SaveRow, At
  <1>1. /\ rows' = [rows EXCEPT ![work[h].cause] = row] /\ Become(h, Idle)
        /\ UNCHANGED <<hits, alerts, now, writer, requests, history>>
        /\ writer = Nobody
    BY <1>0 DEF SaveRow, Done, MayWrite
  <1>2. work[h].cause \in Counted /\ (work[h].cause \in Values => place = "retire")
    BY DEF Counted
  <1>3. rows' \in [Counted -> RowStates] /\ rows'[work[h].cause] = row
        /\ \A c \in Counted : c # work[h].cause => rows'[c] = rows[c]
    BY <1>1, <1>2, Before
  <1>4. RowsStay
    <2>1. \A c \in Counted : rows[c] # "none" => rows'[c] # "none"
      BY <1>3
    <2>2. \A r \in Rules : rows[r] \in {"live", "gone"} => rows'[r] \in {"live", "gone"}
      BY <1>2, <1>3 DEF Counted, SaveRow
    <2>3. \A v \in Values : rows'[v] # "gone"
      BY <1>2, <1>3 DEF Counted, IInv
    <2> QED BY <1>1, <1>3, <2>1, <2>2, <2>3 DEF RowsStay
  <1>5. UNCHANGED <<hits, alerts, now, writer, requests, raised, reported, overlap>>
    BY <1>1 DEF history
  <1> QED BY <1>0, <1>1, <1>4, <1>5, DoneWithRows

LEMMA SavesInv ==
  ASSUME IInv, NEW h \in Handlers, Retire(h) \/ CreateRule(h) \/ DeleteRule(h)
  PROVE  IInv'
  <1>0. WorkOK(work[h], rows, Len(alerts)) /\ rows \in [Counted -> RowStates]
    BY Before
  <1>1. CASE Retire(h)
    <2> DEFINE row == IF work[h].was = "live" THEN "off" ELSE rows[work[h].cause]
    <2>1. work[h].cause \in Values /\ rows[work[h].cause] # "none" /\ SaveRow(h, "retire", row)
      BY <1>0, <1>1 DEF Retire, SaveRow, At, WorkOK, Stored
    <2>2. row \in RowStates /\ row # "none" /\ row # "gone"
      BY <1>0, <2>1 DEF IInv, Counted, RowStates
    <2> HIDE DEF row
    <2> QED BY <2>1, <2>2, SaveRowInv
  <1>2. CASE CreateRule(h)
    <2>1. PICK row \in {"live", "off"} : SaveRow(h, "create", row) /\ rows[work[h].cause] = "none"
      BY <1>2 DEF CreateRule
    <2>2. work[h].cause \in Rules
      BY <1>0, <1>2 DEF CreateRule, At, WorkOK
    <2> QED BY <2>1, <2>2, SaveRowInv DEF RowStates
  <1>3. CASE DeleteRule(h)
    <2>1. work[h].cause \in Rules /\ SaveRow(h, "delete", "gone")
      BY <1>0, <1>3 DEF DeleteRule, SaveRow, At, WorkOK
    <2> QED BY <2>1, SaveRowInv DEF RowStates
  <1> QED BY <1>1, <1>2, <1>3

LEMMA TriageInv ==
  ASSUME IInv, NEW h \in Handlers, NEW state \in Desk!States, Triage(h, state)
  PROVE  IInv'
  <1>0. /\ work[h] \in Works /\ work[h].at = "triage" /\ WorkOK(work[h], rows, Len(alerts))
        /\ Done(h) /\ UNCHANGED <<rows, hits, now, writer, requests, history>>
    BY Before DEF Triage, At
  <1>1. CASE alerts' = alerts
    BY <1>0, <1>1, DoneStep DEF database
  <1>2. CASE alerts' = [alerts EXCEPT ![work[h].alert].state = state]
    <2>1. work[h].alert \in 1..Len(alerts)
      BY <1>0, Before DEF WorkOK, Works
    <2>2. /\ alerts' = [alerts EXCEPT ![work[h].alert] = [alerts[work[h].alert] EXCEPT !.state = state]]
          /\ alerts[work[h].alert] \in Alert
      BY <1>2, <2>1, Before
    <2>3. /\ [alerts[work[h].alert] EXCEPT !.state = state] \in Alert
          /\ [alerts[work[h].alert] EXCEPT !.state = state].seen = alerts[work[h].alert].seen
      BY <2>2 DEF Alert
    <2>4. /\ alerts' \in Seq(Alert) /\ Len(alerts') = Len(alerts)
          /\ \A i \in DOMAIN alerts : alerts'[i].seen = alerts[i].seen
      BY <2>1, <2>2, <2>3, Before
    <2>5. WorkOK(Idle, rows', Len(alerts)) /\ RowsStay
      BY <1>0, Before, IdleOK
    <2> QED BY <1>0, <2>4, <2>5, Before, IdleFacts, Ordinary DEF Done, history
  <1> QED BY <1>1, <1>2 DEF Triage


-----------------------------------------------------------------------------
(* The steps that take the lock, count, or end what failed.                *)

LEMMA LookInv ==
  ASSUME IInv, NEW h \in Handlers, Look(h)
  PROVE  IInv'
  <1>0. /\ work[h] \in Works /\ work[h].at = "look" /\ WorkOK(work[h], rows, Len(alerts))
        /\ UNCHANGED <<database, now, requests, history>> /\ Flush(h)
        /\ Types /\ LockOK /\ (\A g \in Handlers : WorkOK(work[g], rows, Len(alerts)))
        /\ (\A c \in Counted : ReadsOK(c)) /\ Len(alerts) \in Nat
    BY Before DEF Look, At, IInv
  <1>1. PICK i \in 0..Len(alerts), n \in Nat :
          Become(h, [work[h] EXCEPT !.at = "settle", !.alert = i, !.occurrences = n])
    <2>1. ASSUME NEW i \in Desk!Latest(work[h].cause),
                 Become(h, [work[h] EXCEPT !.at = "settle", !.alert = i,
                                           !.occurrences = alerts[i].occurrences])
          PROVE  i \in 0..Len(alerts) /\ alerts[i].occurrences \in Nat
      <3>1. i \in DOMAIN alerts
        BY <2>1 DEF Desk!Latest, Desk!Current
      <3>2. alerts[i] \in Alert /\ i \in 1..Len(alerts)
        BY <3>1, <1>0 DEF Types
      <3>3. alerts[i].occurrences \in Nat
        BY <3>2 DEF Alert
      <3> QED BY <3>2, <3>3
    <2>2. ASSUME Become(h, [work[h] EXCEPT !.at = "settle"])
          PROVE  \E i \in 0..Len(alerts), n \in Nat :
                   Become(h, [work[h] EXCEPT !.at = "settle", !.alert = i, !.occurrences = n])
      <3>1. work[h].alert \in 0..Len(alerts) /\ work[h].occurrences \in Nat
        BY <1>0 DEF Works, WorkOK
      <3>2. [work[h] EXCEPT !.at = "settle"] =
               [work[h] EXCEPT !.at = "settle", !.alert = work[h].alert,
                               !.occurrences = work[h].occurrences]
        BY <1>0 DEF Works
      <3> HIDE DEF Become
      <3> QED BY <2>2, <3>1, <3>2
    <2> QED BY <2>1, <2>2 DEF Look
  <1> DEFINE w == [work[h] EXCEPT !.at = "settle", !.alert = i, !.occurrences = n]
  <1>2. /\ w \in Works /\ w.at = "settle" /\ w.alert = i /\ w.cause = work[h].cause
        /\ w.read = work[h].read /\ w.left = work[h].left
    <2>1. i \in Nat /\ "settle" \in Places
      BY DEF Places
    <2> QED BY <1>0, <2>1 DEF Works
  <1>3. Become(h, w)
    BY <1>1
  <1> HIDE DEF w
  <1>4. /\ work' \in [Handlers -> Works] /\ work'[h] = w
        /\ \A g \in Handlers : g # h => work'[g] = work[g]
    BY <1>0, <1>2, <1>3 DEF Become, Types
  <1>5. /\ rows' = rows /\ hits' = hits /\ alerts' = alerts /\ now' = now /\ requests' = requests
        /\ raised' = raised /\ reported' = reported /\ overlap' = overlap
    BY <1>0 DEF database, history
  <1>6. writer' \in Handlers \cup {Nobody}
    BY <1>0 DEF Flush, Types
  <1>7. Types'
    BY <1>0, <1>4, <1>5, <1>6 DEF Types
  <1>8. WorkOK(w, rows, Len(alerts))
    BY <1>0, <1>2 DEF WorkOK, Selected
  <1>9. \A g \in Handlers : WorkOK(work'[g], rows', Len(alerts'))
    BY <1>0, <1>4, <1>5, <1>8
  <1>10. LockOK'
    <2>1. CASE work[h].cause = Anomaly
      <3>1. writer' = writer /\ writer # h
        BY <1>0, <2>1, Before DEF Flush, Flushes
      <3> QED BY ZenonT(60), <1>0, <1>2, <1>4, <1>5, <2>1, <3>1 DEF LockOK, At, Flushes, Types
    <2>2. CASE work[h].cause # Anomaly
      <3>1. MayWrite(h) /\ rows[work[h].cause] # "gone" /\ writer' = h /\ writer # h
        BY <1>0, <2>2, Before DEF Flush, Flushes
      <3>2. writer = Nobody
        BY <3>1 DEF MayWrite
      <3> QED BY <1>0, <1>2, <1>4, <1>5, <2>2, <3>1, <3>2 DEF LockOK, At, Flushes
    <2> QED BY <2>1, <2>2
  <1>11. \A c \in Counted : ReadsOK(c)'
    <2>1. \A g \in Handlers : work'[g].read = work[g].read
      BY <1>2, <1>4
    <2> QED BY <1>0, <1>5, <2>1 DEF ReadsOK, Sightings
  <1> QED BY <1>5, <1>7, <1>9, <1>10, <1>11 DEF IInv

\* What a commit of a raise starts from.
LEMMA SettleFacts ==
  ASSUME IInv, NEW h \in Handlers, Settle(h)
  PROVE  /\ work[h] \in Works /\ work[h].at = "settle" /\ WorkOK(work[h], rows, Len(alerts))
         /\ work[h].cause # Anomaly => /\ work[h].cause \in Counted /\ writer = h
                                       /\ rows[work[h].cause] \notin {"none", "gone"}
                                       /\ work[h].read[work[h].cause] \in Nat
         /\ \A g \in Handlers \ {h} : ~(At(g, "settle") /\ Flushes(g))
         /\ work[h].cause \in Rules => rows[work[h].cause] = "live"
  <1>0. work[h] \in Works /\ work[h].at = "settle" /\ WorkOK(work[h], rows, Len(alerts)) /\ MayWrite(h)
        /\ LockOK
    BY Before DEF Settle, At, IInv
  <1>1. \A g \in Handlers \ {h} : ~(At(g, "settle") /\ Flushes(g))
    BY <1>0 DEF LockOK, MayWrite
  <1>2. ASSUME work[h].cause # Anomaly
        PROVE  /\ work[h].cause \in Counted /\ writer = h /\ rows[work[h].cause] \notin {"none", "gone"}
               /\ work[h].read[work[h].cause] \in Nat
    <2>1. work[h].cause \in Counted
      BY <1>0, <1>2 DEF Works, Causes
    <2>2. work[h].read[work[h].cause] \in Nat
      BY <1>0, <1>2, <2>1 DEF WorkOK, Works
    <2>3. rows[work[h].cause] # "none"
      BY <1>0, <2>1, <2>2 DEF WorkOK, Stored, Unread
    <2>4. writer = h /\ rows[work[h].cause] # "gone"
      BY <1>0, <1>2 DEF LockOK, At, Flushes
    <2> QED BY <2>1, <2>2, <2>3, <2>4
  <1>3. work[h].cause \in Rules => rows[work[h].cause] = "live"
    BY <1>0, <1>2 DEF WorkOK, Selected, Counted
  <1> QED BY <1>0, <1>1, <1>2, <1>3

\* To count an alert once more is to replace it.
LEMMA CountAgain ==
  ASSUME NEW w \in Works, w.alert \in 1..Len(alerts), alerts \in Seq(Alert), now \in Nat
  PROVE  /\ Settled(w) = [alerts EXCEPT ![w.alert] = [alerts[w.alert] EXCEPT !.occurrences = w.occurrences + 1,
                                                                           !.seen = now]]
         /\ \E a \in Alert : a.seen = now /\ Settled(w) = [alerts EXCEPT ![w.alert] = a]
  <1>0. PICK i \in 1..Len(alerts), n \in Nat : i = w.alert /\ n = w.occurrences
    BY DEF Works
  <1>1. PICK a : a = [alerts[i] EXCEPT !.occurrences = n + 1, !.seen = now]
    OBVIOUS
  <1>2. a \in Alert /\ a.seen = now
    <2>1. n + 1 \in Nat \ {0} /\ alerts[i] \in Alert
      OBVIOUS
    <2> QED BY <1>1, <2>1 DEF Alert
  <1>3. [alerts EXCEPT ![i].occurrences = n + 1, ![i].seen = now] = [alerts EXCEPT ![i] = a]
    <2>1. PICK b : b = [alerts[i] EXCEPT !.occurrences = n + 1]
      OBVIOUS
    <2>2. PICK once : once = [alerts EXCEPT ![i] = b]
      OBVIOUS
    <2>3. [alerts EXCEPT ![i].occurrences = n + 1, ![i].seen = now] = [once EXCEPT ![i].seen = now]
      BY <2>1, <2>2
    <2>4. a = [b EXCEPT !.seen = now]
      BY <1>1, <2>1
    <2>5. once[i] = b /\ once \in [1..Len(alerts) -> UNION {Alert, {b}}]
      BY <2>2
    <2>6. [once EXCEPT ![i].seen = now] = [once EXCEPT ![i] = a]
      BY <2>4, <2>5
    <2>7. [once EXCEPT ![i] = a] = [alerts EXCEPT ![i] = a]
      BY <2>2
    <2> QED BY <2>3, <2>6, <2>7
  <1>4. Settled(w) = [alerts EXCEPT ![i].occurrences = n + 1, ![i].seen = now]
    BY <1>0 DEF Settled
  <1>5. Settled(w) = [alerts EXCEPT ![w.alert] = a]
    BY <1>0, <1>3, <1>4
  <1>6. a = [alerts[w.alert] EXCEPT !.occurrences = w.occurrences + 1, !.seen = now]
    BY <1>0, <1>1
  <1> QED BY <1>2, <1>5, <1>6

LEMMA CountUp ==
  ASSUME NEW S, NEW f \in [S -> Nat], NEW c \in S, NEW n \in Nat
  PROVE  [f EXCEPT ![c] = n + 1] \in [S -> Nat]
  OBVIOUS

LEMMA SettleInv ==
  ASSUME IInv, NEW h \in Handlers, Settle(h)
  PROVE  IInv'
  <1>0. /\ Types /\ (\A g \in Handlers : WorkOK(work[g], rows, Len(alerts)))
        /\ (\A c \in Counted : ReadsOK(c)) /\ Len(alerts) \in Nat
        /\ \A j \in DOMAIN alerts : alerts[j].seen <= now
        /\ UNCHANGED <<rows, now, requests, reported, overlap>> /\ writer' = Nobody
        /\ now \in Nat
    BY Before DEF Settle, IInv, Types
  <1> DEFINE w == [Idle EXCEPT !.at = After(work[h].cause), !.left = work[h].left]
  <1>1. /\ w \in Works /\ w.at = After(work[h].cause) /\ w.left = work[h].left /\ w.alert = 0
        /\ \A c \in Counted : w.read[c] = Unread
    BY SettleFacts, IdleFacts DEF Works, Places, After
  <1>2. Become(h, w)
    BY DEF Settle
  <1> HIDE DEF w
  <1>3. /\ work' \in [Handlers -> Works] /\ work'[h] = w
        /\ \A g \in Handlers : g # h => work'[g] = work[g]
    BY <1>0, <1>1, <1>2 DEF Become, Types
  <1>4. /\ alerts' \in Seq(Alert) /\ Len(alerts') \in Nat /\ Len(alerts) <= Len(alerts')
        /\ \A j \in DOMAIN alerts' : alerts'[j].seen <= now
    <2>1. CASE work[h].alert = 0
      <3>1. Desk!NewAlert(work[h].cause) \in Alert /\ Desk!NewAlert(work[h].cause).seen = now
        BY <1>0, SettleFacts DEF Desk!NewAlert, Alert, Works, Desk!States
      <3>2. alerts' = Append(alerts, Desk!NewAlert(work[h].cause))
        BY <2>1 DEF Settle
      <3> HIDE DEF Desk!NewAlert
      <3> QED BY <1>0, <3>1, <3>2 DEF Types
    <2>2. CASE work[h].alert # 0
      <3>1. work[h].alert \in 1..Len(alerts) /\ work[h].occurrences \in Nat
        BY <1>0, <2>2, SettleFacts DEF WorkOK, Works, Types
      <3>2. alerts' = Settled(work[h]) /\ alerts \in Seq(Alert)
        BY <1>0, <2>2 DEF Settle, Types
      <3>3. PICK a \in Alert : a.seen = now /\ alerts' = [alerts EXCEPT ![work[h].alert] = a]
        BY <1>0, <3>1, <3>2, SettleFacts, CountAgain
      <3> QED BY <1>0, <3>1, <3>2, <3>3
    <2> QED BY <2>1, <2>2
  <1>5. hits' \in [Counted -> Nat] /\ raised' \in [Causes -> Nat]
    <2>0. /\ work[h].cause \in Causes /\ raised \in [Causes -> Nat]
          /\ raised' = [raised EXCEPT ![work[h].cause] = @ + 1]
      BY <1>0, SettleFacts DEF Settle, Types, Works
    <2>1. raised' \in [Causes -> Nat]
      BY <2>0
    <2>2. CASE work[h].cause = Anomaly
      BY <1>0, <2>1, <2>2 DEF Settle, Flushes, Types
    <2>3. CASE work[h].cause # Anomaly
      <3>1. /\ hits' = [hits EXCEPT ![work[h].cause] = work[h].read[work[h].cause] + 1]
            /\ work[h].read[work[h].cause] \in Nat
        BY <2>3, SettleFacts DEF Settle, Flushes
      <3>2. work[h].cause \in Counted /\ hits \in [Counted -> Nat]
        BY <1>0, <2>3, SettleFacts DEF Types
      <3> QED BY <2>1, <3>1, <3>2, CountUp
    <2> QED BY <2>2, <2>3
  <1>6. Types'
    BY <1>0, <1>3, <1>4, <1>5 DEF Types
  <1>7. RowsStay
    BY <1>0, Before
  <1>8. WorkOK(w, rows', Len(alerts'))
    <2>1. \A v \in work[h].left : work[h].cause \in Values => v \in Values /\ Stored(v, rows)
      BY SettleFacts DEF WorkOK
    <2>2. \A r \in work[h].left : work[h].cause \in Rules => Selected(r, rows)
      BY SettleFacts DEF WorkOK
    <2> QED BY <1>0, <1>1, <1>4, <2>1, <2>2 DEF WorkOK, After
  <1>9. \A g \in Handlers : WorkOK(work'[g], rows', Len(alerts'))
    BY <1>0, <1>3, <1>4, <1>7, <1>8, WorkStays DEF Types
  <1>10. LockOK'
    <2>1. w.at # "settle"
      BY <1>1 DEF After
    <2> QED BY <1>0, <1>3, <2>1, SettleFacts DEF LockOK, At, Flushes
  <1>11. ASSUME NEW c \in Counted PROVE ReadsOK(c)'
    <2>0. /\ raised[c] \in Nat /\ (c \in Values => reported[c] \in Nat) /\ Sightings(c) \in Nat
          /\ hits[c] \in Nat /\ c # Anomaly /\ ReadsOK(c) /\ c \in Causes
          /\ \A g \in Handlers : work[g].read[c] \in Nat \cup {Unread}
      BY <1>0 DEF Types, Causes, Sightings, Works
    <2>1. CASE work[h].cause # c
      <3>1. raised'[c] = raised[c] /\ hits'[c] = hits[c]
        BY <1>0, <2>0, <2>1 DEF Settle, Types
      <3>2. Sightings(c)' = Sightings(c)
        BY <1>0, <3>1 DEF Sightings
      <3> QED BY <1>0, <1>1, <1>3, <2>0, <3>1, <3>2 DEF ReadsOK
    <2>2. CASE work[h].cause = c
      <3>1. raised'[c] = raised[c] + 1 /\ hits'[c] = work[h].read[c] + 1
        BY <1>0, <2>0, <2>2 DEF Settle, Types, Flushes
      <3>2. Sightings(c)' = Sightings(c) + 1
        BY <1>0, <2>0, <3>1 DEF Sightings
      <3>3. work[h].read[c] \in Nat /\ work[h].read[c] # Unread /\ rows[c] # "none"
        BY <2>0, <2>2, SettleFacts DEF Unread
      <3> QED BY SMTT(40), <1>0, <1>1, <1>3, <2>0, <3>1, <3>2, <3>3 DEF ReadsOK
    <2> QED BY <2>1, <2>2
  <1>12. \A j \in DOMAIN alerts' : alerts'[j].seen <= now'
    BY <1>0, <1>4
  <1> QED BY <1>6, <1>7, <1>9, <1>10, <1>11, <1>12 DEF IInv, RowsStay

LEMMA StoreInv ==
  ASSUME IInv, NEW h \in Handlers, Store(h)
  PROVE  IInv'
  <1> DEFINE c == work[h].cause
             w == [Idle EXCEPT !.at = "report", !.left = work[h].left]
  <1>0. /\ work[h] \in Works /\ work[h].at = "store" /\ WorkOK(work[h], rows, Len(alerts))
        /\ Types /\ LockOK /\ (\A g \in Handlers : WorkOK(work[g], rows, Len(alerts)))
        /\ (\A d \in Counted : ReadsOK(d)) /\ Len(alerts) \in Nat
        /\ UNCHANGED <<alerts, now, writer, requests, raised, overlap>>
        /\ writer = Nobody
    BY Before DEF Store, At, IInv, MayWrite
  <1>1. c \in Values /\ c \in Counted /\ work[h].left \subseteq Values
    BY <1>0 DEF WorkOK, Counted
  <1>2. /\ w \in Works /\ w.at = "report" /\ w.left = work[h].left /\ w.alert = 0
        /\ \A d \in Counted : w.read[d] = Unread
    BY <1>0, IdleFacts DEF Works, Places
  <1>3. Become(h, w)
    BY DEF Store
  <1> HIDE DEF w
  <1>4. WorkOK(w, rows', Len(alerts))
    BY <1>0, <1>1, <1>2 DEF WorkOK
  <1>5. CASE work[h].was = "none"
    <2>1. /\ rows[c] = "none" /\ rows' = [rows EXCEPT ![c] = "live"]
          /\ hits' = [hits EXCEPT ![c] = 0] /\ reported' = reported
      BY <1>5 DEF Store, FirstCount
    <2>2. hits[c] = 0
      BY <1>0, <1>1, <2>1 DEF ReadsOK
    <2>3. hits' = hits
      BY <1>0, <1>1, <2>1, <2>2 DEF Types
    <2> HIDE DEF c
    <2>4. RowsStay
      BY <1>0, <1>1, <2>1 DEF RowsStay, IInv, Types, RowStates, Counted
    <2>5. /\ w.at # "settle" /\ writer # h /\ overlap \subseteq overlap' /\ overlap' \subseteq Counted
          /\ requests' \in 0..MaxRequests /\ alerts' \in Seq(Alert) /\ Len(alerts') = Len(alerts)
          /\ \A i \in DOMAIN alerts : alerts'[i].seen = alerts[i].seen
          /\ UNCHANGED <<hits, now, writer, raised, reported>>
          /\ \A d \in Counted : w.read[d] \in {Unread, work[h].read[d]}
      BY <1>0, <1>2, <2>1, <2>3, Before
    <2> QED BY <1>2, <1>3, <1>4, <2>4, <2>5, Ordinary
  <1>6. CASE work[h].was # "none"
    <2>1. /\ hits' = [hits EXCEPT ![c] = work[h].read[c] + 1]
          /\ rows' = (IF work[h].was = "off" THEN [rows EXCEPT ![c] = "live"] ELSE rows)
          /\ reported' = [reported EXCEPT ![c] = @ + 1]
      BY <1>6 DEF Store
    <2>2. work[h].read[c] \in Nat /\ work[h].read[c] # Unread /\ rows[c] # "none"
      BY <1>0, <1>1, <1>6 DEF WorkOK, Works, Stored
    <2> HIDE DEF c
    <2>3. /\ hits' \in [Counted -> Nat] /\ hits'[c] = work[h].read[c] + 1
          /\ reported' \in [Values -> Nat] /\ reported'[c] = reported[c] + 1
          /\ \A d \in Counted : d # c => hits'[d] = hits[d]
          /\ \A v \in Values : v # c => reported'[v] = reported[v]
      BY <1>0, <1>1, <2>1, <2>2 DEF Types
    <2>4. RowsStay
      <3>1. rows' \in [Counted -> RowStates]
        BY <1>0, <1>1, <2>1 DEF Types, RowStates
      <3>2. \A d \in Counted : rows'[d] = rows[d] \/ (d = c /\ rows'[d] = "live")
        BY <1>0, <1>1, <2>1 DEF Types
      <3> QED BY <1>1, <3>1, <3>2 DEF RowsStay, IInv, Counted
    <2>5. /\ work' \in [Handlers -> Works] /\ work'[h] = w
          /\ \A g \in Handlers : g # h => work'[g] = work[g]
      BY <1>0, <1>2, <1>3 DEF Become, Types
    <2>6. Types'
      BY <1>0, <2>3, <2>4, <2>5 DEF Types, RowsStay
    <2>7. \A g \in Handlers : WorkOK(work'[g], rows', Len(alerts'))
      <3>1. ASSUME NEW g \in Handlers, g # h PROVE WorkOK(work[g], rows', Len(alerts))
        BY <1>0, <2>4, WorkStays DEF Types
      <3> QED BY <1>0, <1>4, <2>5, <3>1
    <2>8. LockOK'
      <3>1. \A g \in Handlers : ~(At(g, "settle") /\ Flushes(g))
        BY <1>0 DEF LockOK
      <3> QED BY <1>0, <1>2, <2>5, <3>1 DEF LockOK, At, Flushes
    <2>9. ASSUME NEW d \in Counted PROVE ReadsOK(d)'
      <3>0. /\ raised[d] \in Nat /\ (d \in Values => reported[d] \in Nat) /\ Sightings(d) \in Nat
            /\ hits[d] \in Nat /\ ReadsOK(d)
            /\ \A g \in Handlers : work[g].read[d] \in Nat \cup {Unread}
        BY <1>0 DEF Types, Causes, Sightings, Works
      <3>1. CASE d # c
        <4>1. Sightings(d)' = Sightings(d) /\ hits'[d] = hits[d]
          BY <1>0, <2>3, <3>1 DEF Sightings
        <4>2. rows'[d] = "none" => rows[d] = "none"
          BY <2>4 DEF RowsStay
        <4> QED BY <1>0, <1>2, <2>5, <3>0, <4>1, <4>2 DEF ReadsOK
      <3>2. CASE d = c
        <4>1. Sightings(d)' = Sightings(d) + 1 /\ hits'[d] = work[h].read[d] + 1
          <5>1. /\ d \in Values /\ reported'[d] = reported[d] + 1 /\ raised'[d] = raised[d]
                /\ hits'[d] = work[h].read[d] + 1
            BY <1>0, <1>1, <2>3, <3>2
          <5> QED BY <3>0, <5>1 DEF Sightings
        <4>2. rows'[d] # "none"
          BY <2>2, <2>4, <3>2 DEF RowsStay
        <4>3. work[h].read[d] \in Nat /\ work[h].read[d] # Unread
          BY <2>2, <3>2
        <4> QED BY <1>0, <1>2, <2>5, <3>0, <4>1, <4>2, <4>3 DEF ReadsOK
      <3> QED BY <3>1, <3>2
    <2>10. \A i \in DOMAIN alerts' : alerts'[i].seen <= now'
      BY <1>0 DEF IInv
    <2> QED BY <2>4, <2>6, <2>7, <2>8, <2>9, <2>10 DEF IInv, RowsStay
  <1> QED BY <1>5, <1>6

LEMMA FailInv ==
  ASSUME IInv, NEW h \in Handlers, Fail(h)
  PROVE  IInv'
  <1>0. /\ Types /\ LockOK /\ (\A g \in Handlers : WorkOK(work[g], rows, Len(alerts)))
        /\ (\A c \in Counted : ReadsOK(c)) /\ WorkOK(Idle, rows, Len(alerts))
        /\ writer' = (IF writer = h THEN Nobody ELSE writer)
    BY Before, IdleOK DEF Fail, IInv
  <1>1. /\ rows' = rows /\ hits' = hits /\ alerts' = alerts /\ now' = now /\ requests' = requests
        /\ raised' = raised /\ reported' = reported /\ overlap' = overlap
    BY DEF Fail, database, history
  <1>2. /\ work' \in [Handlers -> Works] /\ work'[h] = Idle
        /\ \A g \in Handlers : g # h => work'[g] = work[g]
    BY <1>0, IdleFacts DEF Fail, Done, Become, Types
  <1>3. Types'
    BY <1>0, <1>1, <1>2 DEF Types
  <1>4. \A g \in Handlers : WorkOK(work'[g], rows', Len(alerts'))
    BY <1>0, <1>1, <1>2
  <1>5. LockOK'
    <2>1. writer' # Nobody => /\ writer' = writer /\ writer # h /\ writer \in Handlers
                              /\ work'[writer] = work[writer]
      BY <1>0, <1>2 DEF Types
    <2>2. ASSUME NEW g \in Handlers, At(g, "settle")', Flushes(g)'
          PROVE  writer' = g /\ rows'[work'[g].cause] # "gone"
      <3>1. g # h /\ work'[g] = work[g]
        BY <1>2, <2>2, IdleFacts DEF At
      <3> QED BY <1>0, <1>1, <2>2, <3>1 DEF LockOK, At, Flushes
    <2>3. writer' # Nobody => work'[writer'].at = "settle" /\ work'[writer'].cause # Anomaly
      BY <1>0, <2>1 DEF LockOK, At, Flushes
    <2> QED BY <2>2, <2>3 DEF LockOK, At, Flushes
  <1>6. \A c \in Counted : ReadsOK(c)'
    BY <1>0, <1>1, <1>2, IdleFacts DEF ReadsOK, Sightings
  <1> QED BY <1>1, <1>3, <1>4, <1>5, <1>6 DEF IInv

LEMMA StepInv == IInv /\ [Next]_vars => IInv'
  <1> SUFFICES ASSUME IInv, [Next]_vars PROVE IInv'
    OBVIOUS
  <1>1. ASSUME NEW h \in Handlers, Step(h) PROVE IInv'
    <2>1. ASSUME Finish(h) \/ Refused(h) PROVE IInv'
      <3>1. /\ Done(h) /\ work[h].at # "settle"
            /\ UNCHANGED <<database, now, writer, requests, history>>
        BY <2>1 DEF Finish, Refused, At
      <3> QED BY <3>1, DoneStep
    <2>2. ASSUME NEW state \in Verdicts, Triage(h, state) PROVE IInv'
      BY <2>2, TriageInv, VerdictsAssumption
    <2> QED
      BY <1>1, <2>1, <2>2, MatchInv, SightInv, EvaluateInv, ScoreInv, LookInv, SettleInv, FindInv,
         StoreInv, SavesInv DEF Step
  <1>2. ASSUME Tick PROVE IInv'
    <2>1. /\ UNCHANGED <<rows, hits, alerts, work, writer, requests, raised, reported, overlap>>
          /\ now' = now + 1 /\ now < MaxTime
      BY <1>2 DEF Tick, database, history
    <2>2. Types' /\ now' >= now
      BY <2>1 DEF IInv, Types
    <2>3. LockOK' /\ \A c \in Counted : ReadsOK(c)'
      BY <2>1 DEF IInv, LockOK, At, Flushes, ReadsOK, Sightings
    <2>4. \A i \in DOMAIN alerts' : alerts'[i].seen <= now'
      <3>1. \A i \in DOMAIN alerts : alerts[i].seen <= now /\ alerts[i] \in Alert /\ now \in Nat
        BY DEF IInv, Types
      <3> QED BY <2>1, <3>1 DEF Alert
    <2> QED BY <2>1, <2>2, <2>3, <2>4 DEF IInv
  <1>3. ASSUME UNCHANGED vars PROVE IInv'
    BY <1>3 DEF vars, database, history, IInv, Types, LockOK, At, Flushes, ReadsOK, Sightings
  <1> QED BY <1>1, <1>2, <1>3, StartInv, FailInv DEF Next

LEMMA Invariance == Spec => []IInv
  BY InitInv, StepInv, PTL DEF Spec

\* The write lock is held between the SELECT and the commit of a raise, and by
\* nobody else, whatever fails (services.py:393-429).
THEOREM LockIsRaising == Spec => []WriterIsRaising
  <1>1. IInv => WriterIsRaising
    BY DEF IInv, LockOK, WriterIsRaising
  <1> QED BY Invariance, <1>1, PTL

\* hit_count never holds a sighting too many, and misses one only where two
\* requests worked on the row at the same time (services.py:49-67, 315-349).
THEOREM HitsTheorem == Spec => []HitsMissOnlyOverlaps
  <1>1. IInv => HitsMissOnlyOverlaps
    BY DEF IInv, ReadsOK, Sightings, HitsMissOnlyOverlaps
  <1> QED BY Invariance, <1>1, PTL

\* No alert is raised for a rule once its deletion is committed
\* (services.py:329-352, intel.py:303-312).
THEOREM SilentRules == Spec => DeletedRulesAreSilent
  <1>1. ASSUME IInv, [Next]_vars, NEW r \in Rules, raised'[r] # raised[r] PROVE rows[r] = "live"
    <2>1. ASSUME NEW h \in Handlers, Settle(h) PROVE rows[r] = "live"
      <3>1. raised \in [Causes -> Nat] /\ r \in Causes
        BY <1>1 DEF IInv, Types, Causes, Counted
      <3>2. work[h].cause = r
        BY <1>1, <2>1, <3>1 DEF Settle
      <3> QED BY <1>1, <2>1, <3>2, SettleFacts
    <2>2. ASSUME UNCHANGED raised PROVE rows[r] = "live"
      BY <1>1, <2>2
    <2> QED BY ZenonT(60), <1>1, <2>1, <2>2
            DEF Next, Start, Step, Ingest, Report, RetireLoad, CreateLoad, DeleteLoad, LoadRow, TriageLoad,
                Match, Sight, Evaluate, Score, Look, Finish, Find, Store, Retire, CreateRule, DeleteRule,
                SaveRow, Triage, Refused, Fail, Tick, history, vars
  <1>2. ASSUME IInv, [Next]_vars
        PROVE  [\A r \in Rules : raised'[r] # raised[r] => rows[r] = "live"]_vars
    BY <1>1, <1>2
  <1> QED BY Invariance, <1>2, PTL DEF Spec, DeletedRulesAreSilent

-----------------------------------------------------------------------------
(* What a raise has found is still what it counts on when it commits.      *)

\* What a thread has looked up, if its record is w: an alert of its cause; and,
\* while it holds the lock, the one to count on.
Looked(w) ==
  /\ w.alert # 0 => /\ w.at \in {"settle", "triage"} /\ w.alert \in DOMAIN alerts
                    /\ alerts[w.alert].cause = w.cause
  /\ w.at = "settle" /\ w.cause # Anomaly =>
       IF w.alert = 0 THEN Desk!Current(w.cause) = {}
       ELSE w.alert \in Desk!Latest(w.cause) /\ w.occurrences = alerts[w.alert].occurrences

CountOK(c) == IsFiniteSet(Occurrences(c)) /\ raised[c] = Cardinality(Occurrences(c))

DeskInv == (\A h \in Handlers : Looked(work[h])) /\ (\A c \in Counted : CountOK(c))

\* One pair for each occurrence of each alert of c in the list before.
OccurrencesIn(before, c) ==
  UNION {{<<i, k>> : k \in 1..before[i].occurrences} : i \in {j \in DOMAIN before : before[j].cause = c}}

LEMMA OccurrencesFact ==
  ASSUME NEW before \in Seq(Alert), NEW c, NEW p
  PROVE  p \in OccurrencesIn(before, c) <=>
           \E i \in DOMAIN before : before[i].cause = c /\ \E k \in 1..before[i].occurrences : p = <<i, k>>
  <1>1. ASSUME p \in OccurrencesIn(before, c)
        PROVE  \E i \in DOMAIN before : before[i].cause = c /\ \E k \in 1..before[i].occurrences : p = <<i, k>>
    BY <1>1 DEF OccurrencesIn
  <1>2. ASSUME NEW i \in DOMAIN before, before[i].cause = c, NEW k \in 1..before[i].occurrences, p = <<i, k>>
        PROVE  p \in OccurrencesIn(before, c)
    BY <1>2 DEF OccurrencesIn
  <1> QED BY <1>1, <1>2

\* Alerts of other causes do not matter to the occurrences of c.
LEMMA SameOccurrences ==
  ASSUME NEW before \in Seq(Alert), NEW then \in Seq(Alert), NEW c,
         \A i : i \in DOMAIN before /\ before[i].cause = c <=> i \in DOMAIN then /\ then[i].cause = c,
         \A i \in DOMAIN before : before[i].cause = c => then[i].occurrences = before[i].occurrences
  PROVE  OccurrencesIn(then, c) = OccurrencesIn(before, c)
  <1>1. ASSUME NEW p PROVE p \in OccurrencesIn(then, c) <=> p \in OccurrencesIn(before, c)
    BY OccurrencesFact
  <1> QED BY <1>1

\* To count once more on an alert, or to open one, is one occurrence more.
LEMMA OneMore ==
  ASSUME NEW before \in Seq(Alert), NEW then \in Seq(Alert), NEW c, NEW i \in DOMAIN then, NEW n \in Nat,
         then[i].cause = c, then[i].occurrences = n + 1,
         IF i \in DOMAIN before THEN before[i].cause = c /\ before[i].occurrences = n ELSE n = 0,
         \A j : j # i => (j \in DOMAIN before <=> j \in DOMAIN then),
         \A j \in DOMAIN before : j # i => then[j] = before[j],
         IsFiniteSet(OccurrencesIn(before, c))
  PROVE  /\ IsFiniteSet(OccurrencesIn(then, c))
         /\ Cardinality(OccurrencesIn(then, c)) = Cardinality(OccurrencesIn(before, c)) + 1
  <1>1. <<i, n + 1>> \notin OccurrencesIn(before, c)
    <2>1. ASSUME NEW j \in DOMAIN before, before[j].cause = c, NEW k \in 1..before[j].occurrences, <<i, n + 1>> = <<j, k>>
          PROVE  FALSE
      <3>1. j = i /\ k = n + 1
        BY <2>1
      <3> QED BY <2>1, <3>1
    <2> QED BY <2>1, OccurrencesFact
  <1>2. ASSUME NEW p
        PROVE  p \in OccurrencesIn(then, c) <=> p \in OccurrencesIn(before, c) \cup {<<i, n + 1>>}
    <2>1. p \in OccurrencesIn(before, c) <=>
            \E j \in DOMAIN before : before[j].cause = c /\ \E k \in 1..before[j].occurrences : p = <<j, k>>
      BY before \in Seq(Alert), OccurrencesFact
    <2>2. p \in OccurrencesIn(then, c) <=>
            \E j \in DOMAIN then : then[j].cause = c /\ \E k \in 1..then[j].occurrences : p = <<j, k>>
      BY OccurrencesFact
    <2>3. 1..(n + 1) = (1..n) \cup {n + 1}
      OBVIOUS
    <2>4. (\E k \in 1..then[i].occurrences : p = <<i, k>>) <=>
            (\E k \in 1..n : p = <<i, k>>) \/ p = <<i, n + 1>>
      BY <2>3
    <2>5. ASSUME p \in OccurrencesIn(then, c) PROVE p \in OccurrencesIn(before, c) \/ p = <<i, n + 1>>
      <3>1. PICK j \in DOMAIN then : then[j].cause = c /\ \E k \in 1..then[j].occurrences : p = <<j, k>>
        BY <2>2, <2>5
      <3>2. CASE j # i
        BY <2>1, <3>1, <3>2
      <3>3. CASE j = i
        <4>1. CASE i \in DOMAIN before
          BY <2>1, <2>4, <3>1, <3>3, <4>1
        <4>2. CASE i \notin DOMAIN before
          BY <2>4, <3>1, <3>3, <4>2, 1..0 = {}
        <4> QED BY <4>1, <4>2
      <3> QED BY <3>2, <3>3
    <2>6. ASSUME p \in OccurrencesIn(before, c) PROVE p \in OccurrencesIn(then, c)
      <3>1. PICK j \in DOMAIN before : before[j].cause = c /\ \E k \in 1..before[j].occurrences : p = <<j, k>>
        BY <2>1, <2>6
      <3>2. CASE j # i
        BY <2>2, <3>1, <3>2
      <3>3. CASE j = i
        BY <2>2, <2>4, <3>1, <3>3
      <3> QED BY <3>2, <3>3
    <2>7. p = <<i, n + 1>> => p \in OccurrencesIn(then, c)
      BY <2>2, <2>4
    <2> QED BY <2>5, <2>6, <2>7
  <1>3. OccurrencesIn(then, c) = OccurrencesIn(before, c) \cup {<<i, n + 1>>}
    BY <1>2
  <1>4. /\ IsFiniteSet(OccurrencesIn(before, c) \cup {<<i, n + 1>>})
        /\ Cardinality(OccurrencesIn(before, c) \cup {<<i, n + 1>>}) = Cardinality(OccurrencesIn(before, c)) + 1
    <2>1. PICK S, p : S = OccurrencesIn(before, c) /\ p = <<i, n + 1>>
      OBVIOUS
    <2>2. IsFiniteSet(S) /\ p \notin S
      BY <1>1, <2>1
    <2>3. IsFiniteSet(S \cup {p}) /\ Cardinality(S \cup {p}) = Cardinality(S) + 1
      BY <2>2, FS_AddElement
    <2> QED BY <2>1, <2>3
  <1> QED BY <1>3, <1>4

LEMMA DeskInit == Init => DeskInv
  <1> SUFFICES ASSUME Init PROVE DeskInv
    OBVIOUS
  <1>1. \A h \in Handlers : Looked(work[h])
    BY IdleFacts DEF Init, Looked
  <1>2. ASSUME NEW c \in Counted PROVE CountOK(c)
    <2>1. alerts = <<>> /\ raised[c] = 0
      BY DEF Init, Causes
    <2>2. Occurrences(c) = {}
      BY <2>1 DEF Occurrences
    <2> QED BY <2>1, <2>2, FS_EmptySet DEF CountOK
  <1> QED BY <1>1, <1>2 DEF DeskInv

\* A step of h that leaves the alerts alone and has them looked up, or needs none.
LEMMA DeskStays ==
  ASSUME IInv, DeskInv, NEW h \in Handlers, NEW w, Become(h, w), Looked(w),
         UNCHANGED <<alerts, now, raised>>
  PROVE  DeskInv'
  <1>1. work'[h] = w /\ \A g \in Handlers : g # h => work'[g] = work[g]
    BY DEF IInv, Types, Become
  <1>2. ASSUME NEW g \in Handlers PROVE Looked(work[g])'
    BY <1>1 DEF DeskInv, Looked, Desk!Latest, Desk!Current
  <1>3. ASSUME NEW c \in Counted PROVE CountOK(c)'
    BY DEF DeskInv, CountOK, Occurrences
  <1> QED BY <1>2, <1>3 DEF DeskInv

LEMMA NoneLooked == ASSUME NEW w, w.alert = 0, w.at # "settle" \/ w.cause = Anomaly PROVE Looked(w)
  BY DEF Looked

\* Every step but a lookup, the commit of a raise and a triage.
LEMMA DeskQuiet ==
  ASSUME IInv, DeskInv, NEW h \in Handlers,
         \/ Start(h) \/ Fail(h) \/ Match(h) \/ Sight(h) \/ Evaluate(h) \/ Score(h) \/ Finish(h)
         \/ Find(h) \/ Store(h) \/ Retire(h) \/ CreateRule(h) \/ DeleteRule(h) \/ Refused(h)
  PROVE  DeskInv'
  <1>0. work[h] \in Works /\ Looked(work[h]) /\ alerts \in Seq(Alert)
    BY Before DEF DeskInv
  <1>1. ASSUME NEW w, Become(h, w), w.alert = 0, w.at # "settle" \/ w.cause = Anomaly,
               UNCHANGED <<alerts, now, raised>>
        PROVE  DeskInv'
    BY <1>1, NoneLooked, DeskStays
  <1>2. ASSUME NEW place, NEW left, Become(h, [Idle EXCEPT !.at = place, !.left = left]),
               UNCHANGED <<alerts, now, raised>>
        PROVE  DeskInv'
    <2>1. [Idle EXCEPT !.at = place, !.left = left].alert = 0
      BY DEF Idle
    <2>2. [Idle EXCEPT !.at = place, !.left = left].cause = Anomaly
      BY DEF Idle
    <2> QED BY <1>1, <1>2, <2>1, <2>2
  <1>3. ASSUME Done(h), UNCHANGED <<alerts, now, raised>> PROVE DeskInv'
    BY <1>1, <1>3, IdleFacts DEF Done
  <1>4. ASSUME work[h].at \in {"match", "sight", "rules", "report"}
        PROVE  work[h].alert = 0
    BY <1>0, <1>4 DEF Looked
  <1>5. CASE Start(h)
    <2>1. ASSUME NEW values, Ingest(h, values) \/ Report(h, values) PROVE DeskInv'
      BY <1>2, <2>1 DEF Ingest, Report, database, history
    <2>2. ASSUME NEW place, NEW c, LoadRow(h, place, c), place # "settle" PROVE DeskInv'
      <3>1. PICK w : w = [Idle EXCEPT !.at = place, !.cause = c, !.was = rows[c]]
        OBVIOUS
      <3>2. Become(h, w) /\ UNCHANGED <<alerts, now, raised>>
        BY <2>2, <3>1 DEF LoadRow, database, history
      <3>3. w.alert = 0 /\ w.at = place
        BY <3>1 DEF Idle
      <3> QED BY <1>1, <2>2, <3>2, <3>3
    <2>3. ASSUME NEW i \in DOMAIN alerts, TriageLoad(h, i) PROVE DeskInv'
      <3>1. PICK w : w = [Idle EXCEPT !.at = "triage", !.alert = i, !.was = alerts[i].state,
                                      !.cause = alerts[i].cause]
        OBVIOUS
      <3>2. Become(h, w) /\ UNCHANGED <<alerts, now, raised>>
        BY <2>3, <3>1 DEF TriageLoad, database, history
      <3>3. w.alert = i /\ w.at = "triage" /\ w.cause = alerts[i].cause
        BY <3>1 DEF Idle
      <3>4. Looked(w)
        BY <3>3 DEF Looked
      <3> QED BY <3>2, <3>4, DeskStays
    <2> QED BY <1>5, <2>1, <2>2, <2>3 DEF Start, RetireLoad, CreateLoad, DeleteLoad
  <1>6. CASE Fail(h) \/ Finish(h) \/ Retire(h) \/ CreateRule(h) \/ DeleteRule(h) \/ Refused(h)
    BY <1>3, <1>6 DEF Fail, Finish, Retire, CreateRule, DeleteRule, SaveRow, Refused, database, history
  <1>7. CASE Score(h)
    <2>1. PICK place \in {"look", "finish"} : Become(h, [Idle EXCEPT !.at = place])
      BY <1>7 DEF Score
    <2>2. UNCHANGED <<alerts, now, raised>>
      BY <1>7 DEF Score, database, history
    <2>3. [Idle EXCEPT !.at = place].alert = 0 /\ [Idle EXCEPT !.at = place].at # "settle"
      BY DEF Idle
    <2> QED BY <1>1, <2>1, <2>2, <2>3
  <1>8. CASE Store(h)
    BY <1>2, <1>8 DEF Store, database, history
  \* The steps that go on with the record they have.
  <1>9. ASSUME NEW w, Become(h, w), w.alert = work[h].alert, w.at # "settle",
               work[h].at \in {"match", "sight", "rules", "report"},
               UNCHANGED <<alerts, now, raised>>
        PROVE  DeskInv'
    BY <1>1, <1>4, <1>9
  <1>10. CASE Match(h) \/ Sight(h) \/ Evaluate(h)
    <2>0. /\ work[h].at \in {"match", "sight", "rules"}
          /\ UNCHANGED <<alerts, now, raised>>
      BY <1>10 DEF Match, Sight, Evaluate, At, database
    <2>1. ASSUME NEW v, NEW n, Become(h, [work[h] EXCEPT !.left = @ \ {v}, !.read[v] = n]) PROVE DeskInv'
      <3>1. PICK w : w = [work[h] EXCEPT !.left = @ \ {v}, !.read[v] = n]
        OBVIOUS
      <3>2. w.alert = work[h].alert /\ w.at = work[h].at
        BY <1>0, <3>1 DEF Works
      <3> QED BY <1>9, <2>0, <2>1, <3>1, <3>2
    <2>2. ASSUME NEW v, Become(h, [work[h] EXCEPT !.left = @ \ {v}]) PROVE DeskInv'
      <3>1. PICK w : w = [work[h] EXCEPT !.left = @ \ {v}]
        OBVIOUS
      <3>2. w.alert = work[h].alert /\ w.at = work[h].at
        BY <1>0, <3>1 DEF Works
      <3> QED BY <1>9, <2>0, <2>2, <3>1, <3>2
    <2>3. ASSUME NEW left, Become(h, [work[h] EXCEPT !.at = "sight", !.left = left]) PROVE DeskInv'
      <3>1. PICK w : w = [work[h] EXCEPT !.at = "sight", !.left = left]
        OBVIOUS
      <3>2. w.alert = work[h].alert /\ w.at = "sight"
        BY <1>0, <3>1 DEF Works
      <3> QED BY <1>9, <2>0, <2>3, <3>1, <3>2
    <2>4. ASSUME NEW v, NEW n,
                 Become(h, [work[h] EXCEPT !.at = "look", !.cause = v, !.left = @ \ {v}, !.read[v] = n])
          PROVE  DeskInv'
      <3>1. PICK w : w = [work[h] EXCEPT !.at = "look", !.cause = v, !.left = @ \ {v}, !.read[v] = n]
        OBVIOUS
      <3>2. w.alert = work[h].alert /\ w.at = "look"
        BY <1>0, <3>1 DEF Works
      <3> QED BY <1>9, <2>0, <2>4, <3>1, <3>2
    <2>5. ASSUME NEW left, NEW read,
                 Become(h, [work[h] EXCEPT !.at = "rules", !.left = left, !.read = read])
          PROVE  DeskInv'
      <3>1. PICK w : w = [work[h] EXCEPT !.at = "rules", !.left = left, !.read = read]
        OBVIOUS
      <3>2. w.alert = work[h].alert /\ w.at = "rules"
        BY <1>0, <3>1 DEF Works
      <3> QED BY <1>9, <2>0, <2>5, <3>1, <3>2
    <2>6. ASSUME Become(h, [work[h] EXCEPT !.at = "score"]) PROVE DeskInv'
      <3>1. PICK w : w = [work[h] EXCEPT !.at = "score"]
        OBVIOUS
      <3>2. w.alert = work[h].alert /\ w.at = "score"
        BY <1>0, <3>1 DEF Works
      <3> QED BY <1>9, <2>0, <2>6, <3>1, <3>2
    <2> QED BY ZenonT(60), <1>10, <2>1, <2>2, <2>3, <2>4, <2>5, <2>6 DEF Match, Sight, Evaluate
  <1>11. CASE Find(h)
    BY ZenonT(60), <1>0, <1>1, <1>3, <1>4, <1>11 DEF Find, At, database, Works
  <1> QED BY <1>5, <1>6, <1>7, <1>8, <1>10, <1>11

LEMMA LookDesk ==
  ASSUME IInv, DeskInv, NEW h \in Handlers, Look(h)
  PROVE  DeskInv'
  <1>0. /\ work[h] \in Works /\ work[h].at = "look" /\ work[h].alert = 0 /\ alerts \in Seq(Alert)
        /\ UNCHANGED <<alerts, now, raised>>
    BY Before DEF Look, At, DeskInv, Looked, database, history
  <1>1. ASSUME NEW i \in Desk!Latest(work[h].cause),
               Become(h, [work[h] EXCEPT !.at = "settle", !.alert = i, !.occurrences = alerts[i].occurrences])
        PROVE  DeskInv'
    <2>1. PICK w : w = [work[h] EXCEPT !.at = "settle", !.alert = i, !.occurrences = alerts[i].occurrences]
      OBVIOUS
    <2>2. /\ w.at = "settle" /\ w.alert = i /\ w.occurrences = alerts[i].occurrences
          /\ w.cause = work[h].cause
      BY <1>0, <2>1 DEF Works
    <2>3. i \in DOMAIN alerts /\ alerts[i].cause = work[h].cause /\ i # 0
      BY <1>0 DEF Desk!Latest, Desk!Current
    <2>4. Looked(w)
      BY <2>2, <2>3 DEF Looked
    <2> QED BY <1>0, <1>1, <2>1, <2>4, DeskStays
  <1>2. ASSUME Become(h, [work[h] EXCEPT !.at = "settle"]), Desk!Current(work[h].cause) = {}
        PROVE  DeskInv'
    <2>1. PICK w : w = [work[h] EXCEPT !.at = "settle"]
      OBVIOUS
    <2>2. w.at = "settle" /\ w.alert = 0 /\ w.cause = work[h].cause
      BY <1>0, <2>1 DEF Works
    <2>3. Looked(w)
      BY <1>2, <2>2 DEF Looked
    <2> QED BY <1>0, <1>2, <2>1, <2>3, DeskStays
  <1> QED BY <1>1, <1>2 DEF Look

\* A step that changes alerts: nobody else holds the lock, and no alert
\* disappears or changes its cause.
LEMMA AlertsChange ==
  ASSUME IInv, DeskInv, NEW h \in Handlers, NEW w, Become(h, w), w.alert = 0, w.at # "settle",
         alerts' \in Seq(Alert), Len(alerts') >= Len(alerts),
         \A i \in DOMAIN alerts : alerts'[i].cause = alerts[i].cause,
         \A g \in Handlers \ {h} : ~(At(g, "settle") /\ Flushes(g))
  PROVE  \A g \in Handlers : Looked(work[g])'
  <1>1. work'[h] = w /\ \A g \in Handlers : g # h => work'[g] = work[g]
    BY DEF IInv, Types, Become
  <1>2. alerts \in Seq(Alert) /\ DOMAIN alerts \subseteq DOMAIN alerts'
    BY DEF IInv, Types
  <1>3. Looked(work[h])'
    BY <1>1 DEF Looked
  <1>4. ASSUME NEW g \in Handlers, g # h PROVE Looked(work[g])'
    <2>1. Looked(work[g]) /\ ~(work[g].at = "settle" /\ work[g].cause # Anomaly) /\ work'[g] = work[g]
      BY <1>1, <1>4 DEF DeskInv, At, Flushes
    <2> QED BY <1>2, <2>1 DEF Looked
  <1> QED BY <1>3, <1>4

\* What the commit of a raise does to the alerts.
LEMMA SettleAlerts ==
  ASSUME IInv, DeskInv, NEW h \in Handlers, Settle(h)
  PROVE  /\ alerts \in Seq(Alert) /\ alerts' \in Seq(Alert)
         /\ work[h].cause \in Causes /\ raised' = [raised EXCEPT ![work[h].cause] = @ + 1]
         /\ now \in Nat /\ now' = now
         /\ work[h].alert = 0 => /\ alerts' = Append(alerts, Desk!NewAlert(work[h].cause))
                                 /\ Desk!NewAlert(work[h].cause) \in Alert
         /\ work[h].alert # 0 =>
              LET i == work[h].alert IN
              /\ i \in DOMAIN alerts /\ alerts[i].cause = work[h].cause
              /\ alerts' = [alerts EXCEPT ![i] = [alerts[i] EXCEPT !.occurrences = work[h].occurrences + 1,
                                                                   !.seen = now]]
  <1>0. /\ work[h] \in Works /\ work[h].at = "settle" /\ alerts \in Seq(Alert) /\ now \in Nat
        /\ Looked(work[h]) /\ WorkOK(work[h], rows, Len(alerts))
    BY SettleFacts DEF IInv, Types, DeskInv
  <1>1. work[h].cause \in Causes /\ raised' = [raised EXCEPT ![work[h].cause] = @ + 1] /\ now' = now
    BY <1>0 DEF Settle, Works
  <1>2. ASSUME work[h].alert = 0
        PROVE  /\ alerts' = Append(alerts, Desk!NewAlert(work[h].cause))
               /\ Desk!NewAlert(work[h].cause) \in Alert
    BY <1>0, <1>1, <1>2 DEF Settle, Desk!NewAlert, Desk!States, Alert
  <1>3. ASSUME work[h].alert # 0
        PROVE  LET i == work[h].alert IN
               /\ i \in DOMAIN alerts /\ alerts[i].cause = work[h].cause
               /\ alerts' = [alerts EXCEPT ![i] = [alerts[i] EXCEPT !.occurrences = work[h].occurrences + 1,
                                                                    !.seen = now]]
    <2>1. work[h].alert \in 1..Len(alerts)
      BY <1>0, <1>3 DEF WorkOK, Works
    <2>2. Settled(work[h]) =
            [alerts EXCEPT ![work[h].alert] =
               [alerts[work[h].alert] EXCEPT !.occurrences = work[h].occurrences + 1, !.seen = now]]
      BY <1>0, <2>1, CountAgain
    <2>3. alerts' = Settled(work[h])
      BY <1>3 DEF Settle
    <2>4. work[h].alert \in DOMAIN alerts /\ alerts[work[h].alert].cause = work[h].cause
      BY <1>0, <1>3 DEF Looked
    <2> QED BY <2>2, <2>3, <2>4
  <1>4. alerts' \in Seq(Alert)
    <2>1. CASE work[h].alert = 0
      BY <1>0, <1>2, <2>1
    <2>2. CASE work[h].alert # 0
      <3>1. [alerts[work[h].alert] EXCEPT !.occurrences = work[h].occurrences + 1, !.seen = now] \in Alert
        <4>1. alerts[work[h].alert] \in Alert /\ work[h].occurrences + 1 \in Nat \ {0}
          BY <1>0, <1>3, <2>2 DEF Works
        <4> QED BY <1>0, <4>1 DEF Alert
      <3> QED BY <1>0, <1>3, <2>2, <3>1
    <2> QED BY <2>1, <2>2
  <1> QED BY <1>0, <1>1, <1>2, <1>3, <1>4

LEMMA SettleDesk ==
  ASSUME IInv, DeskInv, NEW h \in Handlers, Settle(h)
  PROVE  DeskInv'
  <1> DEFINE c == work[h].cause
             i == IF work[h].alert = 0 THEN Len(alerts) + 1 ELSE work[h].alert
             n == IF work[h].alert = 0 THEN 0 ELSE alerts[work[h].alert].occurrences
  <1>0. /\ work[h] \in Works /\ Looked(work[h]) /\ raised \in [Causes -> Nat] /\ work[h].at = "settle"
        /\ \A d \in Counted : CountOK(d)
        /\ alerts \in Seq(Alert) /\ alerts' \in Seq(Alert) /\ Len(alerts) \in Nat /\ now \in Nat
        /\ work[h].cause \in Causes /\ raised' = [raised EXCEPT ![work[h].cause] = @ + 1]
    <2>1. raised \in [Causes -> Nat] /\ (\A d \in Counted : CountOK(d)) /\ Looked(work[h])
      BY DEF DeskInv, IInv, Types
    <2>2. work[h] \in Works /\ work[h].at = "settle"
      BY SettleFacts
    <2>3. /\ alerts \in Seq(Alert) /\ alerts' \in Seq(Alert) /\ now \in Nat
          /\ work[h].cause \in Causes /\ raised' = [raised EXCEPT ![work[h].cause] = @ + 1]
      BY SettleAlerts
    <2> QED BY <2>1, <2>2, <2>3
  <1>a. ASSUME work[h].alert = 0
        PROVE  /\ alerts' = Append(alerts, Desk!NewAlert(c))
               /\ Desk!NewAlert(c).cause = c /\ Desk!NewAlert(c).occurrences = 1
    BY <1>a, SettleAlerts DEF Desk!NewAlert
  <1>b. ASSUME work[h].alert # 0
        PROVE  \E a \in Alert : /\ a.cause = c /\ a.occurrences = work[h].occurrences + 1
                                /\ alerts' = [alerts EXCEPT ![work[h].alert] = a]
                                /\ work[h].alert \in DOMAIN alerts /\ alerts[work[h].alert].cause = c
                                /\ alerts[work[h].alert].occurrences \in Nat
    <2>1. PICK a : a = [alerts[work[h].alert] EXCEPT !.occurrences = work[h].occurrences + 1, !.seen = now]
      OBVIOUS
    <2>2. /\ alerts' = [alerts EXCEPT ![work[h].alert] = a]
          /\ work[h].alert \in DOMAIN alerts /\ alerts[work[h].alert].cause = c
      BY <1>b, <2>1, SettleAlerts
    <2>3. alerts[work[h].alert] \in Alert /\ work[h].occurrences + 1 \in Nat \ {0}
      BY <1>0, <2>2 DEF Works
    <2>4. a \in Alert /\ a.cause = c /\ a.occurrences = work[h].occurrences + 1
      BY <1>0, <2>1, <2>2, <2>3 DEF Alert
    <2> QED BY <2>2, <2>3, <2>4 DEF Alert
  <1>1. /\ i \in DOMAIN alerts' /\ alerts'[i].cause = c /\ Len(alerts') >= Len(alerts)
        /\ \A j : j # i => (j \in DOMAIN alerts <=> j \in DOMAIN alerts')
        /\ \A j \in DOMAIN alerts : j # i => alerts'[j] = alerts[j]
        /\ IF i \in DOMAIN alerts THEN alerts[i].cause = c ELSE work[h].alert = 0
    <2>1. CASE work[h].alert = 0
      <3>1. PICK e : alerts' = Append(alerts, e) /\ e.cause = c
        BY <1>a, <2>1
      <3>2. i = Len(alerts) + 1
        BY <2>1
      <3> HIDE DEF i, c
      <3> QED BY <1>0, <2>1, <3>1, <3>2
    <2>2. CASE work[h].alert # 0
      <3>1. i = work[h].alert
        BY <2>2
      <3>2. PICK a \in Alert : /\ a.cause = c /\ alerts' = [alerts EXCEPT ![i] = a]
                              /\ i \in DOMAIN alerts /\ alerts[i].cause = c
        BY <1>b, <2>2, <3>1
      <3> HIDE DEF i, c
      <3> QED BY <1>0, <2>2, <3>1, <3>2
    <2> QED BY <2>1, <2>2
  <1>2. \A g \in Handlers : Looked(work[g])'
    <2>1. PICK w : w = [Idle EXCEPT !.at = After(work[h].cause), !.left = work[h].left]
      OBVIOUS
    <2>2. Become(h, w) /\ w.alert = 0 /\ w.at # "settle"
      BY <2>1 DEF Settle, Idle, After
    <2>3. \A j \in DOMAIN alerts : alerts'[j].cause = alerts[j].cause
      BY <1>0, <1>1
    <2>4. \A g \in Handlers \ {h} : ~(At(g, "settle") /\ Flushes(g))
      BY SettleFacts
    <2> QED BY <1>0, <1>1, <2>2, <2>3, <2>4, AlertsChange
  <1>3. ASSUME NEW d \in Counted PROVE CountOK(d)'
    <2>0. /\ CountOK(d) /\ raised[d] \in Nat /\ d \in Causes
          /\ Occurrences(d) = OccurrencesIn(alerts, d) /\ Occurrences(d)' = OccurrencesIn(alerts', d)
      BY <1>0, Zenon DEF Occurrences, OccurrencesIn, Causes
    <2>1. CASE d # c
      <3>1. OccurrencesIn(alerts', d) = OccurrencesIn(alerts, d)
        <4>1. \A j : j \in DOMAIN alerts /\ alerts[j].cause = d <=> j \in DOMAIN alerts' /\ alerts'[j].cause = d
          BY <1>0, <1>1, <2>1
        <4>2. \A j \in DOMAIN alerts : alerts[j].cause = d => alerts'[j].occurrences = alerts[j].occurrences
          BY <1>0, <1>1, <2>1
        <4> QED BY <1>0, <4>1, <4>2, SameOccurrences
      <3>2. raised'[d] = raised[d]
        BY <1>0, <2>0, <2>1
      <3> QED BY <2>0, <3>1, <3>2 DEF CountOK
    <2>2. CASE d = c
      <3>1. n \in Nat /\ alerts'[i].occurrences = n + 1
            /\ IF i \in DOMAIN alerts THEN alerts[i].cause = c /\ alerts[i].occurrences = n ELSE n = 0
        <4>1. CASE work[h].alert = 0
          BY <1>0, <1>a, <4>1
        <4>2. CASE work[h].alert # 0
          <5>1. work[h].occurrences = alerts[work[h].alert].occurrences
            BY <1>0, <2>2, <4>2 DEF Looked, Causes
          <5> QED BY <1>0, <1>b, <4>2, <5>1
        <4> QED BY <4>1, <4>2
      <3>2. IsFiniteSet(OccurrencesIn(alerts, d))
        BY <2>0 DEF CountOK
      <3> HIDE DEF i, n, c
      <3>3. /\ IsFiniteSet(OccurrencesIn(alerts', d))
            /\ Cardinality(OccurrencesIn(alerts', d)) = Cardinality(OccurrencesIn(alerts, d)) + 1
        BY <1>0, <1>1, <2>2, <3>1, <3>2, OneMore
      <3>4. raised'[d] = raised[d] + 1
        BY <1>0, <2>0, <2>2 DEF c
      <3> QED BY <2>0, <3>3, <3>4 DEF CountOK
    <2> QED BY <2>1, <2>2
  <1> QED BY <1>2, <1>3 DEF DeskInv

\* A triage loaded an alert, and writes its state when nobody holds the lock.
LEMMA TriageAlerts ==
  ASSUME IInv, DeskInv, NEW h \in Handlers, NEW state \in Desk!States, Triage(h, state)
  PROVE  /\ alerts \in Seq(Alert) /\ UNCHANGED <<now, raised>> /\ Done(h) /\ work[h].alert \in DOMAIN alerts
         /\ \A g \in Handlers \ {h} : ~(At(g, "settle") /\ Flushes(g))
         /\ \/ alerts' = alerts
            \/ LET i == work[h].alert IN alerts' = [alerts EXCEPT ![i] = [alerts[i] EXCEPT !.state = state]]
  <1>1. /\ work[h] \in Works /\ work[h].at = "triage" /\ WorkOK(work[h], rows, Len(alerts)) /\ writer # h
        /\ alerts \in Seq(Alert) /\ MayWrite(h) /\ LockOK
    BY Before DEF Triage, At, IInv
  <1>2. work[h].alert \in DOMAIN alerts
    BY <1>1 DEF WorkOK, Works
  <1>3. \A g \in Handlers \ {h} : ~(At(g, "settle") /\ Flushes(g))
    BY <1>1 DEF LockOK, MayWrite
  <1>4. ASSUME alerts' # alerts
        PROVE  alerts' = [alerts EXCEPT ![work[h].alert] = [alerts[work[h].alert] EXCEPT !.state = state]]
    BY <1>1, <1>2, <1>4 DEF Triage
  <1> QED BY <1>1, <1>2, <1>3, <1>4 DEF Triage, history

LEMMA TriageDesk ==
  ASSUME IInv, DeskInv, NEW h \in Handlers, NEW state \in Desk!States, Triage(h, state)
  PROVE  DeskInv'
  <1>0. /\ alerts \in Seq(Alert) /\ UNCHANGED <<now, raised>> /\ Become(h, Idle) /\ work[h].alert \in DOMAIN alerts
        /\ \A g \in Handlers \ {h} : ~(At(g, "settle") /\ Flushes(g))
    BY TriageAlerts DEF Done
  <1>1. CASE alerts' = alerts
    BY <1>0, <1>1, NoneLooked, IdleFacts, DeskStays
  <1>2. CASE alerts' # alerts
    <2>1. PICK a : a = [alerts[work[h].alert] EXCEPT !.state = state]
      OBVIOUS
    <2>2. alerts' = [alerts EXCEPT ![work[h].alert] = a]
      BY <1>2, <2>1, TriageAlerts
    <2>3. /\ a \in Alert /\ a.cause = alerts[work[h].alert].cause
          /\ a.occurrences = alerts[work[h].alert].occurrences
      <3>1. alerts[work[h].alert] \in Alert
        BY <1>0
      <3> QED BY <2>1, <3>1 DEF Alert
    <2>4. /\ alerts' \in Seq(Alert) /\ Len(alerts') = Len(alerts) /\ DOMAIN alerts' = DOMAIN alerts
          /\ Len(alerts) \in Nat
          /\ \A i \in DOMAIN alerts : /\ alerts'[i].cause = alerts[i].cause
                                      /\ alerts'[i].occurrences = alerts[i].occurrences
      BY <1>0, <2>2, <2>3
    <2>5. \A g \in Handlers : Looked(work[g])'
      BY <1>0, <2>4, IdleFacts, AlertsChange
    <2>6. ASSUME NEW c \in Counted PROVE CountOK(c)'
      <3>1. CountOK(c) /\ Occurrences(c) = OccurrencesIn(alerts, c) /\ Occurrences(c)' = OccurrencesIn(alerts', c)
        BY Zenon DEF Occurrences, OccurrencesIn, DeskInv
      <3>2. OccurrencesIn(alerts', c) = OccurrencesIn(alerts, c)
        BY <1>0, <2>4, SameOccurrences
      <3> QED BY <1>0, <3>1, <3>2 DEF CountOK
    <2> QED BY <2>5, <2>6 DEF DeskInv
  <1> QED BY <1>1, <1>2

LEMMA DeskStep == IInv /\ DeskInv /\ [Next]_vars => DeskInv'
  <1> SUFFICES ASSUME IInv, DeskInv, [Next]_vars PROVE DeskInv'
    OBVIOUS
  <1>1. CASE Tick
    <2>1. /\ UNCHANGED <<alerts, work, raised>> /\ writer = Nobody
      BY <1>1 DEF Tick, database, history
    <2>2. \A h \in Handlers : ~(At(h, "settle") /\ Flushes(h))
      BY <2>1 DEF IInv, LockOK
    <2>3. \A h \in Handlers : Looked(work[h])'
      BY <2>1, <2>2 DEF DeskInv, Looked, At, Flushes
    <2>4. \A c \in Counted : CountOK(c)'
      BY <2>1 DEF DeskInv, CountOK, Occurrences
    <2> QED BY <2>3, <2>4 DEF DeskInv
  <1>2. CASE UNCHANGED vars
    BY <1>2 DEF vars, database, history, DeskInv, Looked, CountOK, Occurrences, Desk!Latest, Desk!Current
  <1>3. ASSUME NEW h \in Handlers, Start(h) \/ Step(h) \/ Fail(h) PROVE DeskInv'
    <2>1. ASSUME NEW state \in Verdicts, Triage(h, state) PROVE DeskInv'
      BY <2>1, VerdictsAssumption, TriageDesk
    <2> QED BY <1>3, <2>1, DeskQuiet, LookDesk, SettleDesk DEF Step
  <1> QED BY <1>1, <1>2, <1>3 DEF Next

LEMMA DeskInvariance == Spec => []DeskInv
  BY Invariance, DeskInit, DeskStep, PTL DEF Spec

\* No raise and no occurrence is lost, whatever threads raise and triage at
\* once (services.py:407-414).
THEOREM RaisesCounted == Spec => []EveryRaiseIsCounted
  <1>1. DeskInv => EveryRaiseIsCounted
    BY DEF DeskInv, CountOK, EveryRaiseIsCounted
  <1> QED BY DeskInvariance, <1>1, PTL

-----------------------------------------------------------------------------
(* Every step is a step of the desk, or none.                              *)

LEMMA CountedFacts ==
  /\ DOMAIN CountedAlerts = {i \in DOMAIN alerts : alerts[i].cause # Anomaly}
  /\ \A i \in DOMAIN CountedAlerts : CountedAlerts[i] = alerts[i]
  BY DEF CountedAlerts

LEMMA CountedSame ==
  ASSUME DOMAIN CountedAlerts' = DOMAIN CountedAlerts,
         \A i \in DOMAIN CountedAlerts : alerts'[i] = alerts[i]
  PROVE  CountedAlerts' = CountedAlerts
  BY DEF CountedAlerts

\* For a counted cause the desk sees the same alerts.
LEMMA DeskSees ==
  ASSUME NEW c \in Counted
  PROVE  CountedDesk!Current(c) = Desk!Current(c) /\ CountedDesk!Latest(c) = Desk!Latest(c)
  <1>1. CountedDesk!Current(c) = Desk!Current(c)
    BY CountedFacts DEF CountedDesk!Current, Desk!Current
  <1>2. \A i \in Desk!Current(c) : CountedAlerts[i] = alerts[i]
    BY CountedFacts DEF Desk!Current
  <1> QED BY <1>1, <1>2 DEF CountedDesk!Latest, Desk!Latest

\* To count once more in two assignments is to replace the alert.
LEMMA CountOnce ==
  ASSUME NEW S, NEW f \in [S -> Alert], NEW i \in S, NEW t,
         NEW a, a = [f[i] EXCEPT !.occurrences = f[i].occurrences + 1, !.seen = t]
  PROVE  [f EXCEPT ![i].occurrences = @ + 1, ![i].seen = t] = [f EXCEPT ![i] = a]
  <1>1. PICK b : b = [f[i] EXCEPT !.occurrences = f[i].occurrences + 1]
    OBVIOUS
  <1>2. PICK once : once = [f EXCEPT ![i] = b]
    OBVIOUS
  <1>3. [f EXCEPT ![i].occurrences = @ + 1, ![i].seen = t] = [once EXCEPT ![i].seen = t]
    BY <1>1, <1>2
  <1>4. a = [b EXCEPT !.seen = t]
    BY <1>1
  <1>5. once[i] = b /\ once \in [S -> UNION {Alert, {b}}]
    BY <1>2
  <1>6. [once EXCEPT ![i].seen = t] = [once EXCEPT ![i] = a]
    BY <1>4, <1>5
  <1>7. [once EXCEPT ![i] = a] = [f EXCEPT ![i] = a]
    BY <1>2
  <1> QED BY <1>3, <1>6, <1>7

LEMMA SettleIsRaise ==
  ASSUME IInv, DeskInv, NEW h \in Handlers, Settle(h), work[h].cause # Anomaly
  PROVE  CountedDesk!Raise(work[h].cause)
  <1> DEFINE c == work[h].cause
  <1>0. /\ alerts \in Seq(Alert) /\ Len(alerts) \in Nat /\ c \in Counted /\ now' = now /\ now \in Nat
        /\ Looked(work[h]) /\ work[h].at = "settle"
    <2>1. alerts \in Seq(Alert) /\ now' = now /\ now \in Nat
      BY SettleAlerts
    <2>2. c \in Counted /\ work[h].at = "settle"
      BY SettleFacts
    <2> QED BY <2>1, <2>2 DEF DeskInv
  <1>1. CASE work[h].alert = 0
    <2>0. Desk!NewAlert(c).cause = c
      BY DEF Desk!NewAlert
    <2>1. PICK e : e = Desk!NewAlert(c) /\ e.cause = c
      BY <2>0
    <2>2. alerts' = Append(alerts, e)
      BY <1>1, <2>1, SettleAlerts
    <2>3. PICK id : id = Len(alerts) + 1
      OBVIOUS
    <2>4. /\ id \in DOMAIN alerts' /\ id \notin DOMAIN alerts /\ alerts'[id] = e
          /\ DOMAIN alerts' = DOMAIN alerts \cup {id}
          /\ \A i \in DOMAIN alerts : alerts'[i] = alerts[i]
      BY <1>0, <2>2, <2>3
    <2>5. DOMAIN CountedAlerts' = DOMAIN CountedAlerts \cup {id} /\ id \notin DOMAIN CountedAlerts
      BY <1>0, <2>1, <2>4 DEF CountedAlerts
    <2>6. CountedAlerts' = [i \in DOMAIN CountedAlerts \cup {id} |-> IF i = id THEN e ELSE CountedAlerts[i]]
      BY <2>4, <2>5 DEF CountedAlerts
    <2>7. CountedDesk!NewAlert(c) = e
      BY <2>1 DEF CountedDesk!NewAlert, Desk!NewAlert
    <2>8. CountedDesk!Open(c)
      BY <2>5, <2>6, <2>7 DEF CountedDesk!Open
    <2>9. CountedDesk!Current(c) = {}
      BY <1>0, <1>1, DeskSees DEF Looked
    <2> QED BY <1>0, <2>8, <2>9 DEF CountedDesk!Raise
  <1>2. CASE work[h].alert # 0
    <2>1. PICK i : i = work[h].alert
      OBVIOUS
    <2>2. /\ i \in CountedDesk!Latest(c) /\ work[h].occurrences = alerts[i].occurrences
          /\ i \in DOMAIN alerts /\ alerts[i].cause = c
      BY <1>0, <1>2, <2>1, DeskSees DEF Looked
    <2>3. PICK a : a = [alerts[i] EXCEPT !.occurrences = alerts[i].occurrences + 1, !.seen = now]
      OBVIOUS
    <2>4. alerts' = [alerts EXCEPT ![i] = a]
      BY <1>2, <2>1, <2>2, <2>3, SettleAlerts
    <2>5. i \in DOMAIN CountedAlerts /\ CountedAlerts[i] = alerts[i] /\ alerts[i] \in Alert
      BY <1>0, <2>2 DEF CountedAlerts
    <2>6. a.cause = c
      BY <2>2, <2>3, <2>5 DEF Alert
    <2>7. CountedAlerts' = [CountedAlerts EXCEPT ![i] = a]
      <3>1. DOMAIN CountedAlerts' = DOMAIN CountedAlerts
        BY <1>0, <2>2, <2>4, <2>6 DEF CountedAlerts
      <3> QED BY <1>0, <2>2, <2>4, <3>1 DEF CountedAlerts
    <2>8. [CountedAlerts EXCEPT ![i].occurrences = @ + 1, ![i].seen = now] = [CountedAlerts EXCEPT ![i] = a]
      <3>1. CountedAlerts \in [DOMAIN CountedAlerts -> Alert]
        BY <1>0 DEF CountedAlerts
      <3> QED BY <1>0, <2>3, <2>5, <3>1, CountOnce
    <2>9. CountedAlerts' = [CountedAlerts EXCEPT ![i].occurrences = @ + 1, ![i].seen = now]
      BY <2>7, <2>8
    <2> QED BY <1>0, <2>2, <2>9 DEF CountedDesk!Raise
  <1> QED BY <1>1, <1>2

\* An anomaly's alert is none of the desk's, before and after its raise.
LEMMA AnomalyStutters ==
  ASSUME IInv, DeskInv, NEW h \in Handlers, Settle(h), work[h].cause = Anomaly
  PROVE  UNCHANGED <<CountedAlerts, now>>
  <1>0. alerts \in Seq(Alert) /\ Len(alerts) \in Nat /\ now' = now
    <2>1. alerts \in Seq(Alert) /\ now' = now
      BY SettleAlerts
    <2> QED BY <2>1
  <1>1. CASE work[h].alert = 0
    <2>0. Desk!NewAlert(Anomaly).cause = Anomaly
      BY DEF Desk!NewAlert
    <2>1. PICK e : e = Desk!NewAlert(Anomaly) /\ e.cause = Anomaly
      BY <2>0
    <2>2. alerts' = Append(alerts, e)
      BY <1>1, <2>1, SettleAlerts
    <2>3. /\ DOMAIN alerts' = DOMAIN alerts \cup {Len(alerts) + 1} /\ alerts'[Len(alerts) + 1] = e
          /\ \A i \in DOMAIN alerts : alerts'[i] = alerts[i]
      BY <1>0, <2>2
    <2>4. DOMAIN CountedAlerts' = DOMAIN CountedAlerts
      BY <1>0, <2>1, <2>3 DEF CountedAlerts
    <2> QED BY <1>0, <2>3, <2>4, CountedFacts, CountedSame
  <1>2. CASE work[h].alert # 0
    <2>1. PICK i : i = work[h].alert
      OBVIOUS
    <2>2. PICK a : a = [alerts[i] EXCEPT !.occurrences = work[h].occurrences + 1, !.seen = now]
      OBVIOUS
    <2>3. alerts' = [alerts EXCEPT ![i] = a] /\ i \in DOMAIN alerts /\ alerts[i].cause = Anomaly
      BY <1>2, <2>1, <2>2, SettleAlerts
    <2>4. a.cause = Anomaly
      <3>1. alerts[i] \in Alert
        BY <1>0, <2>3
      <3> QED BY <2>2, <2>3, <3>1 DEF Alert
    <2>5. DOMAIN CountedAlerts' = DOMAIN CountedAlerts
      BY <1>0, <2>3, <2>4 DEF CountedAlerts
    <2>6. \A j \in DOMAIN CountedAlerts : alerts'[j] = alerts[j]
      BY <1>0, <2>3, CountedFacts
    <2> QED BY <1>0, <2>5, <2>6, CountedSame
  <1> QED BY <1>1, <1>2

LEMMA TriageIsTriage ==
  ASSUME IInv, DeskInv, NEW h \in Handlers, NEW state \in Desk!States, Triage(h, state)
  PROVE  \/ UNCHANGED <<CountedAlerts, now>>
         \/ \E i \in DOMAIN CountedAlerts : CountedDesk!Triage(i, state)
  <1>0. alerts \in Seq(Alert) /\ now' = now /\ work[h].alert \in DOMAIN alerts
    BY TriageAlerts
  <1>1. CASE alerts' = alerts
    BY <1>0, <1>1 DEF CountedAlerts
  <1>2. CASE alerts' # alerts
    <2>1. PICK i \in DOMAIN alerts : i = work[h].alert
      BY <1>0
    <2>2. PICK a : a = [alerts[i] EXCEPT !.state = state]
      OBVIOUS
    <2>3. alerts' = [alerts EXCEPT ![i] = a]
      BY <1>2, <2>1, <2>2, TriageAlerts
    <2>4. a.cause = alerts[i].cause
      <3>1. alerts[i] \in Alert
        BY <1>0
      <3> QED BY <2>2, <3>1 DEF Alert
    <2>5. DOMAIN CountedAlerts' = DOMAIN CountedAlerts
      BY <1>0, <2>3, <2>4 DEF CountedAlerts
    <2>6. CASE i \notin DOMAIN CountedAlerts
      <3>1. \A j \in DOMAIN CountedAlerts : alerts'[j] = alerts[j]
        BY <1>0, <2>3, <2>6, CountedFacts
      <3> QED BY <1>0, <2>5, <3>1, CountedSame
    <2>7. CASE i \in DOMAIN CountedAlerts
      <3>1. CountedAlerts[i] = alerts[i]
        BY <2>7, CountedFacts
      <3>2. CountedAlerts' = [CountedAlerts EXCEPT ![i] = a]
        BY <1>0, <2>3, <2>5, <2>7 DEF CountedAlerts
      <3>3. [CountedAlerts EXCEPT ![i].state = state] = [CountedAlerts EXCEPT ![i] = a]
        BY <2>2, <2>7, <3>1
      <3> QED BY <1>0, <2>7, <3>2, <3>3 DEF CountedDesk!Triage
    <2> QED BY <2>6, <2>7
  <1> QED BY <1>1, <1>2

LEMMA InitIsDesk == Init => CountedDesk!Init
  <1> SUFFICES ASSUME Init PROVE CountedDesk!Init
    OBVIOUS
  <1>1. alerts = <<>> /\ now = 0
    BY DEF Init
  <1>2. DOMAIN alerts = {}
    BY <1>1
  <1>3. CountedAlerts = <<>>
    BY <1>1, <1>2 DEF CountedAlerts
  <1> QED BY <1>1, <1>3 DEF CountedDesk!Init

LEMMA StepIsDesk == IInv /\ DeskInv /\ [Next]_vars => [CountedDesk!Next]_<<CountedAlerts, now>>
  <1> SUFFICES ASSUME IInv, DeskInv, [Next]_vars
               PROVE  CountedDesk!Next \/ UNCHANGED <<CountedAlerts, now>>
    OBVIOUS
  <1>1. CASE Tick
    <2>1. now' = now + 1 /\ alerts' = alerts
      BY <1>1 DEF Tick, database
    <2>2. CountedDesk!Tick
      BY <2>1 DEF CountedDesk!Tick, CountedAlerts
    <2> QED BY <2>2 DEF CountedDesk!Next
  <1>2. ASSUME UNCHANGED <<alerts, now>> PROVE UNCHANGED <<CountedAlerts, now>>
    BY <1>2 DEF CountedAlerts
  <1>3. ASSUME NEW h \in Handlers, Start(h) \/ Step(h) \/ Fail(h)
        PROVE  CountedDesk!Next \/ UNCHANGED <<CountedAlerts, now>>
    <2>1. CASE Settle(h)
      <3>1. CASE work[h].cause = Anomaly
        BY <2>1, <3>1, AnomalyStutters
      <3>2. CASE work[h].cause # Anomaly
        <4>1. work[h].cause \in Counted /\ CountedDesk!Raise(work[h].cause)
          BY <2>1, <3>2, SettleFacts, SettleIsRaise
        <4> QED BY <4>1 DEF CountedDesk!Next
      <3> QED BY <3>1, <3>2
    <2>2. ASSUME NEW state \in Verdicts, Triage(h, state)
          PROVE  CountedDesk!Next \/ UNCHANGED <<CountedAlerts, now>>
      <3>1. state \in Desk!States /\ Desk!States = CountedDesk!States
        BY VerdictsAssumption DEF Desk!States, CountedDesk!States
      <3> QED BY <2>2, <3>1, TriageIsTriage DEF CountedDesk!Next
    <2>3. ASSUME Start(h) \/ Fail(h) PROVE UNCHANGED <<alerts, now>>
      BY <2>3 DEF Start, Ingest, Report, RetireLoad, CreateLoad, DeleteLoad, LoadRow, TriageLoad, Fail, database
    <2>4. ASSUME \/ Match(h) \/ Sight(h) \/ Evaluate(h) \/ Score(h) \/ Look(h) \/ Finish(h)
                 \/ Find(h) \/ Store(h) \/ Retire(h) \/ CreateRule(h) \/ DeleteRule(h) \/ Refused(h)
          PROVE  UNCHANGED <<alerts, now>>
      BY ZenonT(60), <2>4
         DEF Match, Sight, Evaluate, Score, Look, Finish, Find, Store, Retire, CreateRule, DeleteRule, SaveRow,
             Refused, database
    <2> QED BY <1>2, <1>3, <2>1, <2>2, <2>3, <2>4 DEF Step
  <1>4. CASE UNCHANGED vars
    BY <1>2, <1>4 DEF vars, database
  <1> QED BY <1>1, <1>3, <1>4 DEF Next

\* "One cause, one alert": whatever threads do in between, the alerts of
\* indicators and rules are those of a desk where a raise is a single step
\* (services.py:393-433).
THEOREM DeskImplemented == Spec => ImplementsDesk
  BY Invariance, DeskInvariance, InitIsDesk, StepIsDesk, PTL DEF Spec, ImplementsDesk, CountedDesk!Spec

-----------------------------------------------------------------------------
(* Requests that do not overlap.                                           *)

OneHandler == \E h : Handlers = {h}
NoOverlap == overlap = {}

\* Whatever fails between two commits, hit_count is the number of sightings
\* if requests do not overlap (services.py:54, 321, 348).
THEOREM SerialHits ==
  ASSUME OneHandler
  PROVE  Spec => [](\A c \in Counted : hits[c] = Sightings(c))
  <1> PICK h : Handlers = {h}
    BY DEF OneHandler
  <1>1. Init => NoOverlap
    BY DEF Init, NoOverlap
  <1>2. ASSUME NoOverlap, [Next]_vars PROVE NoOverlap'
    <2>1. Handlers \ {h} = {}
      OBVIOUS
    <2>2. ASSUME NEW c, Loads(h, c) PROVE overlap' = {}
      BY <1>2, <2>1, <2>2 DEF Loads, NoOverlap
    <2>3. CASE Match(h) \/ Evaluate(h) \/ Find(h)
      BY <1>2, <2>2, <2>3 DEF Match, Evaluate, Find, NoOverlap
    <2>4. CASE Sight(h)
      BY <1>2, <2>1, <2>2, <2>4 DEF Sight, NoOverlap
    <2>5. CASE UNCHANGED overlap
      BY <1>2, <2>5 DEF NoOverlap
    <2>6. \/ Match(h) \/ Evaluate(h) \/ Find(h) \/ Sight(h)
          \/ UNCHANGED overlap
      <3>1. ASSUME Start(h) \/ Fail(h) PROVE UNCHANGED overlap
        BY <3>1 DEF Start, Ingest, Report, RetireLoad, CreateLoad, DeleteLoad, LoadRow, TriageLoad, Fail, history
      <3>2. ASSUME Step(h) PROVE Match(h) \/ Evaluate(h) \/ Find(h) \/ Sight(h) \/ UNCHANGED overlap
        BY <3>2 DEF Step, Score, Look, Settle, Finish, Store, Retire, CreateRule, DeleteRule, Triage, SaveRow, Refused, history
      <3>3. ASSUME Tick \/ UNCHANGED vars PROVE UNCHANGED overlap
        BY <3>3 DEF Tick, vars, history
      <3> QED BY <1>2, <3>1, <3>2, <3>3 DEF Next
    <2> QED BY <2>3, <2>4, <2>5, <2>6 DEF NoOverlap
  <1>3. IInv /\ NoOverlap => \A c \in Counted : hits[c] = Sightings(c)
    BY DEF IInv, ReadsOK, NoOverlap
  <1> QED BY <1>1, <1>2, <1>3, Invariance, PTL DEF Spec
=============================================================================
