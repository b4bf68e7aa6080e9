----------------------------- MODULE GeoReaders -----------------------------
(***************************************************************************)
(* The lazily opened GeoIP database (app/geoip.py): double-checked locking *)
(* around a set of attempts and a dictionary of readers.  One database: the *)
(* two the code opens share the lock and nothing else.                     *)
(***************************************************************************)
EXTENDS Integers

CONSTANTS
  Lookups,  \* the threads that look addresses up
  Nobody    \* the lock is free

ASSUME LookupsAssumption == Nobody \notin Lookups

VARIABLES
  file,       \* external: "present", "missing" or "broken"
  reader,     \* the path is in _readers
  attempted,  \* the path is in _load_attempted
  holder,     \* of _lock
  opened,     \* history: how often the file was opened
  lookup      \* each thread: [pc, found, during]; during: the file was being opened when it began

geoVars == <<file, reader, attempted, holder, opened, lookup>>

GeoTypeOK ==
  /\ file \in {"present", "missing", "broken"}
  /\ reader \in BOOLEAN /\ attempted \in BOOLEAN
  /\ holder \in Lookups \cup {Nobody}
  /\ opened \in 0..1
  /\ lookup \in [Lookups -> [pc : {"idle", "wait", "open", "publish", "get", "done", "failed"},
                             found : BOOLEAN, during : BOOLEAN]]

GeoInit ==
  /\ file \in {"present", "missing", "broken"}
  /\ reader = FALSE /\ attempted = FALSE /\ holder = Nobody /\ opened = 0
  /\ lookup = [t \in Lookups |-> [pc |-> "idle", found |-> FALSE, during |-> FALSE]]

-----------------------------------------------------------------------------
At(t, place) == lookup' = [lookup EXCEPT ![t].pc = place]

\* _open, before the lock.
Begin(t) ==
  /\ lookup[t].pc \in {"idle", "done", "failed"}
  /\ lookup' = [lookup EXCEPT ![t] = [pc |-> IF reader \/ attempted THEN "get" ELSE "wait",
                                      found |-> FALSE, during |-> holder # Nobody]]
  /\ UNCHANGED <<file, reader, attempted, holder, opened>>

\* Mutant of Lock: the attempts are not looked at again.
LockUnchecked(t) ==
  /\ lookup[t].pc = "wait" /\ holder = Nobody
  /\ holder' = t /\ attempted' = TRUE /\ At(t, "open")
  /\ UNCHANGED <<file, reader, opened>>

\* The lock is taken; who finds the path attempted releases it at once.
Lock(t) ==
  /\ lookup[t].pc = "wait" /\ holder = Nobody
  /\ IF attempted
     THEN At(t, "get") /\ UNCHANGED <<holder, attempted>>
     ELSE holder' = t /\ attempted' = TRUE /\ At(t, "open")
  /\ UNCHANGED <<file, reader, opened>>

\* Mutant of Open: an error leaves the lock taken.
OpenLeaks(t) ==
  /\ lookup[t].pc = "open"
  /\ \/ file = "present" /\ opened' = opened + 1 /\ At(t, "publish") /\ UNCHANGED holder
     \/ file = "missing" /\ holder' = Nobody /\ At(t, "get") /\ UNCHANGED opened
     \/ file = "broken" /\ At(t, "failed") /\ UNCHANGED <<opened, holder>>
  /\ UNCHANGED <<file, reader, attempted>>

\* open_database raises on a file it cannot read; the lock is released.
Open(t) ==
  /\ lookup[t].pc = "open"
  /\ \/ file = "present" /\ opened' = opened + 1 /\ At(t, "publish") /\ UNCHANGED holder
     \/ file = "missing" /\ holder' = Nobody /\ At(t, "get") /\ UNCHANGED opened
     \/ file = "broken" /\ holder' = Nobody /\ At(t, "failed") /\ UNCHANGED opened
  /\ UNCHANGED <<file, reader, attempted>>

Publish(t) ==
  /\ lookup[t].pc = "publish"
  /\ reader' = TRUE /\ holder' = Nobody /\ At(t, "get")
  /\ UNCHANGED <<file, attempted, opened>>

Get(t) ==
  /\ lookup[t].pc = "get"
  /\ lookup' = [lookup EXCEPT ![t].found = reader, ![t].pc = "done"]
  /\ UNCHANGED <<file, reader, attempted, holder, opened>>

GeoStep(t) == Begin(t) \/ Lock(t) \/ Open(t) \/ Publish(t) \/ Get(t)
GeoNext == \E t \in Lookups : GeoStep(t)

\* A thread that can go on does.  The lock is held across steps only once,
\* so weak fairness is enough for those that wait for it.
GeoFairness == \A t \in Lookups : WF_geoVars(Lock(t) \/ Open(t) \/ Publish(t) \/ Get(t))

GeoSpec == GeoInit /\ [][GeoNext]_geoVars /\ GeoFairness

-----------------------------------------------------------------------------
\* "If the database file is missing, every lookup returns {}"
\* (app/geoip.py:6), and if it is there a lookup returns {} only when it
\* began while the file was being opened; it is opened once.
EmptyOnlyWithoutFile ==
  /\ opened <= 1
  /\ \A t \in Lookups :
       lookup[t].pc = "done" =>
         (lookup[t].found \/ file # "present" \/ lookup[t].during)

\* Whatever the file, every lookup ends: no error keeps the lock.
LookupsEnd == \A t \in Lookups : lookup[t].pc = "wait" ~> lookup[t].pc \in {"done", "failed"}
=============================================================================
