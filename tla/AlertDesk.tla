----------------------------- MODULE AlertDesk -----------------------------
(***************************************************************************)
(* What raising an alert promises (app/services.py, _raise_alert): "One    *)
(* cause, one alert. Repeats increment a counter."  A raise is one step:   *)
(* it counts on the open alert of its cause seen last inside the window,   *)
(* or opens a new one when there is none; an analyst may put an alert in   *)
(* any state at any time.                                                  *)
(***************************************************************************)
EXTENDS Naturals

CONSTANTS
  Causes,  \* what alerts are raised for
  Window   \* how long an alert counts as current

States == {"open", "triaged", "resolved", "false_positive"}

VARIABLES
  alerts,  \* the alerts by id: [cause, state, seen, occurrences]
  now      \* the time

\* The alerts a raise of c may be counted on.
Current(c) == {i \in DOMAIN alerts : /\ alerts[i].cause = c /\ alerts[i].state = "open"
                                     /\ alerts[i].seen + Window >= now}

\* Of those, the ones seen last.
Latest(c) == {i \in Current(c) : \A j \in Current(c) : alerts[j].seen <= alerts[i].seen}

NewAlert(c) == [cause |-> c, state |-> "open", seen |-> now, occurrences |-> 1]

Init == alerts = <<>> /\ now = 0

\* A new alert has an id that none had before.
Open(c) ==
  \E id \in DOMAIN alerts' :
    /\ id \notin DOMAIN alerts
    /\ alerts' = [i \in DOMAIN alerts \cup {id} |-> IF i = id THEN NewAlert(c) ELSE alerts[i]]

Raise(c) ==
  /\ \/ \E i \in Latest(c) : alerts' = [alerts EXCEPT ![i].occurrences = @ + 1, ![i].seen = now]
     \/ Current(c) = {} /\ Open(c)
  /\ UNCHANGED now

Triage(i, state) == alerts' = [alerts EXCEPT ![i].state = state] /\ UNCHANGED now

Tick == now' = now + 1 /\ UNCHANGED alerts

Next ==
  \/ \E c \in Causes : Raise(c)
  \/ \E i \in DOMAIN alerts, state \in States : Triage(i, state)
  \/ Tick

Spec == Init /\ [][Next]_<<alerts, now>>
=============================================================================
