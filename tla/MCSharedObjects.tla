-------------------------- MODULE MCSharedObjects --------------------------
(***************************************************************************)
(* The objects the threads of one process share: the rate limiter, the     *)
(* anomaly model and the GeoIP reader.  They never touch one another, so a *)
(* behaviour is about one of them, its focus, and the others rest.         *)
(***************************************************************************)
EXTENDS RateLimiter, AnomalyModel, GeoReaders

CONSTANTS t1, t2, t3

VARIABLE focus

vars == <<focus, limiterVars, anomalyVars, geoVars>>

LimiterAtRest == LimiterInit /\ \A t \in Threads : calls[t].identity = CHOOSE i \in Identities : TRUE
AnomalyAtRest == AnomalyInit /\ stored = 0
GeoAtRest == GeoInit /\ file = "missing"

SharedInit ==
  \/ focus = "limiter" /\ LimiterInit /\ AnomalyAtRest /\ GeoAtRest
  \/ focus = "anomaly" /\ AnomalyInit /\ LimiterAtRest /\ GeoAtRest
  \/ focus = "geo" /\ GeoInit /\ LimiterAtRest /\ AnomalyAtRest

SharedNext ==
  \/ focus = "limiter" /\ LimiterNext /\ UNCHANGED <<focus, anomalyVars, geoVars>>
  \/ focus = "anomaly" /\ AnomalyNext /\ UNCHANGED <<focus, limiterVars, geoVars>>
  \/ focus = "geo" /\ GeoNext /\ UNCHANGED <<focus, limiterVars, anomalyVars>>

SharedSpec == SharedInit /\ [][SharedNext]_vars /\ GeoFairness
=============================================================================
