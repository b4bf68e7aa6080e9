---------------------------- MODULE AnomalyModel ----------------------------
(***************************************************************************)
(* The anomaly model one process shares between its threads                *)
(* (app/detect/anomaly.py, services._score_anomaly): refitted by whichever *)
(* ingest finds it due, read by all, without a lock.                       *)
(*                                                                         *)
(* The model is three attributes that fit assigns one after the other.  A  *)
(* fit depends on the events it has seen only, so an attribute is the      *)
(* number of rows of the fit that set it, or None (0).  Every read of an   *)
(* attribute that may see another thread's write is a step of its own.     *)
(***************************************************************************)
EXTENDS Integers

CONSTANTS
  Ingests,     \* the threads that ingest events
  MinRows,     \* rows below which nothing is fitted (5)
  ForestRows,  \* rows from which a forest is fitted (40); unreachable without scikit-learn
  RefitEvery,  \* events between two fits (25)
  MaxEvents    \* bound on the events stored

ASSUME AnomalyAssumption ==
  MinRows \in Nat \ {0} /\ MaxEvents \in Nat /\ ForestRows \in 0..MaxEvents

None == 0

VARIABLES
  stored,    \* events in the database
  fittedAt,  \* _anomaly_fitted_at
  forest,    \* _model
  mean,      \* _mean
  std,       \* _std
  ingest,    \* each thread: [pc, rows, then, disturbed]
  overlap    \* history: fits have overlapped: never, of one kind only, of both kinds

anomalyVars == <<stored, fittedAt, forest, mean, std, ingest, overlap>>

ForestFit == {"setForest", "dropMean", "dropStd"}
BaselineFit == {"clearForest", "setMean", "readMean", "setStd"}
Fitting == ForestFit \cup BaselineFit
Scoring == {"gate", "gate2", "score", "useForest", "scoreMean", "check", "use", "explain"}
Resting == {"idle", "failed"}

AnomalyTypeOK ==
  /\ stored \in 0..MaxEvents /\ fittedAt \in 0..MaxEvents
  /\ forest \in 0..MaxEvents /\ mean \in 0..MaxEvents /\ std \in 0..MaxEvents
  /\ ingest \in [Ingests -> [pc : Fitting \cup Scoring \cup Resting
                                    \cup {"count", "due", "due2", "fit", "stamp"},
                             rows : 0..MaxEvents, then : {"explain", "idle"},
                             disturbed : BOOLEAN]]
  /\ overlap \in {"never", "same", "kinds"}

\* A process starts untrained, on a database that may hold events.
AnomalyInit ==
  /\ stored \in 0..ForestRows
  /\ fittedAt = 0 /\ forest = None /\ mean = None /\ std = None
  /\ ingest = [t \in Ingests |-> [pc |-> "idle", rows |-> 0, then |-> "idle", disturbed |-> FALSE]]
  /\ overlap = "never"

-----------------------------------------------------------------------------
Others(t) == Ingests \ {t}
Busy(t, places) == \E u \in Others(t) : ingest[u].pc \in places

Go(t, place) == ingest' = [ingest EXCEPT ![t].pc = place]
Model == <<forest, mean, std>>
Quiet == UNCHANGED <<stored, fittedAt, Model, overlap>>

\* A thread enters the assignments of fit: scorings under way may see them.
StartFit(t, place, kin) ==
  /\ ingest' = [u \in Ingests |->
                  IF u = t THEN [ingest[u] EXCEPT !.pc = place]
                  ELSE [ingest[u] EXCEPT !.disturbed = @ \/ ingest[u].pc \in Scoring]]
  /\ overlap' = IF Busy(t, Fitting \ kin) THEN "kinds"
                ELSE IF Busy(t, kin) /\ overlap = "never" THEN "same" ELSE overlap
  /\ UNCHANGED <<stored, fittedAt, Model>>

\* ingest_event has committed its event; the last one's result is forgotten.
Store(t) ==
  /\ ingest[t].pc \in Resting /\ stored < MaxEvents
  /\ stored' = stored + 1
  /\ ingest' = [ingest EXCEPT ![t] = [pc |-> "count", rows |-> 0, then |-> "explain",
                                      disturbed |-> FALSE]]
  /\ UNCHANGED <<fittedAt, Model, overlap>>

Count(t) ==
  /\ ingest[t].pc = "count"
  /\ ingest' = [ingest EXCEPT ![t].rows = stored, ![t].pc = "due"]
  /\ Quiet

\* is_trained reads _model, then _mean.
Due(t) ==
  /\ Quiet
  /\ \/ /\ ingest[t].pc = "due"
        /\ Go(t, IF ingest[t].rows - fittedAt >= RefitEvery THEN "fit"
                 ELSE IF forest # None THEN "gate" ELSE "due2")
     \/ /\ ingest[t].pc = "due2"
        /\ Go(t, IF mean # None THEN "gate" ELSE "fit")

\* fit, up to its first assignment.  Too few rows are not fitted, yet count
\* as the last fit.
Fit(t) ==
  /\ ingest[t].pc = "fit"
  /\ IF ingest[t].rows < MinRows THEN Go(t, "stamp") /\ Quiet
     ELSE IF ingest[t].rows >= ForestRows THEN StartFit(t, "setForest", ForestFit)
     ELSE StartFit(t, "clearForest", BaselineFit)

AssignForest(t) ==
  /\ UNCHANGED <<stored, fittedAt, overlap>>
  /\ \/ /\ ingest[t].pc = "setForest" /\ forest' = ingest[t].rows
        /\ Go(t, "dropMean") /\ UNCHANGED <<mean, std>>
     \/ ingest[t].pc = "dropMean" /\ mean' = None /\ Go(t, "dropStd") /\ UNCHANGED <<forest, std>>
     \/ ingest[t].pc = "dropStd" /\ std' = None /\ Go(t, "stamp") /\ UNCHANGED <<forest, mean>>

\* Mutant of AssignBaseline: the deviations are left as they were.
AssignBaselineHalf(t) ==
  /\ UNCHANGED <<stored, fittedAt, std, overlap>>
  /\ \/ ingest[t].pc = "clearForest" /\ forest' = None /\ Go(t, "setMean") /\ UNCHANGED mean
     \/ ingest[t].pc = "setMean" /\ mean' = ingest[t].rows /\ Go(t, "stamp") /\ UNCHANGED forest

\* The deviations are computed around _mean as it is read again, which is
\* another fit's, or None, only if the fits overlap.
AssignBaseline(t) ==
  /\ UNCHANGED <<stored, fittedAt, overlap>>
  /\ \/ ingest[t].pc = "clearForest" /\ forest' = None /\ Go(t, "setMean") /\ UNCHANGED <<mean, std>>
     \/ /\ ingest[t].pc = "setMean" /\ mean' = ingest[t].rows
        /\ Go(t, "readMean") /\ UNCHANGED <<forest, std>>
     \/ /\ ingest[t].pc = "readMean"
        /\ Go(t, IF mean # None THEN "setStd" ELSE "failed") /\ UNCHANGED Model
     \/ /\ ingest[t].pc = "setStd" /\ std' = ingest[t].rows
        /\ Go(t, "stamp") /\ UNCHANGED <<forest, mean>>

Stamp(t) ==
  /\ ingest[t].pc = "stamp"
  /\ fittedAt' = ingest[t].rows
  /\ Go(t, "gate")
  /\ UNCHANGED <<stored, Model, overlap>>

\* The last is_trained of _score_anomaly; an untrained model scores 0.
Gate(t) ==
  /\ Quiet
  /\ \/ /\ ingest[t].pc = "gate"
        /\ ingest' = [ingest EXCEPT ![t].pc = IF forest # None THEN "score" ELSE "gate2",
                                    ![t].disturbed = Busy(t, Fitting)]
     \/ ingest[t].pc = "gate2" /\ Go(t, IF mean # None THEN "score" ELSE "idle")

\* score: what is tested is read again to be used.
Score(t) ==
  /\ Quiet
  /\ \/ ingest[t].pc = "score" /\ Go(t, IF forest # None THEN "useForest" ELSE "scoreMean")
     \/ ingest[t].pc = "useForest" /\ Go(t, IF forest # None THEN "explain" ELSE "failed")
     \/ ingest[t].pc = "scoreMean" /\ Go(t, IF mean # None THEN "check" ELSE "explain")

\* _z, for score and then for explain.
Deviations(t) ==
  /\ Quiet
  /\ \/ ingest[t].pc = "check" /\ Go(t, IF mean # None /\ std # None THEN "use" ELSE "failed")
     \/ ingest[t].pc = "use" /\ Go(t, IF mean # None /\ std # None THEN ingest[t].then ELSE "failed")

Explain(t) ==
  /\ ingest[t].pc = "explain"
  /\ ingest' = [ingest EXCEPT ![t].pc = IF mean # None THEN "check" ELSE "idle", ![t].then = "idle"]
  /\ Quiet

AnomalyStep(t) ==
  \/ Store(t) \/ Count(t) \/ Due(t) \/ Fit(t) \/ AssignForest(t) \/ AssignBaseline(t) \/ Stamp(t)
  \/ Gate(t) \/ Score(t) \/ Deviations(t) \/ Explain(t)

AnomalyNext == \E t \in Ingests : AnomalyStep(t)

AnomalySpec == AnomalyInit /\ [][AnomalyNext]_anomalyVars

-----------------------------------------------------------------------------
NoFit == \A t \in Ingests : ingest[t].pc \notin Fitting

\* "guarded by callers" (app/detect/anomaly.py:132): scoring raises no error
\* unless another thread fitted the model at the same time, or fits of the
\* two kinds have overlapped before.
QuietScoringSucceeds ==
  \A t \in Ingests : ingest[t].pc = "failed" => ingest[t].disturbed \/ overlap = "kinds"

\* Between fits the model is usable, a forest or a mean and deviations, and
\* stays trained, unless fits of the two kinds have overlapped; and the mean
\* and the deviations are those of one fit, unless any two have.
WholeBetweenFits ==
  NoFit =>
    /\ overlap # "kinds" =>
         /\ forest # None \/ (mean = None <=> std = None)
         /\ fittedAt >= MinRows => forest # None \/ mean # None
    /\ overlap = "never" => forest # None \/ mean = std
=============================================================================
