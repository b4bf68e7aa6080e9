--------------------------- MODULE DetectionProofs ---------------------------
(***************************************************************************)
(* Proofs about finding indicators in a text, for any number of types and  *)
(* any text, about an indicator's confidence, for any number of reports,   *)
(* and about the rule parser, for any rule, any facts and any stack.       *)
(***************************************************************************)
EXTENDS RuleEngine, Extraction, Scoring, TLAPS

-----------------------------------------------------------------------------
(* Extraction.                                                             *)

\* What is claimed is of a type that has been tried, and what a report claims
\* is no noise.
ClaimsOK ==
  /\ \A reading \in Readings : \A m \in claimed[reading] : m.type <= tried
  /\ \A m \in claimed["report"] : m.valid

ExtractInv == TextTypeOK /\ ClaimsOK /\ BestTypeFirst /\ ReportsAreRecognised

LEMMA OverlapIsMutual ==
  ASSUME NEW m \in Matches, NEW n \in Matches
  PROVE  Overlap(m, n) <=> Overlap(n, m)
  BY DEF Overlap

\* What trying the next type adds to a reading.
LEMMA ClaimFacts ==
  ASSUME ExtractInv, TryType, NEW reading \in Readings
  PROVE  /\ claimed'[reading] \subseteq text /\ claimed[reading] \subseteq claimed'[reading]
         /\ \A m \in text :
              /\ m.type <= tried => (m \in claimed'[reading] <=> m \in claimed[reading])
              /\ m.type = tried + 1 =>
                   (m \in claimed'[reading] <=>
                      /\ KeepsNoise(reading) \/ m.valid
                      /\ \A c \in claimed[reading] : ~Overlap(c, m))
              /\ m.type > tried + 1 => m \notin claimed'[reading]
         /\ \A m \in claimed[reading] : m.type <= tried
  <1>1. /\ claimed[reading] \subseteq text /\ \A m \in claimed[reading] : m.type <= tried
        /\ text \subseteq Matches /\ tried \in Nat
    BY ExtractionAssumption DEF ExtractInv, TextTypeOK, ClaimsOK
  <1>2. claimed'[reading] =
          claimed[reading] \cup {m \in text : /\ m.type = tried + 1
                                              /\ \A c \in claimed[reading] : ~Overlap(c, m)
                                              /\ KeepsNoise(reading) \/ m.valid}
    BY DEF TryType, Claim
  <1>3. \A m \in text : m.type \in Nat
    BY <1>1 DEF Matches
  <1> QED BY <1>1, <1>2, <1>3

LEMMA TryTyped ==
  ASSUME ExtractInv, TryType
  PROVE  TextTypeOK' /\ ClaimsOK'
  <1>1. text' = text /\ tried' = tried + 1 /\ tried \in 0..NTypes /\ tried < NTypes /\ NTypes \in Nat
    BY ExtractionAssumption DEF TryType, ExtractInv, TextTypeOK
  <1>2. claimed' \in [Readings -> SUBSET text]
    <2>1. \A reading \in Readings : claimed'[reading] \subseteq text
      BY ClaimFacts
    <2>2. claimed' = [reading \in Readings |-> claimed'[reading]]
      BY DEF TryType
    <2> QED BY <2>1, <2>2
  <1>3. TextTypeOK'
    BY <1>1, <1>2 DEF ExtractInv, TextTypeOK
  <1>4. ASSUME NEW reading \in Readings, NEW m \in claimed'[reading] PROVE m.type <= tried'
    <2>1. m \in text /\ m.type \in Nat
      BY ClaimFacts DEF ExtractInv, TextTypeOK, Matches
    <2> QED BY <1>1, <1>4, <2>1, ClaimFacts
  <1>5. ASSUME NEW m \in claimed'["report"] PROVE m.valid
    <2>1. "report" \in Readings /\ ~KeepsNoise("report")
      BY DEF Readings, KeepsNoise
    <2>2. m \in text /\ m.type \in Nat
      BY <2>1, ClaimFacts DEF ExtractInv, TextTypeOK, Matches
    <2>3. CASE m \in claimed["report"]
      BY <2>3 DEF ExtractInv, ClaimsOK
    <2>4. CASE m \notin claimed["report"]
      BY <1>1, <1>5, <2>1, <2>2, <2>4, ClaimFacts
    <2> QED BY <2>3, <2>4
  <1> QED BY <1>1, <1>3, <1>4, <1>5 DEF ClaimsOK

LEMMA TryBestFirst ==
  ASSUME ExtractInv, TryType
  PROVE  BestTypeFirst'
  <1>0. /\ text' = text /\ tried' = tried + 1 /\ tried \in Nat /\ text \subseteq Matches
        /\ IsText(text) /\ \A m \in text : m.type \in Nat
    BY ExtractionAssumption DEF TryType, ExtractInv, TextTypeOK, Matches
  <1> SUFFICES
        ASSUME NEW reading \in Readings
        PROVE  /\ \A m, n \in claimed'[reading] : m # n => ~Overlap(m, n)
               /\ \A m \in text :
                    m.type <= tried + 1 =>
                      (m \notin claimed'[reading] <=>
                         \/ ~(KeepsNoise(reading) \/ m.valid)
                         \/ \E n \in claimed'[reading] : n.type < m.type /\ Overlap(m, n))
    BY <1>0 DEF BestTypeFirst
  <1>1. /\ \A m, n \in claimed[reading] : m # n => ~Overlap(m, n)
        /\ \A m \in text :
             m.type <= tried =>
               (m \notin claimed[reading] <=>
                  \/ ~(KeepsNoise(reading) \/ m.valid)
                  \/ \E n \in claimed[reading] : n.type < m.type /\ Overlap(m, n))
    BY DEF ExtractInv, BestTypeFirst
  <1>2. /\ claimed'[reading] \subseteq text /\ claimed[reading] \subseteq claimed'[reading]
        /\ \A m \in text :
              /\ m.type <= tried => (m \in claimed'[reading] <=> m \in claimed[reading])
              /\ m.type = tried + 1 =>
                   (m \in claimed'[reading] <=>
                      /\ KeepsNoise(reading) \/ m.valid
                      /\ \A c \in claimed[reading] : ~Overlap(c, m))
              /\ m.type > tried + 1 => m \notin claimed'[reading]
        /\ \A m \in claimed[reading] : m.type <= tried
    BY ClaimFacts
  <1>3. \A m, n \in text : Overlap(m, n) <=> Overlap(n, m)
    BY <1>0, OverlapIsMutual
  <1>4. ASSUME NEW m \in claimed'[reading], NEW n \in claimed'[reading], m # n
        PROVE  ~Overlap(m, n)
    <2>0. m \in text /\ n \in text /\ m.type <= tried + 1 /\ n.type <= tried + 1
      BY <1>0, <1>2, <1>4
    <2>1. CASE m.type <= tried /\ n.type <= tried
      BY <1>1, <1>2, <1>4, <2>0, <2>1
    <2>2. CASE m.type = tried + 1 /\ n.type = tried + 1
      BY <1>0, <1>4, <2>0, <2>2 DEF IsText
    <2>3. CASE m.type <= tried /\ n.type = tried + 1
      BY <1>2, <1>4, <2>0, <2>3
    <2>4. CASE m.type = tried + 1 /\ n.type <= tried
      BY <1>2, <1>3, <1>4, <2>0, <2>4
    <2> QED BY <1>0, <2>0, <2>1, <2>2, <2>3, <2>4
  <1>5. ASSUME NEW m \in text, m.type <= tried + 1
        PROVE  m \notin claimed'[reading] <=>
                 \/ ~(KeepsNoise(reading) \/ m.valid)
                 \/ \E n \in claimed'[reading] : n.type < m.type /\ Overlap(m, n)
    <2>1. \A n \in claimed'[reading] : n.type < m.type => n \in claimed[reading]
      BY <1>0, <1>2, <1>5
    <2>2. CASE m.type <= tried
      BY <1>1, <1>2, <2>1, <2>2
    <2>3. CASE m.type = tried + 1
      <3>1. (\E n \in claimed'[reading] : n.type < m.type /\ Overlap(m, n))
              <=> \E n \in claimed[reading] : Overlap(n, m)
        BY <1>0, <1>2, <1>3, <2>1, <2>3
      <3> QED BY <1>2, <2>3, <3>1
    <2> QED BY <1>0, <1>5, <2>2, <2>3
  <1> QED BY <1>4, <1>5

LEMMA TryRecognised ==
  ASSUME ExtractInv, TryType
  PROVE  ReportsAreRecognised'
  <1>0. /\ text' = text /\ tried' = tried + 1 /\ tried \in Nat /\ text \subseteq Matches
        /\ \A m \in text : m.type \in Nat
        /\ "report" \in Readings /\ "event" \in Readings
        /\ ~KeepsNoise("report") /\ KeepsNoise("event")
    BY ExtractionAssumption
    DEF TryType, ExtractInv, TextTypeOK, Matches, Readings, KeepsNoise
  <1>1. Clusters' = Clusters
    BY <1>0 DEF Clusters
  <1> SUFFICES ASSUME NEW S \in Clusters, NEW m \in S, m.valid,
                      m \in claimed'["report"] <=> m \notin claimed'["event"]
               PROVE  \E n \in S \cap claimed'["event"] : ~n.valid /\ n.type < m.type
    BY <1>1 DEF ReportsAreRecognised, Stored, LookedUp
  <1>2. /\ S \subseteq text /\ m \in text
        /\ \A c \in text : Overlap(m, c) => c \in S
    BY DEF Clusters
  <1>3. /\ claimed["event"] \subseteq claimed'["event"]
        /\ claimed["event"] \subseteq text /\ claimed["report"] \subseteq text
    BY <1>0, ClaimFacts DEF ExtractInv, TextTypeOK
  \* Where the readings differ already, the noise is there.
  <1>4. ASSUME NEW c \in S, c.valid, c \in claimed["report"] <=> c \notin claimed["event"]
        PROVE  \E n \in S \cap claimed["event"] : ~n.valid /\ n.type < c.type
    BY <1>4 DEF ExtractInv, ReportsAreRecognised, Stored, LookedUp
  <1>5. CASE m.type <= tried
    <2>1. m \in claimed["report"] <=> m \notin claimed["event"]
      BY <1>0, <1>2, <1>5, ClaimFacts
    <2> QED BY <1>3, <1>4, <2>1
  <1>6. CASE m.type = tried + 1
    <2>1. PICK c \in text : /\ Overlap(c, m) /\ c.type <= tried
                            /\ c \in claimed["report"] <=> c \notin claimed["event"]
      <3>1. \A reading \in Readings :
              /\ m \in claimed'[reading] <=> \A c \in claimed[reading] : ~Overlap(c, m)
              /\ \A c \in claimed[reading] : c.type <= tried
        BY <1>2, <1>6, ClaimFacts
      <3> QED BY <1>0, <1>3, <3>1
    <2>2. c \in S /\ c.type < m.type
      BY <1>0, <1>2, <1>6, <2>1, OverlapIsMutual
    <2>3. CASE c.valid
      <3>1. PICK n \in S \cap claimed["event"] : ~n.valid /\ n.type < c.type
        BY <1>4, <2>1, <2>2, <2>3
      <3>2. n.type < m.type
        BY <1>0, <1>2, <2>1, <2>2, <3>1
      <3> QED BY <1>3, <3>1, <3>2
    <2>4. CASE ~c.valid
      <3>1. c \in claimed["event"]
        BY <2>1, <2>4 DEF ExtractInv, ClaimsOK
      <3> QED BY <1>3, <2>2, <2>4, <3>1
    <2> QED BY <2>3, <2>4
  <1>7. CASE m.type > tried + 1
    <2>1. m \notin claimed'["report"] /\ m \notin claimed'["event"]
      BY <1>0, <1>2, <1>7, ClaimFacts
    <2> QED BY <2>1
  <1> QED BY <1>0, <1>2, <1>5, <1>6, <1>7

\* Nothing is claimed while the text is still being made up.
NothingYet == tried = 0 => claimed = [reading \in Readings |-> {}]

LEMMA TextStep == ExtractInv /\ NothingYet /\ [TextNext]_textVars => (ExtractInv /\ NothingYet)'
  <1> SUFFICES ASSUME ExtractInv, NothingYet, [TextNext]_textVars
               PROVE  (ExtractInv /\ NothingYet)'
    OBVIOUS
  <1>1. ASSUME NEW m \in Matches \ text, FindMatch(m) PROVE (ExtractInv /\ NothingYet)'
    <2>1. /\ tried = 0 /\ tried' = 0 /\ text' = text \cup {m} /\ IsText(text')
          /\ \A reading \in Readings : claimed[reading] = {} /\ claimed'[reading] = {}
          /\ claimed' = [reading \in Readings |-> {}]
      BY <1>1 DEF FindMatch, NothingYet
    <2>2. TextTypeOK' /\ ClaimsOK'
      BY <2>1, ExtractionAssumption DEF ExtractInv, TextTypeOK, ClaimsOK, Readings
    <2>3. \A n \in text' : ~(n.type <= tried')
      BY <2>1 DEF ExtractInv, TextTypeOK, Matches
    <2>4. BestTypeFirst'
      BY <2>1, <2>3 DEF BestTypeFirst
    <2>5. ReportsAreRecognised'
      BY <2>1 DEF ReportsAreRecognised, Stored, LookedUp, Readings
    <2> QED BY <2>1, <2>2, <2>4, <2>5 DEF ExtractInv, NothingYet
  <1>2. CASE TryType
    <2>1. tried' # 0
      BY <1>2 DEF TryType, ExtractInv, TextTypeOK
    <2> QED BY <1>2, <2>1, TryTyped, TryBestFirst, TryRecognised DEF ExtractInv, NothingYet
  <1>3. CASE UNCHANGED textVars
    BY <1>3 DEF textVars, ExtractInv, NothingYet, TextTypeOK, ClaimsOK, BestTypeFirst,
                ReportsAreRecognised, Stored, LookedUp, Clusters
  <1> QED BY <1>1, <1>2, <1>3 DEF TextNext

LEMMA TextInitInv == TextInit => ExtractInv /\ NothingYet
  BY ExtractionAssumption
  DEF TextInit, ExtractInv, NothingYet, TextTypeOK, IsText, ClaimsOK, BestTypeFirst,
      ReportsAreRecognised, Stored, LookedUp, Clusters, Readings

LEMMA TextInvariance == TextSpec => []ExtractInv
  BY TextInitInv, TextStep, PTL DEF TextSpec

\* Of any text, extract keeps disjoint parts, best type first (parser.py:139-158).
THEOREM BestFirst == TextSpec => []BestTypeFirst
  BY TextInvariance, PTL DEF ExtractInv

\* Where no noise is in the way, an event gives the indicators that a report of
\* the same text gave (services.py:232-258).
THEOREM ReportsRecognised == TextSpec => []ReportsAreRecognised
  BY TextInvariance, PTL DEF ExtractInv

-----------------------------------------------------------------------------
(* Scoring.                                                                *)

LEMMA LargerIs ==
  ASSUME NEW a \in Int, NEW b \in Int
  PROVE  Larger(a, b) = IF a > b THEN a ELSE b
  BY DEF Larger, Max

LEMMA WithinIs ==
  ASSUME NEW x \in Int, NEW low \in Int, NEW high \in Int, low <= high
  PROVE  Within(x, low, high) = IF x > high THEN high ELSE IF x < low THEN low ELSE x
  <1>1. Min({x, high}) = IF x > high THEN high ELSE x
    BY DEF Min
  <1>2. ASSUME NEW y \in Int PROVE Max({low, y}) = IF y < low THEN low ELSE y
    BY DEF Max
  <1> QED BY <1>1, <1>2 DEF Within

\* A source can vouch for something between 64 and 94.
LEMMA CeilingIs ==
  ASSUME NEW source \in Sources
  PROVE  Ceiling(source) \in 64..94
  BY DEF Ceiling, Sources, SourceTrust

\* A report never lowers the confidence, and never takes it past the ceiling
\* of its source.
LEMMA ReinforceBounds ==
  ASSUME NEW current \in 0..100, NEW source \in Sources
  PROVE  /\ Reinforce(current, source) \in 0..100
         /\ current <= Reinforce(current, source)
         /\ Reinforce(current, source) <= current \/ Reinforce(current, source) <= Ceiling(source)
  <1> DEFINE c == Ceiling(source)
             gain == Larger(0, c - current)
             n == 100 * current + 28 * gain
             r == Rounded(n, 100)
  <1>1. c \in 64..94
    BY CeilingIs
  <1> HIDE DEF c
  <1>2. gain = IF c > current THEN c - current ELSE 0
    BY <1>1, LargerIs
  <1> HIDE DEF gain
  <1>3. n \in Int /\ 100 * current <= n /\ n < 100 * (IF c > current THEN c ELSE current + 1)
    BY <1>1, <1>2
  <1>4. c <= current => n = 100 * current
    BY <1>1, <1>2
  <1> HIDE DEF n
  <1>5. r \in Int /\ current <= r
    BY <1>3 DEF Rounded
  <1>6. c > current => r <= c
    BY <1>1, <1>3 DEF Rounded
  <1>7. c <= current => r <= current
    BY <1>1, <1>4 DEF Rounded
  <1>8. Reinforce(current, source) = Within(r, 0, 100)
    BY DEF Reinforce, n, gain, c
  <1> HIDE DEF r
  <1>9. Within(r, 0, 100) = r
    BY <1>1, <1>5, <1>6, <1>7, WithinIs
  <1> QED BY <1>1, <1>5, <1>6, <1>7, <1>8, <1>9 DEF c

LEMMA PercentIs ==
  ASSUME NEW x \in Int
  PROVE  Within(x, 0, 100) \in 0..100
  <1>1. Within(x, 0, 100) = IF x > 100 THEN 100 ELSE IF x < 0 THEN 0 ELSE x
    BY WithinIs
  <1> QED BY <1>1

Doubts == [n : Nat, d : Nat \ {0}]

Scores == [given : Givens, confidence : 0..100, hits : Int, faded : Nat \ {0}, doubt : Doubts,
           severity : Severities, source : Sources, host : Hosts, heard : SUBSET Sources]

ScoreInv == score \in Scores /\ ConfidenceIsEarned

LEMMA DoubtTyped ==
  ASSUME NEW doubt \in Doubts
  PROVE  LessDoubt(doubt) \in Doubts
  BY DEF LessDoubt, Doubts

LEMMA ScoreInit == Init => ScoreInv
  <1> SUFFICES ASSUME NEW given \in Givens, NEW severity \in Severities, NEW source \in Sources,
                      NEW host \in Hosts,
                      score = [given |-> given, confidence |-> Within(given, 0, 100), hits |-> 0,
                               faded |-> 1, doubt |-> Uncorroborated, severity |-> severity,
                               source |-> source, host |-> host, heard |-> {}]
               PROVE  ScoreInv
    BY DEF Init
  <1>1. Within(given, 0, 100) \in 0..100 /\ Uncorroborated \in Doubts
    BY GivensAssumption, PercentIs DEF Uncorroborated, Doubts
  <1>2. ConfidenceIsEarned
    BY <1>1 DEF ConfidenceIsEarned
  <1> QED BY <1>1, <1>2 DEF ScoreInv, Scores

\* What a step changes: the number of hits, what silence and corroboration make
\* of them, the sources heard and the confidence.
Becomes(s, hits, faded, doubt, heard, new) ==
  [s EXCEPT !.hits = hits, !.faded = faded, !.doubt = doubt, !.heard = heard, !.confidence = new]

LEMMA BecomesTyped ==
  ASSUME NEW s \in Scores, NEW hits \in Int, NEW faded \in Nat \ {0}, NEW doubt \in Doubts,
         NEW heard \in SUBSET Sources, NEW new \in 0..100
  PROVE  Becomes(s, hits, faded, doubt, heard, new) \in Scores
  BY ZenonT(60) DEF Scores, Becomes

\* Every step as a change of those columns.
LEMMA StepBecomes ==
  ASSUME ScoreInv, [Next]_score
  PROVE  \/ score' = score
         \/ \E hits \in Int, heard \in SUBSET Sources, new \in 0..100 :
              /\ score' = Becomes(score, hits, 1, LessDoubt(score.doubt), heard, new)
              /\ hits = score.hits + 1 /\ score.heard \subseteq heard
              /\ score.confidence <= new
              /\ new <= score.confidence \/ \E s \in heard : new <= Ceiling(s)
         \/ score' = Becomes(score, score.hits, 2 * score.faded, score.doubt, score.heard,
                             score.confidence)
  <1>0. /\ score \in Scores /\ score.confidence \in 0..100 /\ score.heard \subseteq Sources
        /\ score.hits \in Int /\ score.faded \in Nat \ {0} /\ score.doubt \in Doubts
    BY DEF ScoreInv, Scores
  <1>1. ASSUME NEW source \in Sources, Report(source)
        PROVE  \E hits \in Int, heard \in SUBSET Sources, new \in 0..100 :
                 /\ score' = Becomes(score, hits, 1, LessDoubt(score.doubt), heard, new)
                 /\ hits = score.hits + 1 /\ score.heard \subseteq heard
                 /\ score.confidence <= new
                 /\ new <= score.confidence \/ \E s \in heard : new <= Ceiling(s)
    <2> DEFINE hits == score.hits + 1
               heard == score.heard \cup {source}
               new == Reinforce(score.confidence, source)
    <2>1. score' = Becomes(score, hits, 1, LessDoubt(score.doubt), heard, new)
      BY <1>0, <1>1 DEF Report, Seen, Becomes, Scores
    <2>2. /\ new \in 0..100 /\ score.confidence <= new
          /\ new <= score.confidence \/ new <= Ceiling(source)
      BY <1>0, ReinforceBounds
    <2>3. hits \in Int /\ heard \in SUBSET Sources /\ score.heard \subseteq heard /\ source \in heard
      BY <1>0
    <2> HIDE DEF hits, heard, new
    <2> QED BY <2>1, <2>2, <2>3 DEF hits
  <1>2. ASSUME Sighting
        PROVE  \E hits \in Int, heard \in SUBSET Sources, new \in 0..100 :
                 /\ score' = Becomes(score, hits, 1, LessDoubt(score.doubt), heard, new)
                 /\ hits = score.hits + 1 /\ score.heard \subseteq heard
                 /\ score.confidence <= new
                 /\ new <= score.confidence \/ \E s \in heard : new <= Ceiling(s)
    <2>1. score' = Becomes(score, score.hits + 1, 1, LessDoubt(score.doubt), score.heard,
                           score.confidence)
      BY <1>0, <1>2 DEF Sighting, Seen, Becomes, Scores
    <2> DEFINE hits == score.hits + 1
               heard == score.heard
               new == score.confidence
    <2>2. /\ hits \in Int /\ heard \in SUBSET Sources /\ new \in 0..100
          /\ score' = Becomes(score, hits, 1, LessDoubt(score.doubt), heard, new)
          /\ hits = score.hits + 1 /\ score.heard \subseteq heard
          /\ score.confidence <= new /\ new <= score.confidence
      BY <1>0, <2>1
    <2> HIDE DEF hits, heard, new
    <2> QED BY <2>2
  <1>3. ASSUME Silence
        PROVE  score' = Becomes(score, score.hits, 2 * score.faded, score.doubt, score.heard,
                                score.confidence)
    BY <1>0, <1>3 DEF Silence, Becomes, Scores
  <1> QED BY <1>1, <1>2, <1>3 DEF Next

LEMMA ScoreStep == ScoreInv /\ [Next]_score => ScoreInv'
  <1> SUFFICES ASSUME ScoreInv, [Next]_score PROVE ScoreInv'
    OBVIOUS
  <1>0. /\ score \in Scores /\ score.confidence \in 0..100 /\ score.heard \subseteq Sources
        /\ score.hits \in Int /\ score.faded \in Nat \ {0} /\ score.doubt \in Doubts
        /\ score.given \in Int
    BY GivensAssumption DEF ScoreInv, Scores
  <1>1. /\ Within(score.given, 0, 100) \in Int /\ LessDoubt(score.doubt) \in Doubts
        /\ \A s \in Sources : Ceiling(s) \in Int
    BY <1>0, PercentIs, CeilingIs, DoubtTyped
  <1>2. CASE score' = score
    BY <1>2 DEF ScoreInv, ConfidenceIsEarned
  <1>3. ASSUME NEW hits \in Int, NEW heard \in SUBSET Sources, NEW new \in 0..100,
               score' = Becomes(score, hits, 1, LessDoubt(score.doubt), heard, new),
               score.heard \subseteq heard,
               new <= score.confidence \/ \E s \in heard : new <= Ceiling(s)
        PROVE  ScoreInv'
    <2> DEFINE doubt == LessDoubt(score.doubt)
    <2>0. doubt \in Doubts /\ 1 \in Nat \ {0} /\ score' = Becomes(score, hits, 1, doubt, heard, new)
      BY <1>1, <1>3
    <2> HIDE DEF doubt
    <2>1. score' \in Scores
      BY <1>0, <2>0, BecomesTyped
    <2>3. score'.confidence = new /\ score'.heard = heard /\ score'.given = score.given
      BY <1>0, <2>0 DEF Scores, Becomes
    <2>2. ConfidenceIsEarned'
      BY <1>0, <1>1, <1>3, <2>3 DEF ScoreInv, ConfidenceIsEarned
    <2> QED BY <2>1, <2>2 DEF ScoreInv
  <1>4. CASE score' = Becomes(score, score.hits, 2 * score.faded, score.doubt, score.heard,
                              score.confidence)
    <2> DEFINE hits == score.hits
               faded == 2 * score.faded
               doubt == score.doubt
               heard == score.heard
               new == score.confidence
    <2>0. /\ hits \in Int /\ faded \in Nat \ {0} /\ doubt \in Doubts /\ heard \in SUBSET Sources
          /\ new \in 0..100 /\ score' = Becomes(score, hits, faded, doubt, heard, new)
      BY <1>0, <1>4
    <2>3. score'.confidence = new /\ score'.heard = heard /\ score'.given = score.given
      BY <1>0, <2>0 DEF Scores, Becomes
    <2>4. ASSUME ConfidenceIsEarned, new = score.confidence, heard = score.heard
          PROVE  ConfidenceIsEarned'
      BY <2>3, <2>4 DEF ConfidenceIsEarned
    <2> HIDE DEF hits, faded, doubt, heard, new
    <2>1. score' \in Scores
      BY <1>0, <2>0, BecomesTyped
    <2>2. ConfidenceIsEarned'
      BY <2>4 DEF ScoreInv, hits, faded, doubt, heard, new
    <2> QED BY <2>1, <2>2 DEF ScoreInv
  <1> QED BY <1>2, <1>3, <1>4, StepBecomes

LEMMA ScoreInvariance == ScoreSpec => []ScoreInv
  BY ScoreInit, ScoreStep, PTL DEF ScoreSpec

\* However many reports come, confidence never passes both what was first given
\* and the ceiling of the best source heard (scoring.py:43-51).
THEOREM ConfidenceEarned == ScoreSpec => []ConfidenceIsEarned
  BY ScoreInvariance, PTL DEF ScoreInv

-----------------------------------------------------------------------------
(* What an analyst is shown is monotone in what was heard.                 *)

LEMMA DivisionIs ==
  ASSUME NEW m \in Nat, NEW d \in Nat \ {0}
  PROVE  /\ m \div d \in Nat
         /\ m % d = m - d * (m \div d)
         /\ d * (m \div d) <= m /\ m < d * (m \div d) + d
  <1>1. m \div d \in Int /\ m % d \in 0..(d - 1)
    OBVIOUS
  <1>2. m = (m \div d) * d + (m % d)
    OBVIOUS
  <1>3. d * (m \div d) \in Int
    BY <1>1
  <1>4. d * (m \div d) <= m /\ m < d * (m \div d) + d
    BY <1>1, <1>2, <1>3
  <1>5. m \div d \in Nat
    <2>1. ASSUME m \div d < 0 PROVE FALSE
      <3>1. d * (m \div d) <= d * (-1)
        BY <1>1, <2>1
      <3> QED BY <1>3, <1>4, <3>1
    <2> QED BY <1>1, <2>1
  <1> QED BY <1>1, <1>2, <1>3, <1>4, <1>5

\* A larger quotient is a larger multiple.
LEMMA MultiplesGrow ==
  ASSUME NEW d \in Nat \ {0}, NEW a \in Int, NEW b \in Int, d * a < d * b
  PROVE  a < b
  OBVIOUS

\* Silence: rounding half of a number gives no more than rounding the number.
LEMMA RoundedHalf ==
  ASSUME NEW m \in Nat, NEW d \in Nat \ {0}
  PROVE  Rounded(m, 2 * d) <= Rounded(m, d)
  <1> DEFINE q == m \div d
             h == m \div (2 * d)
  <1>1. /\ q \in Nat /\ d * q <= m /\ m < d * q + d /\ m % d = m - d * q
    BY DivisionIs
  <1>2. 2 * d \in Nat \ {0}
    OBVIOUS
  <1>3. /\ h \in Nat /\ 2 * d * h <= m /\ m < 2 * d * h + 2 * d
        /\ m % (2 * d) = m - 2 * d * h
    BY <1>2, DivisionIs
  <1>4. Rounded(m, d) \in {q, q + 1} /\ Rounded(m, 2 * d) \in {h, h + 1}
    BY DEF Rounded
  <1>5. 2 * h <= q
    <2>1. d * (2 * h) < d * (q + 1)
      BY <1>1, <1>3
    <2>2. 2 * h < q + 1
      BY <1>1, <1>3, <2>1, MultiplesGrow
    <2> QED BY <1>1, <1>3, <2>2
  <1>6. CASE q = 0
    <2>1. h = 0 /\ m < d
      BY <1>1, <1>3, <1>5, <1>6
    <2>2. m % (2 * d) = m
      BY <1>3, <2>1
    <2>3. Rounded(m, 2 * d) = 0
      BY <2>1, <2>2 DEF Rounded
    <2> QED BY <1>1, <1>4, <1>6, <2>3
  <1>7. CASE q # 0
    <2> HIDE DEF q, h
    <2> QED BY <1>1, <1>3, <1>4, <1>5, <1>7
  <1> QED BY <1>6, <1>7

LEMMA RoundedAtMost ==
  ASSUME NEW m \in Nat, NEW d \in Nat \ {0}
  PROVE  Rounded(m, d) \in 0..m /\ Rounded(m, 1) = m
  <1> DEFINE q == m \div d
  <1>1. /\ q \in Nat /\ d * q <= m /\ m < d * q + d /\ m % d = m - d * q
    BY DivisionIs
  <1>2. Rounded(m, d) \in {q, q + 1}
    BY DEF Rounded
  <1>3. q <= d * q
    BY <1>1
  <1>4. CASE d * q = m
    <2>1. m % d = 0
      BY <1>1, <1>4
    <2>2. Rounded(m, d) = q
      BY <2>1 DEF Rounded
    <2> QED BY <1>1, <1>3, <1>4, <2>2 DEF Rounded
  <1>5. CASE d * q < m
    <2>1. q + 1 <= m
      BY <1>1, <1>3, <1>5
    <2> QED BY <1>1, <1>2, <2>1 DEF Rounded
  <1> QED BY <1>1, <1>4, <1>5

\* Corroboration: hits only add to it.
LEMMA CorroborationGrows ==
  ASSUME NEW doubt \in Doubts
  PROVE  /\ Corroboration(doubt) \in Int
         /\ Corroboration(doubt) <= Corroboration(LessDoubt(doubt))
         /\ Corroboration(LessDoubt(doubt)) \in Int
  <1> DEFINE m == 10000 * doubt.n
             d == doubt.d
             q == m \div d
             p == (3 * m) \div (4 * d)
  <1>1. m \in Nat /\ d \in Nat \ {0} /\ 3 * m \in Nat /\ 4 * d \in Nat \ {0}
    BY DEF Doubts
  <1>2. Corroboration(doubt) = 10000 - q /\ Corroboration(LessDoubt(doubt)) = 10000 - p
    <2>1. LessDoubt(doubt).n = 3 * doubt.n /\ LessDoubt(doubt).d = 4 * d
      BY DEF LessDoubt
    <2>2. 10000 * (3 * doubt.n) = 3 * m
      BY DEF Doubts
    <2> QED BY <2>1, <2>2 DEF Corroboration
  <1> HIDE DEF m, d
  <1>3. q \in Nat /\ p \in Nat /\ m < d * q + d /\ (4 * d) * p <= 3 * m
    BY <1>1, DivisionIs
  <1>4. (4 * d) * p < (4 * d) * (q + 1)
    BY <1>1, <1>3
  <1>5. p < q + 1
    BY <1>1, <1>3, <1>4, MultiplesGrow
  <1> QED BY <1>2, <1>3, <1>5

LEMMA WeightIs ==
  ASSUME NEW host, NEW sign \in DOMAIN SignWeight
  PROVE  Weight(host, sign) \in Int
  BY DEF Weight, SignWeight

LEMMA ModifierIs ==
  ASSUME NEW host \in Hosts
  PROVE  RiskModifier(host) \in -100..100
  <1> DEFINE words == IF host.type = "url" THEN Min({25, 8 * host.words}) ELSE 0
             sum == Weight(host, "notGlobal") + Weight(host, "generated") + Weight(host, "riskyTld")
                      + Weight(host, "shortener") + Weight(host, "deepChain")
                      + Weight(host, "executable") + Weight(host, "bareAddress")
                      + Weight(host, "plainHttp") + words
  <1>1. words \in Int
    <2>1. 8 * host.words \in Int
      BY HostsAssumption
    <2>2. ASSUME NEW w \in Int PROVE Min({25, w}) \in Int
      BY DEF Min
    <2> QED BY <2>1, <2>2
  <1>2. /\ Weight(host, "notGlobal") \in Int /\ Weight(host, "generated") \in Int
        /\ Weight(host, "riskyTld") \in Int /\ Weight(host, "shortener") \in Int
        /\ Weight(host, "deepChain") \in Int /\ Weight(host, "executable") \in Int
        /\ Weight(host, "bareAddress") \in Int /\ Weight(host, "plainHttp") \in Int
    BY WeightIs DEF SignWeight
  <1>3. RiskModifier(host) = Within(sum, -100, 100)
    BY DEF RiskModifier
  <1> HIDE DEF words
  <1>4. sum \in Int
    BY <1>1, <1>2
  <1> HIDE DEF sum
  <1>5. Within(sum, -100, 100) = IF sum > 100 THEN 100 ELSE IF sum < -100 THEN -100 ELSE sum
    BY <1>4, WithinIs
  <1> QED BY <1>3, <1>4, <1>5

\* Rounding to hundredths and to ten thousandths keeps the order.
LEMMA RoundedGrows ==
  ASSUME NEW x \in Int, NEW y \in Int, x <= y
  PROVE  /\ Rounded(x, 100) \in Int /\ Rounded(y, 100) \in Int
         /\ Rounded(x, 100) <= Rounded(y, 100)
         /\ Rounded(x, 10000) \in Int /\ Rounded(y, 10000) \in Int
         /\ Rounded(x, 10000) <= Rounded(y, 10000)
  <1>1. Rounded(x, 100) \in Int /\ Rounded(y, 100) \in Int /\ Rounded(x, 100) <= Rounded(y, 100)
    BY DEF Rounded
  <1>2. /\ Rounded(x, 10000) \in Int /\ Rounded(y, 10000) \in Int
        /\ Rounded(x, 10000) <= Rounded(y, 10000)
    BY DEF Rounded
  <1> QED BY <1>1, <1>2

\* So does cutting off at the ends of the scale.
LEMMA WithinGrows ==
  ASSUME NEW x \in Int, NEW y \in Int, x <= y, NEW low \in Int, NEW high \in Int, low <= high
  PROVE  Within(x, low, high) <= Within(y, low, high)
  <1>1. Within(x, low, high) = IF x > high THEN high ELSE IF x < low THEN low ELSE x
    BY WithinIs
  <1>2. Within(y, low, high) = IF y > high THEN high ELSE IF y < low THEN low ELSE y
    BY WithinIs
  <1> QED BY <1>1, <1>2

LEMMA ConfidenceScale ==
  ASSUME NEW x \in Int
  PROVE  Within(x, 5, 100) \in 5..100
  <1>1. Within(x, 5, 100) = IF x > 100 THEN 100 ELSE IF x < 5 THEN 5 ELSE x
    BY WithinIs
  <1> QED BY <1>1

LEMMA RiskScale ==
  ASSUME NEW v \in Int, NEW w \in Int, v <= w
  PROVE  /\ Within(v, 0, 1000) \in Nat /\ Within(w, 0, 1000) \in Nat
         /\ Within(v, 0, 1000) <= Within(w, 0, 1000)
  <1>1. Within(v, 0, 1000) = IF v > 1000 THEN 1000 ELSE IF v < 0 THEN 0 ELSE v
    BY WithinIs
  <1>2. Within(w, 0, 1000) = IF w > 1000 THEN 1000 ELSE IF w < 0 THEN 0 ELSE w
    BY WithinIs
  <1> QED BY <1>1, <1>2

\* More confidence and no less corroboration give no less risk.
LEMMA RiskScoreGrows ==
  ASSUME NEW c \in Int, NEW d \in Int, c <= d, NEW severity \in Severities, NEW source \in Sources,
         NEW doubt, NEW doubt2, Corroboration(doubt) \in Int, Corroboration(doubt2) \in Int,
         Corroboration(doubt) <= Corroboration(doubt2)
  PROVE  /\ RiskScore(c, severity, source, doubt) \in Nat
         /\ RiskScore(d, severity, source, doubt2) \in Nat
         /\ RiskScore(c, severity, source, doubt) <= RiskScore(d, severity, source, doubt2)
  <1> DEFINE weights == 300 * SeverityWeight[severity] + 100 * SourceTrust[source]
             a == Corroboration(doubt)
             b == Corroboration(doubt2)
             x == 550 * c + weights + (5 * a) \div 10
             y == 550 * d + weights + (5 * b) \div 10
  <1>1. SeverityWeight[severity] \in Int /\ SourceTrust[source] \in Int
    BY DEF Severities, Sources, SeverityWeight, SourceTrust
  <1>2. /\ RiskScore(c, severity, source, doubt) = Within(Rounded(x, 100), 0, 1000)
        /\ RiskScore(d, severity, source, doubt2) = Within(Rounded(y, 100), 0, 1000)
    BY <1>1 DEF RiskScore
  <1>3. weights \in Int /\ a \in Int /\ b \in Int /\ a <= b
    BY <1>1
  <1> HIDE DEF weights, a, b
  <1>4. x \in Int /\ y \in Int /\ x <= y
    BY <1>3
  <1> HIDE DEF x, y
  <1>5. Rounded(x, 100) \in Int /\ Rounded(y, 100) \in Int /\ Rounded(x, 100) <= Rounded(y, 100)
    BY <1>4, RoundedGrows
  <1> DEFINE v == Rounded(x, 100)
             w == Rounded(y, 100)
  <1>6. v \in Int /\ w \in Int /\ v <= w
    BY <1>5
  <1>7. /\ RiskScore(c, severity, source, doubt) = Within(v, 0, 1000)
        /\ RiskScore(d, severity, source, doubt2) = Within(w, 0, 1000)
    BY <1>2
  <1> HIDE DEF v, w
  <1>8. /\ Within(v, 0, 1000) \in Nat /\ Within(w, 0, 1000) \in Nat
        /\ Within(v, 0, 1000) <= Within(w, 0, 1000)
    BY <1>6, RiskScale
  <1> QED BY <1>7, <1>8

LEMMA RiskGrows ==
  ASSUME NEW s \in Scores, NEW t \in Scores, Effective(s) \in Int, Effective(t) \in Int,
         Effective(s) <= Effective(t),
         t.severity = s.severity, t.source = s.source, t.host = s.host,
         Corroboration(s.doubt) <= Corroboration(t.doubt)
  PROVE  Risk(s) <= Risk(t)
  <1> DEFINE base == RiskScore(Effective(s), s.severity, s.source, s.doubt)
             base2 == RiskScore(Effective(t), t.severity, t.source, t.doubt)
             factor == 10000 + 35 * RiskModifier(s.host)
  <1>1. /\ s.severity \in Severities /\ s.source \in Sources /\ s.host \in Hosts
        /\ s.doubt \in Doubts /\ t.doubt \in Doubts
    BY DEF Scores
  <1>2. Corroboration(s.doubt) \in Int /\ Corroboration(t.doubt) \in Int
    BY <1>1, CorroborationGrows
  <1>3. base \in Nat /\ base2 \in Nat /\ base <= base2
    <2> DEFINE c == Effective(s)
               d == Effective(t)
               severity == s.severity
               source == s.source
               doubt == s.doubt
               doubt2 == t.doubt
    <2>1. /\ c \in Int /\ d \in Int /\ c <= d /\ severity \in Severities /\ source \in Sources
          /\ Corroboration(doubt) \in Int /\ Corroboration(doubt2) \in Int
          /\ Corroboration(doubt) <= Corroboration(doubt2)
      BY <1>1, <1>2
    <2>2. base = RiskScore(c, severity, source, doubt) /\ base2 = RiskScore(d, severity, source, doubt2)
      OBVIOUS
    <2> HIDE DEF c, d, severity, source, doubt, doubt2, base, base2
    <2> QED BY <2>1, <2>2, RiskScoreGrows
  <1>4. factor \in Nat
    <2>1. RiskModifier(s.host) \in -100..100
      BY <1>1, ModifierIs
    <2> QED BY <2>1
  <1>5. /\ Risk(s) = Within(Rounded(base * factor, 10000), 0, 1000)
        /\ Risk(t) = Within(Rounded(base2 * factor, 10000), 0, 1000)
    BY DEF Risk
  <1> HIDE DEF base, base2, factor
  <1>6. base * factor \in Int /\ base2 * factor \in Int /\ base * factor <= base2 * factor
    BY <1>3, <1>4
  <1>7. /\ Rounded(base * factor, 10000) \in Int /\ Rounded(base2 * factor, 10000) \in Int
        /\ Rounded(base * factor, 10000) <= Rounded(base2 * factor, 10000)
    BY <1>6, RoundedGrows
  <1> QED BY <1>5, <1>7, WithinGrows

\* A report or a sighting: hits grow, doubt lessens, silence is over.
LEMMA SeenIsWorse ==
  ASSUME NEW s \in Scores, NEW t \in Scores, s.confidence <= t.confidence, t.faded = 1,
         t.doubt = LessDoubt(s.doubt),
         t.severity = s.severity, t.source = s.source, t.host = s.host
  PROVE  Risk(s) <= Risk(t) /\ Effective(s) <= Effective(t)
  <1>1. /\ s.confidence \in 0..100 /\ t.confidence \in 0..100 /\ s.faded \in Nat \ {0}
        /\ s.doubt \in Doubts
    BY DEF Scores
  <1> DEFINE m == s.confidence
             d == s.faded
             n == t.confidence
             x == Rounded(m, d)
  <1>2. m \in Nat /\ d \in Nat \ {0} /\ n \in Nat /\ m <= n
    BY <1>1
  <1>3. Effective(s) = Within(x, 5, 100) /\ Effective(t) = Within(Rounded(n, 1), 5, 100)
    BY DEF Effective, DecayedConfidence, Floor
  <1> HIDE DEF m, d, n
  <1>4. Effective(s) \in Int /\ Effective(t) \in Int /\ Effective(s) <= Effective(t)
    <2>1. x \in 0..m /\ Rounded(n, 1) = n
      BY <1>2, RoundedAtMost
    <2> HIDE DEF x
    <2>2. x \in Int /\ x <= n
      BY <1>2, <2>1
    <2>3. Within(x, 5, 100) \in 5..100 /\ Within(n, 5, 100) \in 5..100
      BY <1>2, <2>2, ConfidenceScale
    <2>4. Within(x, 5, 100) <= Within(n, 5, 100)
      BY <1>2, <2>2, WithinGrows
    <2> QED BY <1>3, <2>1, <2>3, <2>4
  <1>5. Corroboration(s.doubt) <= Corroboration(t.doubt)
    BY <1>1, CorroborationGrows
  <1> QED BY <1>4, <1>5, RiskGrows

\* One more half-life of silence.
LEMMA SilenceIsBetter ==
  ASSUME NEW s \in Scores, NEW t \in Scores, t.confidence = s.confidence, t.faded = 2 * s.faded,
         t.doubt = s.doubt, t.severity = s.severity, t.source = s.source, t.host = s.host
  PROVE  Risk(t) <= Risk(s) /\ Effective(t) <= Effective(s)
  <1>1. s.confidence \in 0..100 /\ s.faded \in Nat \ {0} /\ t.faded \in Nat \ {0} /\ s.doubt \in Doubts
    BY DEF Scores
  <1> DEFINE m == s.confidence
             d == s.faded
             x == Rounded(m, d)
             y == Rounded(m, 2 * d)
  <1>2. m \in Nat /\ d \in Nat \ {0} /\ 2 * d \in Nat \ {0}
    BY <1>1
  <1>5. Effective(s) = Within(x, 5, 100) /\ Effective(t) = Within(y, 5, 100)
    BY DEF Effective, DecayedConfidence, Floor
  <1> HIDE DEF m, d
  <1>3. Effective(s) \in Int /\ Effective(t) \in Int /\ Effective(t) <= Effective(s)
    <2>1. x \in Int /\ y \in Int /\ y <= x
      BY <1>2, RoundedAtMost, RoundedHalf
    <2> HIDE DEF x, y
    <2>3. /\ Within(x, 5, 100) \in Int /\ Within(y, 5, 100) \in Int
          /\ Within(y, 5, 100) <= Within(x, 5, 100)
      <3>1. Within(x, 5, 100) \in 5..100 /\ Within(y, 5, 100) \in 5..100
        BY <2>1, ConfidenceScale
      <3>2. Within(y, 5, 100) <= Within(x, 5, 100)
        BY <2>1, WithinGrows
      <3> QED BY <3>1, <3>2
    <2> QED BY <1>5, <2>3
  <1>4. Corroboration(t.doubt) <= Corroboration(s.doubt)
    BY <1>1, CorroborationGrows
  <1> QED BY <1>3, <1>4, RiskGrows

LEMMA RiskStep ==
  ASSUME ScoreInv, ScoreInv', [Next]_score, score' # score
  PROVE  IF score'.hits > score.hits
         THEN Risk(score') >= Risk(score) /\ Effective(score') >= Effective(score)
         ELSE Risk(score') <= Risk(score) /\ Effective(score') <= Effective(score)
  <1>0. /\ score \in Scores /\ score' \in Scores /\ score.hits \in Int
    BY DEF ScoreInv, Scores
  <1>1. ASSUME NEW hits \in Int, NEW heard, NEW new,
               score' = Becomes(score, hits, 1, LessDoubt(score.doubt), heard, new),
               hits = score.hits + 1, score.confidence <= new
        PROVE  /\ score'.hits > score.hits
               /\ Risk(score) <= Risk(score') /\ Effective(score) <= Effective(score')
    <2>1. /\ score'.hits = hits /\ score'.faded = 1 /\ score'.confidence = new
          /\ score'.doubt = LessDoubt(score.doubt) /\ score'.severity = score.severity
          /\ score'.source = score.source /\ score'.host = score.host
      BY <1>0, <1>1 DEF Scores, Becomes
    <2>2. Risk(score) <= Risk(score') /\ Effective(score) <= Effective(score')
      BY <1>0, <1>1, <2>1, SeenIsWorse
    <2> QED BY <1>0, <1>1, <2>1, <2>2
  <1>2. ASSUME score' = Becomes(score, score.hits, 2 * score.faded, score.doubt, score.heard,
                                score.confidence)
        PROVE  /\ ~(score'.hits > score.hits)
               /\ Risk(score') <= Risk(score) /\ Effective(score') <= Effective(score)
    <2>1. /\ score'.hits = score.hits /\ score'.faded = 2 * score.faded
          /\ score'.confidence = score.confidence
          /\ score'.doubt = score.doubt /\ score'.severity = score.severity
          /\ score'.source = score.source /\ score'.host = score.host
      BY <1>0, <1>2 DEF Scores, Becomes
    <2>2. Risk(score') <= Risk(score) /\ Effective(score') <= Effective(score)
      BY <1>0, <2>1, SilenceIsBetter
    <2> QED BY <1>0, <2>1, <2>2
  <1> QED BY <1>1, <1>2, StepBecomes

\* Being seen never lowers the risk and the confidence an analyst is shown, and
\* silence never raises them (scoring.py:30-80, services.py:91-126).
THEOREM RiskFollows == ScoreSpec => RiskFollowsSightings
  <1>1. ASSUME ScoreInv, ScoreInv', [Next]_score
        PROVE  [LET before == Risk(score)
                    after == Risk(score')
                IN IF score'.hits > score.hits
                   THEN after >= before /\ Effective(score') >= Effective(score)
                   ELSE after <= before /\ Effective(score') <= Effective(score)]_score
    BY <1>1, RiskStep
  <1> QED BY <1>1, ScoreInvariance, PTL DEF ScoreSpec, RiskFollowsSightings

-----------------------------------------------------------------------------
(* The rule engine: what the parser does next depends on the token and on  *)
(* its control, never on a value, unless an operator stops it.             *)

\* A parser is the record of its fields.
Parsers(A, C, L, V, N, D) == [at : A, calls : C, lefts : L, value : V, next : N, depth : D]
IsParser(p) == p \in Parsers({p.at}, {p.calls}, {p.lefts}, {p.value}, {p.next}, {p.depth})

\* The fields of a parser, one by one.
IsAt(q, at, calls, lefts, value, next, depth) ==
  /\ q.at = at /\ q.calls = calls /\ q.lefts = lefts /\ q.value = value
  /\ q.next = next /\ q.depth = depth /\ IsParser(q)

LEMMA GoIs ==
  ASSUME NEW p, IsParser(p), NEW at
  PROVE  IsAt(Go(p, at), at, p.calls, p.lefts, p.value, p.next, p.depth)
  BY DEF IsParser, Parsers, IsAt, Go

LEMMA EatIs ==
  ASSUME NEW p, IsParser(p)
  PROVE  IsAt(Eat(p), p.at, p.calls, p.lefts, p.value, p.next + 1, p.depth)
  BY DEF IsParser, Parsers, IsAt, Eat

LEMMA FindIs ==
  ASSUME NEW p, IsParser(p), NEW v, NEW at
  PROVE  IsAt(Find(p, v, at), at, p.calls, p.lefts, v, p.next, p.depth)
  BY DEF IsParser, Parsers, IsAt, Find

LEMMA KeepIs ==
  ASSUME NEW p, IsParser(p), NEW left, NEW at
  PROVE  IsAt(Keep(p, left, at), at, p.calls, <<left>> \o Tail(p.lefts), p.value, p.next, p.depth)
  BY DEF IsParser, Parsers, IsAt, Keep

LEMMA EnterIs ==
  ASSUME NEW p, IsParser(p), NEW call, NEW left, NEW at, ~(p.depth + Frames(call) > MaxDepth)
  PROVE  IsAt(Enter(p, call, left, at), at, <<call>> \o p.calls, <<left>> \o p.lefts,
                 p.value, p.next + 1, p.depth + Frames(call))
  BY DEF IsParser, Parsers, IsAt, Enter, Eat

LEMMA ReturnIs ==
  ASSUME NEW p, IsParser(p), NEW v, NEW at
  PROVE  IsAt(Return(p, v, at), at, Tail(p.calls), Tail(p.lefts), v, p.next,
                 p.depth - Frames(Call(p)))
  BY DEF IsParser, Parsers, IsAt, Return, Find

\* Two parsers that differ in values only.
Control(p) == <<p.at, p.calls, p.next, p.depth>>
Same(p, q) == IsParser(p) /\ IsParser(q) /\ Control(p) = Control(q)

LEMMA SameFields ==
  ASSUME NEW p, NEW q
  PROVE  Same(p, q) <=> /\ IsParser(p) /\ IsParser(q)
                        /\ p.at = q.at /\ p.calls = q.calls /\ p.next = q.next /\ p.depth = q.depth
  BY DEF Same, Control

LEMMA SameCall ==
  ASSUME NEW p, NEW q, Same(p, q)
  PROVE  Call(p) = Call(q)
  BY SameFields DEF Call

LEMMA SameGo ==
  ASSUME NEW p, NEW q, Same(p, q), NEW at
  PROVE  Same(Go(p, at), Go(q, at))
  BY GoIs, SameFields DEF IsAt

LEMMA SameEat ==
  ASSUME NEW p, NEW q, Same(p, q)
  PROVE  Same(Eat(p), Eat(q))
  BY EatIs, SameFields DEF IsAt

LEMMA SameFind ==
  ASSUME NEW p, NEW q, Same(p, q), NEW v, NEW w, NEW at
  PROVE  Same(Find(p, v, at), Find(q, w, at))
  BY FindIs, SameFields DEF IsAt

LEMMA SameKeep ==
  ASSUME NEW p, NEW q, Same(p, q), NEW left, NEW other, NEW at
  PROVE  Same(Keep(p, left, at), Keep(q, other, at))
  <1>1. IsParser(p) /\ IsParser(q)
    BY SameFields
  <1>2. IsAt(Keep(p, left, at), at, p.calls, <<left>> \o Tail(p.lefts), p.value, p.next, p.depth)
    BY <1>1, KeepIs
  <1>3. IsAt(Keep(q, other, at), at, q.calls, <<other>> \o Tail(q.lefts), q.value, q.next, q.depth)
    BY <1>1, KeepIs
  <1> HIDE DEF Keep
  <1> QED BY <1>2, <1>3, SameFields DEF IsAt

LEMMA SameEnter ==
  ASSUME NEW p, NEW q, Same(p, q), NEW call, NEW left, NEW other, NEW at
  PROVE  Same(Enter(p, call, left, at), Enter(q, call, other, at))
  <1>1. CASE p.depth + Frames(call) > MaxDepth
    <2>1. q.depth + Frames(call) > MaxDepth
      BY <1>1, SameFields
    <2>2. Enter(p, call, left, at) = Go(p, "exhausted") /\ Enter(q, call, other, at) = Go(q, "exhausted")
      BY <1>1, <2>1 DEF Enter
    <2> QED BY <2>2, SameGo
  <1>2. CASE ~(p.depth + Frames(call) > MaxDepth)
    <2>1. ~(q.depth + Frames(call) > MaxDepth)
      BY <1>2, SameFields
    <2>2. /\ p.calls = q.calls /\ p.next = q.next /\ p.depth = q.depth
          /\ IsParser(p) /\ IsParser(q)
      BY SameFields
    <2>3. IsAt(Enter(p, call, left, at), at, <<call>> \o p.calls, <<left>> \o p.lefts,
                  p.value, p.next + 1, p.depth + Frames(call))
      BY <1>2, <2>2, EnterIs
    <2>4. IsAt(Enter(q, call, other, at), at, <<call>> \o q.calls, <<other>> \o q.lefts,
                  q.value, q.next + 1, q.depth + Frames(call))
      BY <2>1, <2>2, EnterIs
    <2> HIDE DEF Enter, Frames
    <2> QED BY <2>2, <2>3, <2>4, SameFields DEF IsAt
  <1> QED BY <1>1, <1>2

LEMMA SameReturn ==
  ASSUME NEW p, NEW q, Same(p, q), NEW v, NEW w, NEW at
  PROVE  Same(Return(p, v, at), Return(q, w, at))
  BY ReturnIs, SameFields, SameCall DEF IsAt

\* What primary() does with each kind of token: no token is of two kinds.
LEMMA PrimaryIs ==
  ASSUME NEW p, NEW t, NEW f
  PROVE  /\ t \in DOMAIN Literal => Primary(p, t, f) = Find(Eat(p), Literal[t], "after primary")
         /\ t \in DOMAIN Constant => Primary(p, t, f) = Find(Eat(p), Constant[t], "after primary")
         /\ t \in Fields => Primary(p, t, f) = Find(Eat(p), f[t], "after primary")
         /\ t = "not" => Primary(p, t, f) = Enter(p, "inner not", Null, "primary")
         /\ t = "(" => Primary(p, t, f) = Enter(p, "(", Null, "not_expr")
         /\ t = "[" => Primary(p, t, f) = Enter(p, "[", List(<<>>), "items")
         /\ t \notin DOMAIN Literal \cup DOMAIN Constant \cup Fields \cup {"not", "(", "["} =>
              Primary(p, t, f) = Go(p, "rejected")
  <1>1. CASE t \in DOMAIN Literal
    <2>1. t \notin DOMAIN Constant /\ t \notin Fields /\ t \notin {"not", "(", "["}
      BY <1>1, RuleAssumption DEF Punctuation
    <2> QED BY <1>1, <2>1 DEF Primary
  <1>2. CASE t \in Fields
    <2>1. t \notin DOMAIN Literal /\ t \notin DOMAIN Constant /\ t \notin {"not", "(", "["}
      BY <1>2, RuleAssumption DEF Punctuation
    <2> QED BY <1>2, <2>1 DEF Primary
  <1>3. CASE t \notin DOMAIN Literal \cup Fields
    <2>1. t \in {"not", "(", "["} => t \notin DOMAIN Constant
      BY DEF Constant
    <2> QED BY <1>3, <2>1 DEF Primary
  <1> QED BY <1>1, <1>2, <1>3

LEMMA SamePrimary ==
  ASSUME NEW p, NEW q, Same(p, q), NEW t, NEW f, NEW g
  PROVE  Same(Primary(p, t, f), Primary(q, t, g))
  <1>1. CASE t \in DOMAIN Literal
    <2>1. Primary(p, t, f) = Find(Eat(p), Literal[t], "after primary")
      BY <1>1, PrimaryIs
    <2>2. Primary(q, t, g) = Find(Eat(q), Literal[t], "after primary")
      BY <1>1, PrimaryIs
    <2> QED BY <2>1, <2>2, SameEat, SameFind
  <1>2. CASE t \in DOMAIN Constant
    <2>1. Primary(p, t, f) = Find(Eat(p), Constant[t], "after primary")
      BY <1>2, PrimaryIs
    <2>2. Primary(q, t, g) = Find(Eat(q), Constant[t], "after primary")
      BY <1>2, PrimaryIs
    <2> QED BY <2>1, <2>2, SameEat, SameFind
  <1>3. CASE t \in Fields
    <2>1. Primary(p, t, f) = Find(Eat(p), f[t], "after primary")
      BY <1>3, PrimaryIs
    <2>2. Primary(q, t, g) = Find(Eat(q), g[t], "after primary")
      BY <1>3, PrimaryIs
    <2> QED BY <2>1, <2>2, SameEat, SameFind
  <1>4. CASE t = "not"
    <2>1. Primary(p, t, f) = Enter(p, "inner not", Null, "primary")
      BY <1>4, PrimaryIs
    <2>2. Primary(q, t, g) = Enter(q, "inner not", Null, "primary")
      BY <1>4, PrimaryIs
    <2> QED BY <2>1, <2>2, SameEnter
  <1>5. CASE t = "("
    <2>1. Primary(p, t, f) = Enter(p, "(", Null, "not_expr")
      BY <1>5, PrimaryIs
    <2>2. Primary(q, t, g) = Enter(q, "(", Null, "not_expr")
      BY <1>5, PrimaryIs
    <2> QED BY <2>1, <2>2, SameEnter
  <1>6. CASE t = "["
    <2>1. Primary(p, t, f) = Enter(p, "[", List(<<>>), "items")
      BY <1>6, PrimaryIs
    <2>2. Primary(q, t, g) = Enter(q, "[", List(<<>>), "items")
      BY <1>6, PrimaryIs
    <2> QED BY <2>1, <2>2, SameEnter
  <1>7. CASE t \notin DOMAIN Literal \cup DOMAIN Constant \cup Fields \cup {"not", "(", "["}
    <2>1. Primary(p, t, f) = Go(p, "rejected")
      BY <1>7, PrimaryIs
    <2>2. Primary(q, t, g) = Go(q, "rejected")
      BY <1>7, PrimaryIs
    <2> QED BY <2>1, <2>2, SameGo
  <1> QED BY <1>1, <1>2, <1>3, <1>4, <1>5, <1>6, <1>7

LEMMA SameMoreItems ==
  ASSUME NEW p, NEW q, Same(p, q), NEW t
  PROVE  Same(MoreItems(p, t), MoreItems(q, t))
  BY SameEat, SameKeep, SameReturn, SameGo DEF MoreItems

LEMMA SameAfterPrimary ==
  ASSUME NEW p, NEW q, Same(p, q), NEW t, Call(p) \notin Relations
  PROVE  Same(AfterPrimary(p, t), AfterPrimary(q, t))
  <1>1. Call(q) = Call(p)
    BY SameCall
  <1>2. CASE Call(p) = "inner not"
    BY <1>1, <1>2, SameReturn DEF AfterPrimary, Relations, Comparisons, TextOperators
  <1>3. CASE Call(p) = "["
    BY <1>1, <1>3, SameMoreItems DEF AfterPrimary, Relations, Comparisons, TextOperators
  <1>4. CASE Call(p) \notin {"inner not", "["}
    BY <1>1, <1>4, SameEnter, SameGo DEF AfterPrimary
  <1> QED BY <1>2, <1>3, <1>4

LEMMA SameCompared ==
  ASSUME NEW p, NEW q, Same(p, q), NEW op,
         Compared(p, op).at \notin {"badPattern", "overflowed"},
         Compared(q, op).at \notin {"badPattern", "overflowed"}
  PROVE  Same(Compared(p, op), Compared(q, op))
  <1>1. IsParser(p) /\ IsParser(q)
    BY SameFields
  <1>2. Go(p, "badPattern").at = "badPattern" /\ Go(p, "overflowed").at = "overflowed"
    BY <1>1, GoIs DEF IsAt
  <1>3. Go(q, "badPattern").at = "badPattern" /\ Go(q, "overflowed").at = "overflowed"
    BY <1>1, GoIs DEF IsAt
  <1>4. Compared(p, op) = Return(p, Apply(op, Left(p), p.value), "after not_expr")
    BY <1>2 DEF Compared
  <1>5. Compared(q, op) = Return(q, Apply(op, Left(q), q.value), "after not_expr")
    BY <1>3 DEF Compared
  <1> QED BY <1>4, <1>5, SameReturn

LEMMA SameAfter ==
  ASSUME NEW p, NEW q, Same(p, q), NEW t
  PROVE  /\ Same(AfterNotExpr(p, t), AfterNotExpr(q, t))
         /\ Same(AfterAndExpr(p, t), AfterAndExpr(q, t))
         /\ Same(AfterOrExpr(p, t), AfterOrExpr(q, t))
         /\ Same(Start(p, t), Start(q, t))
         /\ Same(NotExpr(p, t), NotExpr(q, t))
         /\ Same(Items(p, t), Items(q, t))
  <1>1. Call(q) = Call(p)
    BY SameCall
  <1>2. Same(AfterNotExpr(p, t), AfterNotExpr(q, t))
    BY <1>1, SameReturn, SameEnter, SameGo DEF AfterNotExpr
  <1>3. Same(AfterAndExpr(p, t), AfterAndExpr(q, t))
    BY <1>1, SameReturn, SameEnter, SameGo DEF AfterAndExpr
  <1>4. Same(AfterOrExpr(p, t), AfterOrExpr(q, t))
    BY <1>1, SameEat, SameReturn, SameFind, SameGo DEF AfterOrExpr
  <1>5. Same(Start(p, t), Start(q, t))
    BY SameFind, SameGo DEF Start
  <1>6. Same(NotExpr(p, t), NotExpr(q, t))
    BY SameEnter, SameGo DEF NotExpr
  <1>7. Same(Items(p, t), Items(q, t))
    BY SameEat, SameReturn, SameGo DEF Items
  <1> QED BY <1>2, <1>3, <1>4, <1>5, <1>6, <1>7

Places == {"start", "not_expr", "primary", "items", "after primary", "after not_expr",
           "after and_expr", "after or_expr"}

LEMMA StepIs ==
  ASSUME NEW p, NEW t, NEW f
  PROVE  /\ p.at = "start" => Step(p, t, f) = Start(p, t)
         /\ p.at = "not_expr" => Step(p, t, f) = NotExpr(p, t)
         /\ p.at = "primary" => Step(p, t, f) = Primary(p, t, f)
         /\ p.at = "items" => Step(p, t, f) = Items(p, t)
         /\ p.at = "after primary" => Step(p, t, f) = AfterPrimary(p, t)
         /\ p.at = "after not_expr" => Step(p, t, f) = AfterNotExpr(p, t)
         /\ p.at = "after and_expr" => Step(p, t, f) = AfterAndExpr(p, t)
         /\ p.at = "after or_expr" => Step(p, t, f) = AfterOrExpr(p, t)
         /\ p.at \in Stops => Step(p, t, f) = p
  BY DEF Step, Stops

\* No operator has stopped it.
Unhurt(p) == p.at \notin {"badPattern", "overflowed"}

\* Two parsers in step stay in step, unless an operator stops one of them.
LEMMA SameStep ==
  ASSUME NEW p, NEW q, Same(p, q), p.at \in Places \cup Stops, NEW t, NEW f, NEW g,
         Unhurt(Step(p, t, f)), Unhurt(Step(q, t, g))
  PROVE  Same(Step(p, t, f), Step(q, t, g))
  <1>0. q.at = p.at /\ Call(q) = Call(p)
    BY SameFields, SameCall
  <1>1. CASE p.at = "start"
    <2>1. Step(p, t, f) = Start(p, t) /\ Step(q, t, g) = Start(q, t)
      BY <1>0, <1>1, StepIs
    <2> QED BY <2>1, SameAfter
  <1>2. CASE p.at = "not_expr"
    <2>1. Step(p, t, f) = NotExpr(p, t) /\ Step(q, t, g) = NotExpr(q, t)
      BY <1>0, <1>2, StepIs
    <2> QED BY <2>1, SameAfter
  <1>3. CASE p.at = "primary"
    <2>1. Step(p, t, f) = Primary(p, t, f)
      BY <1>3, StepIs
    <2>2. Step(q, t, g) = Primary(q, t, g)
      BY <1>0, <1>3 DEF Step, Stops
    <2> QED BY <2>1, <2>2, SamePrimary
  <1>4. CASE p.at = "items"
    <2>1. Step(p, t, f) = Items(p, t) /\ Step(q, t, g) = Items(q, t)
      BY <1>0, <1>4, StepIs
    <2> QED BY <2>1, SameAfter
  <1>5. CASE p.at = "after primary"
    <2>1. Step(p, t, f) = AfterPrimary(p, t) /\ Step(q, t, g) = AfterPrimary(q, t)
      BY <1>0, <1>5, StepIs
    <2>2. CASE Call(p) \in Relations
      <3>1. AfterPrimary(p, t) = Compared(p, Call(p)) /\ AfterPrimary(q, t) = Compared(q, Call(p))
        BY <1>0, <2>2 DEF AfterPrimary, Relations, Comparisons, TextOperators
      <3> QED BY <2>1, <3>1, SameCompared DEF Unhurt
    <2>3. CASE Call(p) \notin Relations
      BY <2>1, <2>3, SameAfterPrimary
    <2> QED BY <2>2, <2>3
  <1>6. CASE p.at = "after not_expr"
    <2>1. Step(p, t, f) = AfterNotExpr(p, t) /\ Step(q, t, g) = AfterNotExpr(q, t)
      BY <1>0, <1>6, StepIs
    <2> QED BY <2>1, SameAfter
  <1>7. CASE p.at = "after and_expr"
    <2>1. Step(p, t, f) = AfterAndExpr(p, t) /\ Step(q, t, g) = AfterAndExpr(q, t)
      BY <1>0, <1>7, StepIs
    <2> QED BY <2>1, SameAfter
  <1>8. CASE p.at = "after or_expr"
    <2>1. Step(p, t, f) = AfterOrExpr(p, t) /\ Step(q, t, g) = AfterOrExpr(q, t)
      BY <1>0, <1>8, StepIs
    <2> QED BY <2>1, SameAfter
  <1>9. CASE p.at \in Stops
    <2>1. Step(p, t, f) = p
      BY <1>9, StepIs
    <2>2. Step(q, t, g) = q
      BY <1>0, <1>9 DEF Step, Stops
    <2> QED BY <2>1, <2>2
  <1> QED BY <1>1, <1>2, <1>3, <1>4, <1>5, <1>6, <1>7, <1>8, <1>9 DEF Places

-----------------------------------------------------------------------------
(* The five ways a step moves a parser: it stays in its call, finds a      *)
(* value, enters a call, leaves one, or keeps an item of a list.           *)

CallTokens == {"(", "[", "not", "inner not", "and", "or"} \cup Relations

\* Not where the pattern of "matches" is read.
Calm(p) == p.at # "primary" /\ (p.at = "after primary" => Call(p) \notin Relations)

\* No number too large for a float.
Modest(v) == v.num # Huge

\* The same of all a step looks at.
Sighted(p, t, f) ==
  /\ Modest(p.value) /\ (p.calls # <<>> => Modest(Left(p)))
  /\ t \in DOMAIN Literal => Modest(Literal[t])
  /\ t \in Fields => Modest(f[t])

Eats(p, q, t) == q.next = p.next + 1 /\ t # End

\* Why a parser may stop without a verdict.
Hurts(p, at, t) ==
  /\ at = "badPattern" =>
       p.at = at \/ (p.at = "after primary" /\ Call(p) \in Relations /\ Invalid(Call(p), p.value))
  /\ at = "overflowed" =>
       p.at = at \/ (p.at = "after primary" /\ Call(p) \in Relations
                     /\ Overflows(Call(p), Left(p), p.value))
  /\ at = "exhausted" => p.at = at \/ (p.depth + 5 > MaxDepth /\ t # End)

Stays(p, q, t) ==
  /\ q.calls = p.calls /\ q.lefts = p.lefts /\ q.next = p.next /\ q.depth = p.depth
  /\ (q.at \in Stops /\ Hurts(p, q.at, t)) \/ (q.at \in Places \ {"items"} /\ Calm(p) /\ q.value = p.value)

Finds(p, q, t) ==
  /\ q.calls = p.calls /\ q.lefts = p.lefts /\ Eats(p, q, t) /\ q.depth = p.depth
  /\ p.at = "primary" /\ q.at = "after primary"
  /\ t \in DOMAIN Literal => q.value = Literal[t]

Enters(p, q, t, call, left) ==
  /\ q.calls = <<call>> \o p.calls /\ q.lefts = <<left>> \o p.lefts /\ call \in CallTokens
  /\ Eats(p, q, t) /\ q.depth = p.depth + Frames(call) /\ q.depth <= MaxDepth
  /\ q.at \in Places
  /\ \/ p.at = "primary" /\ t \notin DOMAIN Literal /\ call # "matches"
     \/ Calm(p) /\ (call = "matches" => t = "matches" /\ q.at = "primary")

Leaves(p, q, t) ==
  /\ p.calls # <<>> /\ q.calls = Tail(p.calls) /\ q.lefts = Tail(p.lefts)
  /\ q.next = p.next \/ Eats(p, q, t)
  /\ q.depth = p.depth - Frames(Call(p))
  /\ p.at # "primary" /\ q.at \in Places \ {"items"}

Keeps(p, q, t, left) ==
  /\ p.calls # <<>> /\ q.calls = p.calls /\ q.lefts = <<left>> \o Tail(p.lefts)
  /\ Eats(p, q, t) /\ q.depth = p.depth
  /\ Calm(p) /\ q.at \in Places \ {"items"}

Moves(p, q, t, f) ==
  /\ IsParser(q)
  /\ Sighted(p, t, f) => Modest(q.value)
  /\ \/ Stays(p, q, t)
     \/ Finds(p, q, t)
     \/ \E call, left : Enters(p, q, t, call, left) /\ (Sighted(p, t, f) => Modest(left))
     \/ Leaves(p, q, t)
     \/ \E left : Keeps(p, q, t, left) /\ (Sighted(p, t, f) => Modest(left))

LEMMA MadeModest ==
  /\ \A b : Modest(Bool(b))
  /\ Modest(Null)
  /\ \A items : Modest(List(items))
  /\ \A t \in DOMAIN Constant : Modest(Constant[t])
  BY DEF Modest, Bool, Null, List, Value, Huge, Constant

LEMMA GoMoves ==
  ASSUME NEW p, IsParser(p), NEW t, NEW f, NEW at,
         (at \in Stops /\ Hurts(p, at, t)) \/ (at \in Places \ {"items"} /\ Calm(p))
  PROVE  Moves(p, Go(p, at), t, f)
  <1>1. IsAt(Go(p, at), at, p.calls, p.lefts, p.value, p.next, p.depth)
    BY GoIs
  <1> HIDE DEF Go
  <1>2. Stays(p, Go(p, at), t) /\ Go(p, at).value = p.value
    BY <1>1 DEF Stays, IsAt
  <1> QED BY <1>1, <1>2 DEF Moves, IsAt, Sighted

LEMMA AcceptMoves ==
  ASSUME NEW p, IsParser(p), NEW t, NEW f, NEW v, Modest(v)
  PROVE  Moves(p, Find(p, v, "accepted"), t, f)
  <1> DEFINE q == Find(p, v, "accepted")
  <1>1. IsAt(q, "accepted", p.calls, p.lefts, v, p.next, p.depth)
    BY FindIs
  <1> HIDE DEF q
  <1>2. Stays(p, q, t) /\ q.value = v
    BY <1>1 DEF Stays, IsAt, Stops, Hurts
  <1> QED BY <1>1, <1>2 DEF Moves, IsAt, q

LEMMA FindMoves ==
  ASSUME NEW p, IsParser(p), NEW t, NEW f, NEW v, p.at = "primary", t # End,
         t \in DOMAIN Literal => v = Literal[t], Sighted(p, t, f) => Modest(v)
  PROVE  Moves(p, Find(Eat(p), v, "after primary"), t, f)
  <1> DEFINE e == Eat(p)
             q == Find(e, v, "after primary")
  <1>1. IsAt(e, p.at, p.calls, p.lefts, p.value, p.next + 1, p.depth)
    BY EatIs
  <1> HIDE DEF e
  <1>2. IsAt(q, "after primary", e.calls, e.lefts, v, e.next, e.depth)
    BY <1>1, FindIs DEF IsAt
  <1> HIDE DEF q
  <1>3. Finds(p, q, t) /\ q.value = v
    BY <1>1, <1>2 DEF Finds, IsAt, Eats
  <1> QED BY <1>2, <1>3 DEF Moves, IsAt, q, e

LEMMA EnterMoves ==
  ASSUME NEW p, IsParser(p), NEW t, NEW f, NEW call \in CallTokens, NEW left, NEW at \in Places, t # End,
         Sighted(p, t, f) => Modest(left),
         \/ p.at = "primary" /\ t \notin DOMAIN Literal /\ call # "matches"
         \/ Calm(p) /\ (call = "matches" => t = "matches" /\ at = "primary"),
         p.depth \in Int
  PROVE  Moves(p, Enter(p, call, left, at), t, f)
  <1>1. CASE p.depth + Frames(call) > MaxDepth
    <2>1. Enter(p, call, left, at) = Go(p, "exhausted")
      BY <1>1 DEF Enter
    <2>2. Frames(call) \in 0..5 /\ MaxDepth \in Int
      BY RuleAssumption DEF Frames
    <2>3. Hurts(p, "exhausted", t)
      BY <1>1, <2>2 DEF Hurts
    <2>4. Moves(p, Go(p, "exhausted"), t, f)
      BY <2>3, GoMoves DEF Stops
    <2> QED BY <2>1, <2>4
  <1>2. CASE ~(p.depth + Frames(call) > MaxDepth)
    <2> DEFINE q == Enter(p, call, left, at)
    <2>1. IsAt(q, at, <<call>> \o p.calls, <<left>> \o p.lefts, p.value, p.next + 1,
                  p.depth + Frames(call))
      BY <1>2, EnterIs
    <2>2. Frames(call) \in Int /\ MaxDepth \in Int
      BY RuleAssumption DEF Frames
    <2> HIDE DEF q
    <2>3. q.depth <= MaxDepth
      BY <1>2, <2>1, <2>2 DEF IsAt
    <2>4. Enters(p, q, t, call, left)
      BY <2>1, <2>3 DEF Enters, IsAt, Eats
    <2> QED BY <2>1, <2>4 DEF Moves, IsAt, Sighted, q
  <1> QED BY <1>1, <1>2

LEMMA ReturnMoves ==
  ASSUME NEW p, IsParser(p), NEW t, NEW f, NEW v, NEW at \in Places \ {"items"}, p.calls # <<>>,
         p.at # "primary", Sighted(p, t, f) => Modest(v)
  PROVE  /\ Moves(p, Return(p, v, at), t, f)
         /\ t # End => Moves(p, Return(Eat(p), v, at), t, f)
  <1>1. Moves(p, Return(p, v, at), t, f)
    <2> DEFINE q == Return(p, v, at)
    <2>1. IsAt(q, at, Tail(p.calls), Tail(p.lefts), v, p.next, p.depth - Frames(Call(p)))
      BY ReturnIs
    <2> HIDE DEF q
    <2>2. Leaves(p, q, t) /\ q.value = v
      BY <2>1 DEF Leaves, IsAt
    <2> QED BY <2>1, <2>2 DEF Moves, IsAt, q
  <1>2. ASSUME t # End PROVE Moves(p, Return(Eat(p), v, at), t, f)
    <2> DEFINE e == Eat(p)
               q == Return(e, v, at)
    <2>1. IsAt(e, p.at, p.calls, p.lefts, p.value, p.next + 1, p.depth)
      BY EatIs
    <2> HIDE DEF e
    <2>2. IsAt(q, at, Tail(e.calls), Tail(e.lefts), v, e.next, e.depth - Frames(Call(e)))
      BY <2>1, ReturnIs DEF IsAt
    <2>3. Call(e) = Call(p)
      BY <2>1 DEF Call, IsAt
    <2> HIDE DEF q
    <2>4. Leaves(p, q, t) /\ q.value = v
      BY <1>2, <2>1, <2>2, <2>3 DEF Leaves, IsAt, Eats
    <2> QED BY <2>2, <2>4 DEF Moves, IsAt, q, e
  <1> QED BY <1>1, <1>2

LEMMA KeepMoves ==
  ASSUME NEW p, IsParser(p), NEW t, NEW f, NEW left, p.calls # <<>>, Calm(p), Modest(left), t # End
  PROVE  Moves(p, Keep(Eat(p), left, "primary"), t, f)
  <1> DEFINE e == Eat(p)
             q == Keep(e, left, "primary")
  <1>1. IsAt(e, p.at, p.calls, p.lefts, p.value, p.next + 1, p.depth)
    BY EatIs
  <1> HIDE DEF e
  <1>2. IsAt(q, "primary", e.calls, <<left>> \o Tail(e.lefts), e.value, e.next, e.depth)
    BY <1>1, KeepIs DEF IsAt
  <1> HIDE DEF q
  <1>3. Keeps(p, q, t, left) /\ q.value = p.value
    BY <1>1, <1>2 DEF Keeps, IsAt, Eats, Places
  <1> QED BY <1>2, <1>3 DEF Moves, IsAt, Sighted, q, e

LEMMA Called ==
  ASSUME NEW p, Call(p) # "parse"
  PROVE  p.calls # <<>>
  BY DEF Call

LEMMA NotEnd ==
  ASSUME NEW t
  PROVE  /\ t \in DOMAIN Literal \cup DOMAIN Constant \cup Fields \cup Relations => t # End
         /\ t \in {"not", "and", "or", "(", ")", "[", "]", ","} => t # End /\ t \notin DOMAIN Literal
  BY RuleAssumption DEF End, Constant, Punctuation, Relations, Comparisons, TextOperators

LEMMA PrimaryMoves ==
  ASSUME NEW p, IsParser(p), p.depth \in Int, p.at = "primary", NEW t, NEW f
  PROVE  Moves(p, Primary(p, t, f), t, f)
  <1>1. CASE t \in DOMAIN Literal
    <2>1. t # End /\ (Sighted(p, t, f) => Modest(Literal[t]))
      BY <1>1, NotEnd DEF Sighted
    <2>2. Moves(p, Find(Eat(p), Literal[t], "after primary"), t, f)
      BY <2>1, FindMoves
    <2> QED BY <1>1, <2>2, PrimaryIs
  <1>2. CASE t \in DOMAIN Constant
    <2>1. t # End /\ t \notin DOMAIN Literal /\ Modest(Constant[t])
      BY <1>2, NotEnd, MadeModest, RuleAssumption
    <2>2. Moves(p, Find(Eat(p), Constant[t], "after primary"), t, f)
      BY <2>1, FindMoves
    <2> QED BY <1>2, <2>2, PrimaryIs
  <1>3. CASE t \in Fields
    <2>1. t # End /\ t \notin DOMAIN Literal /\ (Sighted(p, t, f) => Modest(f[t]))
      BY <1>3, NotEnd, RuleAssumption DEF Sighted
    <2>2. Moves(p, Find(Eat(p), f[t], "after primary"), t, f)
      BY <2>1, FindMoves
    <2> QED BY <1>3, <2>2, PrimaryIs
  <1>4. CASE t = "not"
    <2>1. Moves(p, Enter(p, "inner not", Null, "primary"), t, f)
      BY <1>4, NotEnd, MadeModest, EnterMoves DEF CallTokens, Places
    <2> QED BY <1>4, <2>1, PrimaryIs
  <1>5. CASE t = "("
    <2>1. Moves(p, Enter(p, "(", Null, "not_expr"), t, f)
      BY <1>5, NotEnd, MadeModest, EnterMoves DEF CallTokens, Places
    <2> QED BY <1>5, <2>1, PrimaryIs
  <1>6. CASE t = "["
    <2>1. Moves(p, Enter(p, "[", List(<<>>), "items"), t, f)
      BY <1>6, NotEnd, MadeModest, EnterMoves DEF CallTokens, Places
    <2> QED BY <1>6, <2>1, PrimaryIs
  <1>7. CASE t \notin DOMAIN Literal \cup DOMAIN Constant \cup Fields \cup {"not", "(", "["}
    <2>1. Moves(p, Go(p, "rejected"), t, f)
      BY GoMoves DEF Stops, Hurts
    <2> QED BY <1>7, <2>1, PrimaryIs
  <1> QED BY <1>1, <1>2, <1>3, <1>4, <1>5, <1>6, <1>7

LEMMA StartMoves ==
  ASSUME NEW p, IsParser(p), p.depth \in Int, NEW t, NEW f
  PROVE  /\ p.at = "start" => Moves(p, Start(p, t), t, f)
         /\ p.at = "not_expr" => Moves(p, NotExpr(p, t), t, f)
  <1>1. ASSUME p.at = "start" PROVE Moves(p, Start(p, t), t, f)
    <2>1. Moves(p, Find(p, Bool(FALSE), "accepted"), t, f)
      BY MadeModest, AcceptMoves
    <2>2. Moves(p, Go(p, "not_expr"), t, f)
      BY <1>1, GoMoves DEF Places, Calm
    <2> QED BY <2>1, <2>2 DEF Start
  <1>2. ASSUME p.at = "not_expr" PROVE Moves(p, NotExpr(p, t), t, f)
    <2>1. ASSUME t = "not" PROVE Moves(p, Enter(p, "not", Null, "not_expr"), t, f)
      BY <1>2, <2>1, NotEnd, MadeModest, EnterMoves DEF CallTokens, Places, Calm
    <2>2. Moves(p, Go(p, "primary"), t, f)
      BY <1>2, GoMoves DEF Places, Calm
    <2> QED BY <2>1, <2>2 DEF NotExpr
  <1> QED BY <1>1, <1>2

LEMMA ItemsMoves ==
  ASSUME NEW p, IsParser(p), NEW t, NEW f, p.calls # <<>>
  PROVE  /\ p.at = "items" => Moves(p, Items(p, t), t, f)
         /\ p.at = "after primary" /\ Call(p) = "[" => Moves(p, MoreItems(p, t), t, f)
  <1>1. ASSUME p.at = "items" PROVE Moves(p, Items(p, t), t, f)
    <2>1. ASSUME t = "]" PROVE Moves(p, Return(Eat(p), Left(p), "after primary"), t, f)
      <3>1. t # End
        BY <2>1, NotEnd
      <3> QED BY <1>1, <3>1, ReturnMoves DEF Sighted, Places
    <2>2. Moves(p, Go(p, "primary"), t, f)
      BY <1>1, GoMoves DEF Places, Calm
    <2> QED BY <2>1, <2>2 DEF Items
  <1>2. ASSUME p.at = "after primary", Call(p) = "[" PROVE Moves(p, MoreItems(p, t), t, f)
    <2> DEFINE items == List(Append(Left(p).items, Plain(p.value)))
    <2>1. Modest(items)
      BY MadeModest
    <2>2. Calm(p)
      BY <1>2 DEF Calm, Relations, Comparisons, TextOperators
    <2>3. MoreItems(p, t) = CASE t = "," -> Keep(Eat(p), items, "primary")
                              [] t = "]" -> Return(Eat(p), items, "after primary")
                              [] OTHER -> Go(p, "rejected")
      BY DEF MoreItems
    <2> HIDE DEF items
    <2>4. CASE t = ","
      <3>1. Moves(p, Keep(Eat(p), items, "primary"), t, f)
        BY <2>1, <2>2, <2>4, NotEnd, KeepMoves
      <3> QED BY <2>3, <2>4, <3>1
    <2>5. CASE t = "]"
      <3>1. Moves(p, Return(Eat(p), items, "after primary"), t, f)
        BY <1>2, <2>1, <2>5, NotEnd, ReturnMoves DEF Places
      <3> QED BY <2>3, <2>5, <3>1
    <2>6. CASE t \notin {",", "]"}
      <3>1. Moves(p, Go(p, "rejected"), t, f)
        BY GoMoves DEF Stops, Hurts
      <3> QED BY <2>3, <2>6, <3>1
    <2> QED BY <2>4, <2>5, <2>6
  <1> QED BY <1>1, <1>2

LEMMA ApplyModest ==
  ASSUME NEW op \in Relations, NEW a, NEW b
  PROVE  Modest(Apply(op, a, b))
  <1>1. CASE op \in Comparisons
    <2>1. Modest(Compare(op, a, b))
      BY <1>1, MadeModest DEF Compare, Comparisons
    <2> QED BY <1>1, <2>1 DEF Apply
  <1>2. CASE op \in TextOperators
    <2>1. Modest(Textual(op, a, b))
      BY <1>2, MadeModest DEF Textual, TextOperators
    <2>2. op \notin Comparisons
      BY <1>2 DEF Comparisons, TextOperators
    <2> QED BY <2>1, <2>2 DEF Apply
  <1> QED BY <1>1, <1>2 DEF Relations

LEMMA AfterPrimaryMoves ==
  ASSUME NEW p, IsParser(p), p.depth \in Int, NEW t, NEW f, p.at = "after primary"
  PROVE  Moves(p, AfterPrimary(p, t), t, f)
  <1>0. Call(p) \in Relations \cup {"inner not", "["} => p.calls # <<>>
    BY Called DEF Relations, Comparisons, TextOperators
  <1>1. CASE Call(p) = "inner not"
    <2>1. Moves(p, Return(p, Bool(~Truthy(p.value)), "after primary"), t, f)
      BY <1>0, <1>1, MadeModest, ReturnMoves DEF Places
    <2> QED BY <1>1, <2>1 DEF AfterPrimary, Relations, Comparisons, TextOperators
  <1>2. CASE Call(p) = "["
    <2>1. Moves(p, MoreItems(p, t), t, f)
      BY <1>0, <1>2, ItemsMoves
    <2> QED BY <1>2, <2>1 DEF AfterPrimary, Relations, Comparisons, TextOperators
  <1>3. CASE Call(p) \in Relations
    <2>1. AfterPrimary(p, t) = Compared(p, Call(p))
      BY <1>3 DEF AfterPrimary, Relations, Comparisons, TextOperators
    <2>2. ASSUME Invalid(Call(p), p.value) PROVE Moves(p, Go(p, "badPattern"), t, f)
      BY <1>3, <2>2, GoMoves DEF Stops, Hurts
    <2>3. ASSUME Overflows(Call(p), Left(p), p.value) PROVE Moves(p, Go(p, "overflowed"), t, f)
      BY <1>3, <2>3, GoMoves DEF Stops, Hurts
    <2>4. Moves(p, Return(p, Apply(Call(p), Left(p), p.value), "after not_expr"), t, f)
      BY <1>0, <1>3, ApplyModest, ReturnMoves DEF Places
    <2> QED BY <2>1, <2>2, <2>3, <2>4 DEF Compared
  <1>4. CASE Call(p) \notin Relations \cup {"inner not", "["}
    <2>1. Calm(p)
      BY <1>4 DEF Calm
    <2>2. ASSUME t \in Relations PROVE Moves(p, Enter(p, t, p.value, "primary"), t, f)
      <3>1. t # End /\ t \in CallTokens
        BY <2>2, NotEnd DEF CallTokens
      <3> QED BY <2>1, <3>1, EnterMoves DEF Sighted, Places
    <2>3. Moves(p, Go(p, "after not_expr"), t, f)
      BY <2>1, GoMoves DEF Places
    <2> QED BY <1>4, <2>2, <2>3 DEF AfterPrimary
  <1> QED BY <1>1, <1>2, <1>3, <1>4

LEMMA AfterNotExprMoves ==
  ASSUME NEW p, IsParser(p), p.depth \in Int, NEW t, NEW f, p.at = "after not_expr"
  PROVE  Moves(p, AfterNotExpr(p, t), t, f)
  <1>0. /\ Call(p) \in {"not", "and"} => p.calls # <<>>
        /\ Calm(p)
    BY Called DEF Calm
  <1>1. ASSUME Call(p) = "not"
        PROVE  Moves(p, Return(p, Bool(~Truthy(p.value)), "after not_expr"), t, f)
    BY <1>0, <1>1, MadeModest, ReturnMoves DEF Places
  <1>2. ASSUME Call(p) = "and"
        PROVE  Moves(p, Return(p, Bool(Truthy(Left(p)) /\ Truthy(p.value)), "after not_expr"), t, f)
    BY <1>0, <1>2, MadeModest, ReturnMoves DEF Places
  <1>3. ASSUME t = "and" PROVE Moves(p, Enter(p, "and", p.value, "not_expr"), t, f)
    BY <1>0, <1>3, NotEnd, EnterMoves DEF Sighted, Places, CallTokens
  <1>4. Moves(p, Go(p, "after and_expr"), t, f)
    BY <1>0, GoMoves DEF Places
  <1> QED BY <1>1, <1>2, <1>3, <1>4 DEF AfterNotExpr

LEMMA AfterAndExprMoves ==
  ASSUME NEW p, IsParser(p), p.depth \in Int, NEW t, NEW f, p.at = "after and_expr"
  PROVE  Moves(p, AfterAndExpr(p, t), t, f)
  <1>0. /\ Call(p) = "or" => p.calls # <<>>
        /\ Calm(p)
    BY Called DEF Calm
  <1>1. ASSUME Call(p) = "or"
        PROVE  Moves(p, Return(p, Bool(Truthy(Left(p)) \/ Truthy(p.value)), "after and_expr"), t, f)
    BY <1>0, <1>1, MadeModest, ReturnMoves DEF Places
  <1>2. ASSUME t = "or" PROVE Moves(p, Enter(p, "or", p.value, "not_expr"), t, f)
    BY <1>0, <1>2, NotEnd, EnterMoves DEF Sighted, Places, CallTokens
  <1>3. Moves(p, Go(p, "after or_expr"), t, f)
    BY <1>0, GoMoves DEF Places
  <1> QED BY <1>1, <1>2, <1>3 DEF AfterAndExpr

LEMMA AfterOrExprMoves ==
  ASSUME NEW p, IsParser(p), NEW t, NEW f, p.at = "after or_expr"
  PROVE  Moves(p, AfterOrExpr(p, t), t, f)
  <1>1. ASSUME Call(p) = "(", t = ")" PROVE Moves(p, Return(Eat(p), p.value, "after primary"), t, f)
    <2>1. p.calls # <<>> /\ t # End
      BY <1>1, Called, NotEnd
    <2> QED BY <2>1, ReturnMoves DEF Sighted, Places
  <1>2. Moves(p, Find(p, Bool(Truthy(p.value)), "accepted"), t, f)
    BY MadeModest, AcceptMoves
  <1>3. Moves(p, Go(p, "rejected"), t, f)
    BY GoMoves DEF Stops, Hurts
  <1> QED BY <1>1, <1>2, <1>3 DEF AfterOrExpr

\* Every step is one of the five, with the whole case analysis of the parser
\* behind it; the invariants below only look at the five.
LEMMA StepMoves ==
  ASSUME NEW p, IsParser(p), p.depth \in Int, p.at \in Places \cup Stops,
         p.at = "items" => p.calls # <<>>, NEW t, NEW f
  PROVE  Moves(p, Step(p, t, f), t, f)
  <1>1. CASE p.at \in {"start", "not_expr"}
    <2>1. /\ p.at = "start" => Step(p, t, f) = Start(p, t)
          /\ p.at = "not_expr" => Step(p, t, f) = NotExpr(p, t)
      BY StepIs
    <2> QED BY <1>1, <2>1, StartMoves
  <1>2. CASE p.at = "primary"
    <2>1. Step(p, t, f) = Primary(p, t, f)
      BY <1>2, StepIs
    <2> QED BY <1>2, <2>1, PrimaryMoves
  <1>3. CASE p.at = "items"
    <2>1. Step(p, t, f) = Items(p, t)
      BY <1>3, StepIs
    <2> QED BY <1>3, <2>1, ItemsMoves
  <1>4. CASE p.at = "after primary"
    <2>1. Step(p, t, f) = AfterPrimary(p, t)
      BY <1>4, StepIs
    <2> QED BY <1>4, <2>1, AfterPrimaryMoves
  <1>5. CASE p.at = "after not_expr"
    <2>1. Step(p, t, f) = AfterNotExpr(p, t)
      BY <1>5, StepIs
    <2> QED BY <1>5, <2>1, AfterNotExprMoves
  <1>6. CASE p.at = "after and_expr"
    <2>1. Step(p, t, f) = AfterAndExpr(p, t)
      BY <1>6, StepIs
    <2> QED BY <1>6, <2>1, AfterAndExprMoves
  <1>7. CASE p.at = "after or_expr"
    <2>1. Step(p, t, f) = AfterOrExpr(p, t)
      BY <1>7, StepIs
    <2> QED BY <1>7, <2>1, AfterOrExprMoves
  <1>8. CASE p.at \in Stops
    <2>1. Step(p, t, f) = p
      BY <1>8, StepIs
    <2> QED BY <1>8, <2>1 DEF Moves, Stays, Sighted, Hurts
  <1> QED BY <1>1, <1>2, <1>3, <1>4, <1>5, <1>6, <1>7, <1>8 DEF Places

-----------------------------------------------------------------------------
(* What the moves preserve.                                                *)

LEMMA PushIs ==
  ASSUME NEW S, NEW s \in Seq(S), NEW e
  PROVE  /\ <<e>> \o s \in Seq(S \cup {e}) /\ Len(<<e>> \o s) = Len(s) + 1
         /\ (<<e>> \o s)[1] = e
         /\ \A i \in 2..(Len(s) + 1) : (<<e>> \o s)[i] = s[i - 1]
  OBVIOUS

LEMMA PopIs ==
  ASSUME NEW S, NEW s \in Seq(S), s # <<>>
  PROVE  /\ Tail(s) \in Seq(S) /\ Len(Tail(s)) = Len(s) - 1 /\ Len(s) \in Nat \ {0}
         /\ Head(s) = s[1] /\ Head(s) \in S
         /\ \A i \in 1..(Len(s) - 1) : Tail(s)[i] = s[i + 1]
  OBVIOUS

\* What the pending calls have found.
Held(p) == {p.lefts[i] : i \in DOMAIN p.lefts}

LEMMA HeldIs ==
  ASSUME NEW p, NEW S, p.lefts \in Seq(S)
  PROVE  p.lefts \in Seq(Held(p)) /\ Held(p) \subseteq S
  <1>1. p.lefts \in [1..Len(p.lefts) -> S] /\ Len(p.lefts) \in Nat /\ DOMAIN p.lefts = 1..Len(p.lefts)
    OBVIOUS
  <1>2. p.lefts \in [1..Len(p.lefts) -> Held(p)]
    BY <1>1 DEF Held
  <1>3. p.lefts \in Seq(Held(p))
    BY <1>1, <1>2
  <1>4. Held(p) \subseteq S
    BY <1>1 DEF Held
  <1> QED BY <1>3, <1>4

LEMMA DepthBound ==
  ASSUME NEW d \in Int, NEW n \in Nat, NEW m \in Nat, NEW k \in 0..5, d <= 5 * (n - 1), m >= n
  PROVE  d - k \in Int /\ d - k <= d /\ d - k <= 5 * (m - 1) /\ d + k \in Int /\ d + k <= 5 * (n + 1 - 1)
  OBVIOUS

LEMMA DepthGrown ==
  ASSUME NEW d \in Int, NEW n \in Nat, NEW k \in 0..5, d <= 5 * (n - 1), NEW e, e = d + k, NEW m, m = n + 1
  PROVE  e \in Int /\ e <= 5 * (m - 1)
  OBVIOUS

\* A parser's type; the tokens it has read pay for its frames, five each.
ParserOK(p) ==
  /\ IsParser(p) /\ p.at \in Places \cup Stops
  /\ p.calls \in Seq(CallTokens) /\ p.lefts \in Seq(Held(p)) /\ Len(p.lefts) = Len(p.calls)
  /\ p.next \in Nat \ {0} /\ p.next <= Len(rule) + 1
  /\ p.depth \in Int /\ p.depth <= MaxDepth /\ p.depth <= 5 * (p.next - 1)
  /\ p.at = "items" => p.calls # <<>>

LEMMA MovesOK ==
  ASSUME NEW p, ParserOK(p), NEW f, NEW q, Moves(p, q, Peek(p), f), rule \in Seq(Tokens)
  PROVE  ParserOK(q)
  <1> DEFINE t == Peek(p)
  <1>0. /\ p.at \in Places \cup Stops
        /\ p.calls \in Seq(CallTokens) /\ p.lefts \in Seq(Held(p)) /\ Len(p.lefts) = Len(p.calls)
        /\ p.next \in Nat \ {0} /\ p.next <= Len(rule) + 1
        /\ p.depth \in Int /\ p.depth <= MaxDepth /\ p.depth <= 5 * (p.next - 1)
        /\ p.at = "items" => p.calls # <<>>
        /\ Len(rule) \in Nat /\ IsParser(q)
    BY DEF ParserOK, Moves
  <1>1. Eats(p, q, t) => q.next \in Nat \ {0} /\ q.next <= Len(rule) + 1 /\ q.next = p.next + 1
    <2>1. t # End => p.next <= Len(rule)
      BY DEF Peek
    <2> HIDE DEF t
    <2> SUFFICES ASSUME q.next = p.next + 1, t # End
                 PROVE  q.next \in Nat \ {0} /\ q.next <= Len(rule) + 1 /\ q.next = p.next + 1
      BY DEF Eats
    <2> QED BY <1>0, <2>1
  <1>2. Places \subseteq Places \cup Stops /\ "items" \notin Stops
    BY DEF Stops
  <1> HIDE DEF t
  <1>3. CASE Stays(p, q, t)
    <2>1. q.calls = p.calls /\ q.lefts = p.lefts /\ q.next = p.next /\ q.depth = p.depth
          /\ q.at \in Places \cup Stops /\ q.at # "items"
      BY <1>2, <1>3 DEF Stays
    <2>2. q.lefts \in Seq(Held(q))
      BY <1>0, <2>1, HeldIs
    <2> QED BY <1>0, <2>1, <2>2 DEF ParserOK
  <1>4. CASE Finds(p, q, t)
    <2>1. q.calls = p.calls /\ q.lefts = p.lefts /\ q.depth = p.depth
          /\ q.at \in Places \cup Stops /\ q.at # "items"
      BY <1>2, <1>4 DEF Finds, Places
    <2>2. q.lefts \in Seq(Held(q))
      BY <1>0, <2>1, HeldIs
    <2>3. q.next \in Nat \ {0} /\ q.next <= Len(rule) + 1 /\ q.next = p.next + 1
      BY <1>1, <1>4 DEF Finds
    <2>4. q.depth \in Int /\ q.depth <= MaxDepth /\ q.depth <= 5 * (q.next - 1)
      BY <1>0, <2>1, <2>3
    <2>5. q.calls \in Seq(CallTokens) /\ Len(q.lefts) = Len(q.calls)
      BY <1>0, <2>1
    <2> QED BY <1>0, <2>1, <2>2, <2>3, <2>4, <2>5 DEF ParserOK
  <1>5. ASSUME NEW call, NEW left, Enters(p, q, t, call, left) PROVE ParserOK(q)
    <2>1. q.calls = <<call>> \o p.calls /\ q.lefts = <<left>> \o p.lefts /\ call \in CallTokens
          /\ q.depth = p.depth + Frames(call) /\ q.depth <= MaxDepth /\ q.at \in Places \cup Stops
      BY <1>2, <1>5 DEF Enters
    <2>2. q.next \in Nat \ {0} /\ q.next <= Len(rule) + 1 /\ q.next = p.next + 1
      BY <1>1, <1>5 DEF Enters
    <2>3. Frames(call) \in 0..5
      BY DEF Frames
    <2>4. q.lefts \in Seq(Held(p) \cup {left}) /\ Len(q.lefts) = Len(p.lefts) + 1
      <3>1. p.lefts \in Seq(Held(p)) /\ q.lefts = <<left>> \o p.lefts
        BY <1>0, <2>1
      <3> QED BY <3>1, PushIs
    <2>5. q.calls \in Seq(CallTokens \cup {call}) /\ Len(q.calls) = Len(p.calls) + 1
      <3>1. p.calls \in Seq(CallTokens) /\ q.calls = <<call>> \o p.calls
        BY <1>0, <2>1
      <3> QED BY <3>1, PushIs
    <2>6. CallTokens \cup {call} = CallTokens
      BY <2>1
    <2>7. q.lefts \in Seq(Held(q))
      BY <2>4, HeldIs
    <2>8. q.calls \in Seq(CallTokens) /\ q.calls # <<>> /\ Len(q.lefts) = Len(q.calls)
      BY <1>0, <2>4, <2>5, <2>6
    <2>9. q.depth \in Int /\ q.depth <= 5 * (q.next - 1)
      BY <1>0, <2>1, <2>2, <2>3, DepthGrown
    <2> HIDE DEF Places, Stops, CallTokens
    <2> QED BY <1>0, <2>1, <2>2, <2>7, <2>8, <2>9 DEF ParserOK
  <1>6. CASE Leaves(p, q, t)
    <2>1. /\ p.calls # <<>> /\ q.calls = Tail(p.calls) /\ q.lefts = Tail(p.lefts)
          /\ q.depth = p.depth - Frames(Call(p))
          /\ q.at \in Places \cup Stops /\ q.at # "items"
      BY <1>6 DEF Leaves
    <2>2. q.next \in Nat \ {0} /\ q.next <= Len(rule) + 1 /\ q.next >= p.next
      BY <1>0, <1>1, <1>6 DEF Leaves
    <2>3. Frames(Call(p)) \in 0..5
      BY DEF Frames
    <2>4. q.calls \in Seq(CallTokens) /\ Len(q.calls) = Len(p.calls) - 1 /\ Len(p.calls) \in Nat \ {0}
      BY <1>0, <2>1, PopIs
    <2>5. p.lefts # <<>>
      BY <1>0, <2>4
    <2>6. q.lefts \in Seq(Held(p)) /\ Len(q.lefts) = Len(p.lefts) - 1
      BY <1>0, <2>1, <2>5, PopIs
    <2>7. q.lefts \in Seq(Held(q))
      BY <2>6, HeldIs
    <2>8. q.depth \in Int /\ q.depth <= MaxDepth /\ q.depth <= 5 * (q.next - 1)
      <3>1. /\ p.depth - Frames(Call(p)) \in Int /\ p.depth - Frames(Call(p)) <= p.depth
            /\ p.depth - Frames(Call(p)) <= 5 * (q.next - 1)
        BY <1>0, <2>2, <2>3, DepthBound
      <3> QED BY <1>0, <2>1, <3>1, RuleAssumption
    <2> HIDE DEF Places, Stops, CallTokens
    <2> QED BY <1>0, <2>1, <2>2, <2>4, <2>6, <2>7, <2>8 DEF ParserOK
  <1>7. ASSUME NEW left, Keeps(p, q, t, left) PROVE ParserOK(q)
    <2>1. /\ p.calls # <<>> /\ q.calls = p.calls /\ q.lefts = <<left>> \o Tail(p.lefts)
          /\ q.depth = p.depth
          /\ q.at \in Places \cup Stops /\ q.at # "items"
      BY <1>7 DEF Keeps
    <2>2. q.next \in Nat \ {0} /\ q.next <= Len(rule) + 1 /\ q.next = p.next + 1
      BY <1>1, <1>7 DEF Keeps
    <2>3. p.lefts # <<>>
      BY <1>0, <2>1
    <2>4. Tail(p.lefts) \in Seq(Held(p)) /\ Len(Tail(p.lefts)) = Len(p.lefts) - 1
          /\ Len(p.lefts) \in Nat \ {0}
      BY <1>0, <2>3, PopIs
    <2>5. q.lefts \in Seq(Held(p) \cup {left}) /\ Len(q.lefts) = Len(Tail(p.lefts)) + 1
      BY <2>1, <2>4, PushIs
    <2>6. q.lefts \in Seq(Held(q))
      BY <2>5, HeldIs
    <2>7. q.depth <= 5 * (q.next - 1)
      <3>1. 0 \in 0..5 /\ q.depth = p.depth + 0
        BY <1>0, <2>1
      <3> QED BY <1>0, <2>2, <3>1, DepthGrown
    <2>8. Len(q.lefts) = Len(q.calls)
      BY <1>0, <2>1, <2>4, <2>5
    <2> HIDE DEF Places, Stops, CallTokens
    <2> QED BY <1>0, <2>1, <2>2, <2>6, <2>7, <2>8 DEF ParserOK
  <1> QED BY <1>3, <1>4, <1>5, <1>6, <1>7 DEF Moves, t

\* Without a huge literal, no value in a parser is huge.
ModestParser(p) == Modest(p.value) /\ \A v \in Held(p) : Modest(v)

LEMMA PeekModest ==
  ASSUME NEW p, ParserOK(p), rule \in Seq(Tokens), ~HasHugeNumber, NEW f \in Facts, ModestParser(p)
  PROVE  Sighted(p, Peek(p), f)
  <1>1. p.next \in Nat \ {0} /\ p.calls \in Seq(CallTokens) /\ p.lefts \in Seq(Held(p))
        /\ Len(p.lefts) = Len(p.calls)
    BY DEF ParserOK
  <1>2. p.calls # <<>> => Modest(Left(p))
    <2>1. p.calls # <<>> => p.lefts # <<>>
      BY <1>1
    <2>2. p.lefts # <<>> => Head(p.lefts) \in Held(p)
      BY <1>1, PopIs
    <2> QED BY <2>1, <2>2 DEF Left, ModestParser
  <1>3. Peek(p) \in DOMAIN Literal => Modest(Literal[Peek(p)])
    <2> SUFFICES ASSUME Peek(p) \in DOMAIN Literal PROVE Modest(Literal[Peek(p)])
      OBVIOUS
    <2>1. Peek(p) # End
      BY NotEnd
    <2>2. p.next \in DOMAIN rule /\ rule[p.next] = Peek(p)
      BY <1>1, <2>1 DEF Peek
    <2> QED BY <2>2 DEF HasHugeNumber, Modest
  <1>4. Peek(p) \in Fields => Modest(f[Peek(p)])
    BY RuleAssumption DEF Modest
  <1> QED BY <1>2, <1>3, <1>4 DEF Sighted, ModestParser

LEMMA MovesModest ==
  ASSUME NEW p, ParserOK(p), ModestParser(p), NEW t, NEW f, NEW q, Moves(p, q, t, f), Sighted(p, t, f)
  PROVE  ModestParser(q)
  <1>0. /\ p.lefts \in Seq(Held(p)) /\ p.calls \in Seq(CallTokens) /\ Len(p.lefts) = Len(p.calls)
        /\ Modest(q.value) /\ \A v \in Held(p) : Modest(v)
    BY DEF ParserOK, Moves, ModestParser
  <1>1. ASSUME q.lefts = p.lefts PROVE ModestParser(q)
    BY <1>0, <1>1 DEF ModestParser, Held
  <1>2. ASSUME NEW s \in Seq(Held(p)), NEW left, Modest(left), q.lefts = <<left>> \o s PROVE ModestParser(q)
    <2>1. q.lefts \in Seq(Held(p) \cup {left})
      BY <1>2, PushIs
    <2>2. Held(q) \subseteq Held(p) \cup {left}
      BY <2>1, HeldIs
    <2> QED BY <1>0, <1>2, <2>2 DEF ModestParser
  <1>3. p.calls # <<>> => Tail(p.lefts) \in Seq(Held(p))
    <2>1. p.calls # <<>> => p.lefts # <<>>
      BY <1>0
    <2> QED BY <1>0, <2>1, PopIs
  <1>4. CASE Stays(p, q, t) \/ Finds(p, q, t)
    BY <1>1, <1>4 DEF Stays, Finds
  <1>5. ASSUME NEW call, NEW left, Enters(p, q, t, call, left), Modest(left) PROVE ModestParser(q)
    BY <1>0, <1>2, <1>5 DEF Enters
  <1>6. CASE Leaves(p, q, t)
    <2>1. q.lefts \in Seq(Held(p))
      BY <1>3, <1>6 DEF Leaves
    <2>2. Held(q) \subseteq Held(p)
      BY <2>1, HeldIs
    <2> QED BY <1>0, <2>2 DEF ModestParser
  <1>7. ASSUME NEW left, Keeps(p, q, t, left), Modest(left) PROVE ModestParser(q)
    BY <1>2, <1>3, <1>7 DEF Keeps
  <1> QED BY <1>4, <1>5, <1>6, <1>7 DEF Moves

NoMatches(calls) == \A i \in DOMAIN calls : calls[i] # "matches"

\* The pattern of the innermost "matches" is next, or has been found and is
\* that of a literal.
AtPattern(p) ==
  /\ p.next > 1
  /\ \/ p.at = "primary" /\ rule[p.next - 1] = "matches"
     \/ /\ p.at = "after primary" /\ rule[p.next - 1] \in DOMAIN Literal
        /\ p.value = Literal[rule[p.next - 1]]

\* Without a pattern that is no literal, "matches" is pending only while its
\* pattern is read, and then innermost.
PatternHeld(p) ==
  p.at \notin Stops =>
    \/ NoMatches(p.calls)
    \/ AtPattern(p) /\ p.calls # <<>> /\ Head(p.calls) = "matches" /\ NoMatches(Tail(p.calls))

LEMMA CalmMatches ==
  ASSUME NEW p, PatternHeld(p), Calm(p), p.at \notin Stops
  PROVE  NoMatches(p.calls)
  BY DEF PatternHeld, Calm, AtPattern, Call, Relations, TextOperators

LEMMA PushMatches ==
  ASSUME NEW S, NEW calls \in Seq(S), NEW call, NoMatches(calls)
  PROVE  /\ call # "matches" => NoMatches(<<call>> \o calls)
         /\ <<call>> \o calls # <<>> /\ Head(<<call>> \o calls) = call /\ Tail(<<call>> \o calls) = calls
  <1>1. call # "matches" => NoMatches(<<call>> \o calls)
    BY PushIs DEF NoMatches
  <1>2. <<call>> \o calls # <<>> /\ Head(<<call>> \o calls) = call
    BY PushIs
  <1>3. Tail(<<call>> \o calls) = calls
    OBVIOUS
  <1> QED BY <1>1, <1>2, <1>3

LEMMA PopMatches ==
  ASSUME NEW S, NEW calls \in Seq(S), calls # <<>>, NoMatches(calls)
  PROVE  NoMatches(Tail(calls))
  BY PopIs DEF NoMatches

LEMMA MovesPattern ==
  ASSUME NEW p, ParserOK(p), p.at \notin Stops, PatternHeld(p), rule \in Seq(Tokens), ~HasPatternFound,
         NEW f, NEW q, Moves(p, q, Peek(p), f)
  PROVE  PatternHeld(q)
  <1> DEFINE t == Peek(p)
  <1>0. p.next \in Nat \ {0} /\ p.calls \in Seq(CallTokens)
    BY DEF ParserOK
  <1>1. t # End => p.next \in 1..Len(rule) /\ rule[p.next] = t
    BY <1>0 DEF Peek
  <1>2. Calm(p) => NoMatches(p.calls)
    BY CalmMatches
  <1>3. ASSUME p.at = "primary", t # End, t \notin DOMAIN Literal PROVE NoMatches(p.calls)
    <2>1. ASSUME AtPattern(p) PROVE FALSE
      <3>1. p.next - 1 \in DOMAIN rule \ {Len(rule)} /\ rule[p.next - 1] = "matches"
            /\ rule[p.next - 1 + 1] \notin DOMAIN Literal
        BY <1>0, <1>1, <1>3, <2>1 DEF AtPattern
      <3> QED BY <3>1 DEF HasPatternFound
    <2> QED BY <2>1 DEF PatternHeld
  <1> HIDE DEF t
  <1>4. CASE Stays(p, q, t)
    BY <1>2, <1>4 DEF Stays, PatternHeld
  <1>5. CASE Finds(p, q, t)
    <2>1. CASE NoMatches(p.calls)
      BY <1>5, <2>1 DEF Finds, PatternHeld
    <2>2. CASE ~NoMatches(p.calls)
      <3>1. /\ p.calls # <<>> /\ Head(p.calls) = "matches" /\ NoMatches(Tail(p.calls))
            /\ AtPattern(p)
        BY <2>2 DEF PatternHeld
      <3>2. t # End /\ p.at = "primary" /\ q.at = "after primary" /\ q.next = p.next + 1 /\ q.calls = p.calls
        BY <1>5 DEF Finds, Eats
      <3>3. t \in DOMAIN Literal
        BY <1>3, <2>2, <3>2
      <3>4. q.value = Literal[t] /\ rule[q.next - 1] = t /\ q.next > 1
        <4>1. q.value = Literal[t]
          BY <1>5, <3>3 DEF Finds
        <4>2. q.next - 1 = p.next /\ q.next > 1
          <5>1. q.next = p.next + 1 /\ p.next \in Nat \ {0}
            BY <1>0, <3>2
          <5>2. \A n \in Nat \ {0} : n + 1 - 1 = n /\ n + 1 > 1
            OBVIOUS
          <5> QED BY <5>1, <5>2
        <4> QED BY <1>1, <3>2, <4>1, <4>2
      <3>5. AtPattern(q)
        BY <3>2, <3>3, <3>4 DEF AtPattern
      <3> QED BY <3>1, <3>2, <3>5 DEF PatternHeld
    <2> QED BY <2>1, <2>2
  <1>6. ASSUME NEW call, NEW left, Enters(p, q, t, call, left) PROVE PatternHeld(q)
    <2>1. q.calls = <<call>> \o p.calls /\ t # End /\ q.next = p.next + 1
      BY <1>6 DEF Enters, Eats
    <2>2. NoMatches(p.calls)
      BY <1>2, <1>3, <1>6, <2>1 DEF Enters
    <2>3. CASE call # "matches"
      BY <1>0, <2>1, <2>2, <2>3, PushMatches DEF PatternHeld
    <2>4. CASE call = "matches"
      <3>1. t = "matches" /\ q.at = "primary"
        BY <1>6, <2>4 DEF Enters
      <3>2. q.next > 1 /\ rule[q.next - 1] = "matches"
        BY <1>0, <1>1, <2>1, <3>1
      <3>3. AtPattern(q)
        BY <3>1, <3>2 DEF AtPattern
      <3>4. q.calls # <<>> /\ Head(q.calls) = "matches" /\ Tail(q.calls) = p.calls
        BY <1>0, <2>1, <2>2, <2>4, PushMatches
      <3> QED BY <2>2, <3>3, <3>4 DEF PatternHeld
    <2> QED BY <2>3, <2>4
  <1>7. CASE Leaves(p, q, t)
    <2>1. p.calls # <<>> /\ q.calls = Tail(p.calls)
      BY <1>7 DEF Leaves
    <2>2. NoMatches(Tail(p.calls))
      BY <1>0, <2>1, PopMatches DEF PatternHeld
    <2> QED BY <2>1, <2>2 DEF PatternHeld
  <1>8. ASSUME NEW left, Keeps(p, q, t, left) PROVE PatternHeld(q)
    BY <1>2, <1>8 DEF Keeps, PatternHeld
  <1> QED BY <1>4, <1>5, <1>6, <1>7, <1>8 DEF Moves, t

\* A parser only runs out of stack on a rule that has a token for every five
\* frames.
DeepEnough(p) == p.at = "exhausted" => 5 * Len(rule) > MaxDepth

LEMMA FewTokensFit ==
  ASSUME NEW d \in Int, NEW n \in Nat, NEW k \in Nat, NEW m \in Nat, d <= 5 * (n - 1), n <= k, d + 5 > m
  PROVE  5 * k > m
  OBVIOUS

LEMMA MovesDeep ==
  ASSUME NEW p, ParserOK(p), DeepEnough(p), rule \in Seq(Tokens), NEW f, NEW q, Moves(p, q, Peek(p), f)
  PROVE  DeepEnough(q)
  <1> SUFFICES ASSUME q.at = "exhausted" PROVE 5 * Len(rule) > MaxDepth
    BY DEF DeepEnough
  <1> DEFINE t == Peek(p)
  <1>1. /\ p.next \in Nat \ {0} /\ p.depth \in Int /\ p.depth <= 5 * (p.next - 1)
        /\ Len(rule) \in Nat /\ MaxDepth \in Nat
    BY RuleAssumption DEF ParserOK
  <1>2. t # End => p.next <= Len(rule)
    BY <1>1 DEF Peek
  <1> HIDE DEF t
  <1>3. q.at \notin Places
    BY DEF Places
  <1>4. Stays(p, q, t)
    BY <1>3 DEF Moves, Finds, Enters, Leaves, Keeps, Places, t
  <1>5. Hurts(p, "exhausted", t)
    BY <1>3, <1>4 DEF Stays
  <1>6. CASE p.at = "exhausted"
    BY <1>6 DEF DeepEnough
  <1>7. CASE p.at # "exhausted"
    <2>1. p.depth + 5 > MaxDepth /\ p.next <= Len(rule)
      BY <1>2, <1>5, <1>7 DEF Hurts
    <2> QED BY <1>1, <2>1, FewTokensFit
  <1> QED BY <1>6, <1>7

-----------------------------------------------------------------------------
(* The invariant of the parsers that read one rule side by side.           *)

RuleOK ==
  /\ rule \in Seq(Tokens) /\ whole \in BOOLEAN
  /\ parser = [f \in Facts |-> parser[f]]
  /\ \A f \in Facts : ParserOK(parser[f]) /\ DeepEnough(parser[f])

\* Parsers that no operator has stopped are in step.
ReadAlike == \A f, g \in Facts : Unhurt(parser[f]) /\ Unhurt(parser[g]) => Same(parser[f], parser[g])

\* What it takes for an operator to stop one parser and not another.
HurtBy ==
  /\ ~HasHugeNumber => \A f \in Facts : ModestParser(parser[f])
  /\ ~HasPatternFound => \A f \in Facts : PatternHeld(parser[f])
  /\ ~HasHugeNumber => \A f \in Facts : parser[f].at # "overflowed"
  /\ ~HasHugeNumber /\ ~HasPatternFound => \A f, g \in Facts : Same(parser[f], parser[g])

RuleInv == RuleOK /\ ReadAlike /\ HurtBy

LEMMA BuiltinTokens == BuiltinRules \subseteq Seq(Tokens)
  <1>1. {"payload", "amount", "3", "exe", "and", "or", "(", ")", "matches", "contains",
         ">", "<", "==", "!="} \subseteq Tokens
    BY RuleAssumption DEF Tokens, Punctuation, Relations, Comparisons, TextOperators
  <1> HIDE DEF Tokens
  <1> QED BY <1>1 DEF BuiltinRules

LEMMA FreshOK == IsParser(Fresh) /\ Modest(Fresh.value) /\ Fresh.lefts = <<>> /\ Fresh.calls = <<>>
                 /\ Fresh.next = 1 /\ Fresh.depth = 0 /\ Fresh.at = "start"
  BY MadeModest DEF Fresh, IsParser, Parsers

LEMMA RuleInitInv == RuleInit => RuleInv
  <1> SUFFICES ASSUME RuleInit PROVE RuleInv
    OBVIOUS
  <1>1. /\ rule \in Seq(Tokens) /\ whole \in BOOLEAN
        /\ parser = [f \in Facts |-> Fresh]
    <2>1. <<>> \in Seq(Tokens)
      OBVIOUS
    <2> HIDE DEF BuiltinRules, Fresh, Tokens
    <2> QED BY <2>1, BuiltinTokens DEF RuleInit
  <1>2. \A f \in Facts : parser[f] = Fresh
    BY <1>1
  <1>3. Held(Fresh) = {} /\ <<>> \in Seq(CallTokens) /\ <<>> \in Seq(Held(Fresh))
    BY FreshOK DEF Held
  <1>4. ParserOK(Fresh)
    BY <1>1, <1>3, FreshOK, RuleAssumption DEF ParserOK, Places
  <1>5. RuleOK
    BY <1>1, <1>2, <1>4, FreshOK DEF RuleOK, DeepEnough
  <1>6. ModestParser(Fresh) /\ PatternHeld(Fresh) /\ Same(Fresh, Fresh)
    BY <1>3, FreshOK DEF ModestParser, PatternHeld, NoMatches, Same
  <1> QED BY <1>2, <1>5, <1>6, FreshOK DEF RuleInv, ReadAlike, HurtBy

LEMMA RuleGrows ==
  ASSUME RuleInv, NEW t \in Tokens, RevealToken(t)
  PROVE  RuleInv'
  <1>1. /\ rule \in Seq(Tokens) /\ rule' \in Seq(Tokens) /\ Len(rule') = Len(rule) + 1 /\ Len(rule) \in Nat
        /\ \A i \in DOMAIN rule : rule'[i] = rule[i] /\ i \in DOMAIN rule'
        /\ whole' = whole /\ parser' = parser
        /\ DOMAIN rule = 1..Len(rule) /\ DOMAIN rule' = 1..Len(rule')
    BY DEF RevealToken, RuleInv, RuleOK
  <1>2. \A f \in Facts : ParserOK(parser[f])
    BY DEF RuleInv, RuleOK
  <1>3. ASSUME NEW f \in Facts PROVE ParserOK(parser[f])'
    <2>1. ParserOK(parser[f])
      BY <1>2
    <2> DEFINE p == parser[f]
    <2> HIDE DEF p
    <2>2. p.next \in Nat /\ p.next <= Len(rule) + 1 => p.next <= Len(rule') + 1
      BY <1>1
    <2>3. (p = parser[f])'
      BY <1>1 DEF p
    <2> QED BY <1>1, <2>1, <2>2 DEF ParserOK, p
  <1>4. RuleOK'
    <2>1. MaxDepth \in Nat /\ \A f \in Facts : DeepEnough(parser[f])
      BY RuleAssumption DEF RuleInv, RuleOK
    <2>2. ASSUME NEW f \in Facts PROVE DeepEnough(parser[f])'
      BY <1>1, <2>1 DEF DeepEnough
    <2> QED BY <1>1, <1>3, <2>2 DEF RuleOK, RuleInv
  <1>5. ReadAlike'
    BY <1>1 DEF RuleInv, ReadAlike
  <1>6. HasHugeNumber => HasHugeNumber'
    BY <1>1 DEF HasHugeNumber
  <1>7. HasPatternFound => HasPatternFound'
    <2> SUFFICES ASSUME NEW i \in DOMAIN rule \ {Len(rule)}, rule[i] = "matches",
                        rule[i + 1] \notin DOMAIN Literal
                 PROVE  HasPatternFound'
      BY DEF HasPatternFound
    <2>1. i \in DOMAIN rule' \ {Len(rule')} /\ i + 1 \in DOMAIN rule
      BY <1>1
    <2> QED BY <1>1, <2>1 DEF HasPatternFound
  <1>8. ASSUME NEW f \in Facts, PatternHeld(parser[f]) PROVE PatternHeld(parser[f])'
    <2>1. parser[f].next \in Nat \ {0} /\ parser[f].next <= Len(rule) + 1
      BY <1>2 DEF ParserOK
    <2>2. parser[f].next > 1 => parser[f].next - 1 \in DOMAIN rule
      BY <1>1, <2>1
    <2>3. AtPattern(parser[f]) => AtPattern(parser[f])'
      BY <1>1, <2>2 DEF AtPattern
    <2> QED BY <1>1, <1>8, <2>3 DEF PatternHeld
  <1>9. HurtBy'
    <2>1. HurtBy /\ parser' = parser
      BY <1>1 DEF RuleInv
    <2>2. ~HasHugeNumber' => \A f \in Facts : ModestParser(parser[f])'
      BY <1>6, <2>1 DEF HurtBy, ModestParser, Held
    <2>3. ~HasPatternFound' => \A f \in Facts : PatternHeld(parser[f])'
      BY <1>7, <1>8, <2>1 DEF HurtBy
    <2>4. ~HasHugeNumber' => \A f \in Facts : parser'[f].at # "overflowed"
      BY <1>6, <2>1 DEF HurtBy
    <2>5. ~HasHugeNumber' /\ ~HasPatternFound' => \A f, g \in Facts : Same(parser[f], parser[g])'
      BY <1>6, <1>7, <2>1 DEF HurtBy, Same, Control, IsParser
    <2> QED BY <2>2, <2>3, <2>4, <2>5 DEF HurtBy
  <1> QED BY <1>4, <1>5, <1>9 DEF RuleInv

\* Modest values do not overflow.
LEMMA NeverOverflows ==
  ASSUME NEW p, ParserOK(p), ModestParser(p), p.at # "overflowed", NEW t, NEW f
  PROVE  Step(p, t, f).at # "overflowed"
  <1> DEFINE q == Step(p, t, f)
  <1>1. Moves(p, q, t, f)
    BY StepMoves DEF ParserOK
  <1> HIDE DEF q
  <1> SUFFICES ASSUME q.at = "overflowed" PROVE FALSE
    BY DEF q
  <1>2. q.at \notin Places
    BY DEF Places
  <1>3. Stays(p, q, t)
    BY <1>1, <1>2 DEF Moves, Finds, Enters, Leaves, Keeps, Places
  <1>4. Hurts(p, "overflowed", t)
    BY <1>2, <1>3 DEF Stays
  <1>5. Call(p) \in Relations /\ Overflows(Call(p), Left(p), p.value)
    BY <1>4 DEF Hurts
  <1>6. p.calls # <<>> /\ p.lefts \in Seq(Held(p)) /\ Len(p.lefts) = Len(p.calls) /\ p.calls \in Seq(CallTokens)
    BY <1>5, Called DEF ParserOK, Relations, Comparisons, TextOperators
  <1>7. p.lefts # <<>>
    BY <1>6
  <1>8. Modest(Left(p)) /\ Modest(p.value)
    BY <1>6, <1>7, PopIs DEF Left, ModestParser
  <1> QED BY <1>5, <1>8 DEF Overflows, Modest

\* Where patterns are literals, a bad one stops every parser.
LEMMA BadTogether ==
  ASSUME NEW p, NEW q, Same(p, q), PatternHeld(p), PatternHeld(q), p.at \notin Stops,
         NEW t, NEW f, NEW g, ParserOK(p), Step(p, t, f).at = "badPattern"
  PROVE  /\ Step(p, t, f) = Go(p, "badPattern") /\ Step(q, t, g) = Go(q, "badPattern")
         /\ Same(Step(p, t, f), Step(q, t, g))
  <1> DEFINE r == Step(p, t, f)
  <1>1. Moves(p, r, t, f)
    BY StepMoves DEF ParserOK
  <1>2. r.at = "badPattern"
    OBVIOUS
  <1> HIDE DEF r
  <1>3. r.at \notin Places
    BY <1>2 DEF Places
  <1>4. Stays(p, r, t)
    BY <1>1, <1>3 DEF Moves, Finds, Enters, Leaves, Keeps, Places
  <1>5. Hurts(p, "badPattern", t)
    BY <1>2, <1>3, <1>4 DEF Stays
  <1>6. /\ p.at = "after primary" /\ Call(p) \in Relations /\ Invalid(Call(p), p.value)
    BY <1>5 DEF Hurts, Stops
  <1>7. /\ q.at = p.at /\ Call(q) = Call(p) /\ q.next = p.next /\ q.calls = p.calls
    BY SameFields, SameCall
  <1>8. Call(p) = "matches" /\ p.calls # <<>> /\ Head(p.calls) = "matches"
    BY <1>6 DEF Invalid, Call
  <1>9. ~NoMatches(p.calls)
    <2>1. p.calls \in Seq(CallTokens)
      BY DEF ParserOK
    <2>2. p.calls[1] = "matches" /\ 1 \in DOMAIN p.calls
      BY <1>8, <2>1, PopIs
    <2> QED BY <2>2 DEF NoMatches
  <1>10. AtPattern(p) /\ AtPattern(q)
    BY <1>6, <1>7, <1>9 DEF PatternHeld
  <1>11. p.value = q.value
    BY <1>6, <1>7, <1>10 DEF AtPattern
  <1>12. Step(p, t, f) = Go(p, "badPattern")
    <2>1. Step(p, t, f) = AfterPrimary(p, t)
      BY <1>6, StepIs
    <2>2. AfterPrimary(p, t) = Compared(p, Call(p))
      BY <1>8 DEF AfterPrimary, Relations, TextOperators
    <2>3. ~Overflows(Call(p), Left(p), p.value)
      BY <1>8 DEF Overflows, Comparisons
    <2> QED BY <1>6, <2>1, <2>2, <2>3 DEF Compared
  <1>13. Step(q, t, g) = Go(q, "badPattern")
    <2>1. Step(q, t, g) = AfterPrimary(q, t)
      BY <1>6, <1>7 DEF Step, Stops
    <2>2. AfterPrimary(q, t) = Compared(q, Call(q))
      BY <1>7, <1>8 DEF AfterPrimary, Relations, TextOperators
    <2>3. ~Overflows(Call(q), Left(q), q.value) /\ Invalid(Call(q), q.value)
      BY <1>6, <1>7, <1>8, <1>11 DEF Overflows, Comparisons
    <2> QED BY <2>1, <2>2, <2>3 DEF Compared
  <1> QED BY <1>12, <1>13, SameGo

LEMMA SameUnderInv ==
  ASSUME NEW p, NEW q, Same(p, q), ParserOK(p), ParserOK(q), PatternHeld(p), PatternHeld(q),
         ModestParser(p), ModestParser(q), NEW t, NEW f, NEW g
  PROVE  Same(Step(p, t, f), Step(q, t, g))
  <1>1. q.at = p.at /\ p.at \in Places \cup Stops
    BY SameFields DEF ParserOK
  <1>2. CASE p.at \in Stops
    <2>1. Step(p, t, f) = p
      BY <1>2, StepIs
    <2>2. Step(q, t, g) = q
      BY <1>1, <1>2 DEF Step, Stops
    <2> QED BY <2>1, <2>2
  <1>3. CASE p.at \notin Stops
    <2>1. Same(q, p)
      BY SameFields
    <2>2. Step(p, t, f).at # "overflowed" /\ Step(q, t, g).at # "overflowed"
      <3>1. p.at # "overflowed" /\ q.at # "overflowed"
        BY <1>1, <1>3 DEF Stops
      <3>2. Step(p, t, f).at # "overflowed"
        BY <3>1, NeverOverflows
      <3>3. Step(q, t, g).at # "overflowed"
        BY <3>1, NeverOverflows
      <3> QED BY <3>2, <3>3
    <2>3. CASE Step(p, t, f).at = "badPattern"
      BY <1>3, <2>3, BadTogether
    <2>4. CASE Step(q, t, g).at = "badPattern"
      <3>1. Same(Step(q, t, g), Step(p, t, f))
        BY <1>1, <1>3, <2>1, <2>4, BadTogether
      <3> QED BY <3>1, SameFields
    <2>5. CASE Step(p, t, f).at # "badPattern" /\ Step(q, t, g).at # "badPattern"
      BY <1>1, <2>2, <2>5, SameStep DEF Unhurt
    <2> QED BY <2>3, <2>4, <2>5
  <1> QED BY <1>2, <1>3

LEMMA RuleAdvances ==
  ASSUME RuleInv, Advance
  PROVE  RuleInv'
  <1>1. /\ rule' = rule /\ whole' = whole /\ rule \in Seq(Tokens) /\ whole \in BOOLEAN
        /\ parser' = [f \in Facts |-> Step(parser[f], Peek(parser[f]), f)]
        /\ \A f \in Facts : ParserOK(parser[f])
    BY DEF Advance, RuleInv, RuleOK
  <1>2. \A f \in Facts : parser'[f] = Step(parser[f], Peek(parser[f]), f)
    BY <1>1
  <1>3. /\ HasHugeNumber' <=> HasHugeNumber
        /\ HasPatternFound' <=> HasPatternFound
    BY <1>1 DEF HasHugeNumber, HasPatternFound
  <1>4. \A f \in Facts : Moves(parser[f], parser'[f], Peek(parser[f]), f)
    BY <1>1, <1>2, StepMoves DEF ParserOK
  <1>5. \A f \in Facts : ParserOK(parser'[f])
    BY <1>1, <1>4, MovesOK
  <1>6. RuleOK'
    <2>1. ASSUME NEW f \in Facts PROVE ParserOK(parser[f])'
      BY <1>1, <1>5 DEF ParserOK
    <2>2. (parser = [f \in Facts |-> parser[f]])'
      BY <1>1
    <2>3. \A f \in Facts : DeepEnough(parser'[f])
      BY <1>1, <1>4, MovesDeep DEF RuleInv, RuleOK
    <2>4. ASSUME NEW f \in Facts PROVE DeepEnough(parser[f])'
      BY <1>1, <2>3 DEF DeepEnough
    <2> QED BY <1>1, <2>1, <2>2, <2>4 DEF RuleOK
  <1>7. ReadAlike'
    <2> SUFFICES ASSUME NEW f \in Facts, NEW g \in Facts, Unhurt(parser'[f]), Unhurt(parser'[g])
                 PROVE  Same(parser'[f], parser'[g])
      BY DEF ReadAlike, Unhurt, Same, Control, IsParser
    <2>1. \A h \in Facts : parser[h].at \in Stops => parser'[h] = parser[h]
      BY <1>2 DEF Step, Stops
    <2>2. Unhurt(parser[f]) /\ Unhurt(parser[g])
      BY <2>1 DEF Unhurt, Stops
    <2>3. Same(parser[f], parser[g])
      BY <2>2 DEF RuleInv, ReadAlike
    <2>4. Peek(parser[f]) = Peek(parser[g])
      BY <2>3, SameFields DEF Peek
    <2>5. parser[f].at \in Places \cup Stops
      BY <1>1 DEF ParserOK
    <2> QED BY <1>2, <2>3, <2>4, <2>5, SameStep
  <1>8. ASSUME ~HasHugeNumber, NEW f \in Facts
        PROVE  ModestParser(parser'[f]) /\ parser'[f].at # "overflowed"
    <2>1. ModestParser(parser[f]) /\ parser[f].at # "overflowed" /\ ParserOK(parser[f])
      BY <1>1, <1>8 DEF RuleInv, HurtBy
    <2>2. Sighted(parser[f], Peek(parser[f]), f)
      BY <1>1, <1>8, <2>1, PeekModest
    <2>3. ModestParser(parser'[f])
      BY <1>4, <2>1, <2>2, MovesModest
    <2>4. parser'[f].at # "overflowed"
      BY <1>2, <2>1, NeverOverflows
    <2> QED BY <2>3, <2>4
  <1>9. ASSUME ~HasPatternFound, NEW f \in Facts PROVE PatternHeld(parser'[f])
    <2>1. PatternHeld(parser[f]) /\ ParserOK(parser[f])
      BY <1>1, <1>9 DEF RuleInv, HurtBy
    <2>2. CASE parser[f].at \in Stops
      <3>1. parser'[f] = parser[f]
        BY <1>2, <2>2 DEF Step, Stops
      <3> QED BY <2>1, <3>1
    <2>3. CASE parser[f].at \notin Stops
      BY <1>1, <1>4, <1>9, <2>1, <2>3, MovesPattern
    <2> QED BY <2>2, <2>3
  <1>10. ASSUME ~HasHugeNumber, ~HasPatternFound, NEW f \in Facts, NEW g \in Facts
         PROVE  Same(parser'[f], parser'[g])
    <2>1. Same(parser[f], parser[g])
      BY <1>10 DEF RuleInv, HurtBy
    <2>2. /\ ParserOK(parser[f]) /\ ParserOK(parser[g])
          /\ PatternHeld(parser[f]) /\ PatternHeld(parser[g])
          /\ ModestParser(parser[f]) /\ ModestParser(parser[g])
      BY <1>1, <1>10 DEF RuleInv, HurtBy
    <2>3. Peek(parser[f]) = Peek(parser[g])
      BY <2>1, SameFields DEF Peek
    <2> QED BY <1>2, <2>1, <2>2, <2>3, SameUnderInv
  <1>11. HurtBy'
    <2>1. \A f \in Facts : PatternHeld(parser'[f]) => PatternHeld(parser[f])'
      BY <1>1 DEF PatternHeld, AtPattern
    <2> QED BY <1>3, <1>8, <1>9, <1>10, <2>1
         DEF HurtBy, ModestParser, Held, Same, Control, IsParser
  <1> QED BY <1>6, <1>7, <1>11 DEF RuleInv

LEMMA RuleStep == RuleInv /\ [RuleNext]_ruleVars => RuleInv'
  <1> SUFFICES ASSUME RuleInv, [RuleNext]_ruleVars PROVE RuleInv'
    OBVIOUS
  <1>1. ASSUME UNCHANGED <<rule, parser>>, whole' \in BOOLEAN PROVE RuleInv'
    <2>1. RuleOK'
      BY <1>1 DEF RuleInv, RuleOK, ParserOK, DeepEnough
    <2>2. ReadAlike'
      BY <1>1 DEF RuleInv, ReadAlike
    <2>3. HurtBy'
      BY <1>1 DEF RuleInv, HurtBy, HasHugeNumber, HasPatternFound, PatternHeld, AtPattern
    <2> QED BY <2>1, <2>2, <2>3 DEF RuleInv
  <1>2. CASE UNCHANGED ruleVars
    BY <1>1, <1>2 DEF ruleVars, RuleInv, RuleOK
  <1>3. CASE RevealEnd
    BY <1>1, <1>3 DEF RevealEnd
  <1>4. CASE Advance
    BY <1>4, RuleAdvances
  <1>5. ASSUME NEW t \in Tokens, RevealToken(t) PROVE RuleInv'
    BY <1>5, RuleGrows
  <1> QED BY <1>2, <1>3, <1>4, <1>5 DEF RuleNext

LEMMA RuleInvariance == RuleSpec => []RuleInv
  BY RuleInitInv, RuleStep, PTL DEF RuleSpec

\* The verdict of validate_expression stands for every event, whatever its
\* fields hold (rules.py:218), with no bound on the rule or the facts.
THEOREM VerdictStands == RuleSpec => []AcceptedOnceIsAcceptedAlways
  <1>1. RuleInv => AcceptedOnceIsAcceptedAlways
    BY SameFields, RuleAssumption DEF RuleInv, HurtBy, AcceptedOnceIsAcceptedAlways
  <1> QED BY <1>1, RuleInvariance, PTL

\* Whatever the facts, parsers that no operator has stopped are at the same
\* place in the rule, in the same calls: "and" and "or" read both sides, and
\* nothing an event holds decides what is read next (rules.py:106-120).
THEOREM FactsDoNotSteer == RuleSpec => []ReadAlike
  BY RuleInvariance, PTL DEF RuleInv

\* A number no float can hold is the only way an accepted rule breaks
\* ingestion: without one, no event overflows or exhausts the stack, not even
\* one whose fields are taken as patterns (rules.py:184, services.py:347).
THEOREM OnlyHugeNumbersBreakIngestion == RuleSpec => [](~HasHugeNumber => NoRuleBreaksIngestion)
  <1>1. RuleInv => (~HasHugeNumber => NoRuleBreaksIngestion)
    <2> SUFFICES ASSUME RuleInv, ~HasHugeNumber, parser[Probe].at = "accepted", NEW f \in Facts
                 PROVE  parser[f].at \notin {"overflowed", "exhausted"}
      BY DEF NoRuleBreaksIngestion
    <2>1. parser[f].at # "overflowed" /\ Probe \in Facts
      BY RuleAssumption DEF RuleInv, HurtBy
    <2>2. ASSUME parser[f].at = "exhausted" PROVE FALSE
      <3>1. Same(parser[f], parser[Probe])
        BY <2>1, <2>2 DEF RuleInv, ReadAlike, Unhurt
      <3> QED BY <2>2, <3>1, SameFields
    <2> QED BY <2>1, <2>2
  <1> QED BY <1>1, RuleInvariance, PTL

\* A rule with fewer tokens than a fifth of the frames that are left never
\* exhausts the stack (rules.py:160-164).
THEOREM ShortRulesFit ==
  RuleSpec => [](\A f \in Facts : parser[f].at = "exhausted" => 5 * Len(rule) > MaxDepth)
  <1>1. RuleInv => \A f \in Facts : parser[f].at = "exhausted" => 5 * Len(rule) > MaxDepth
    BY DEF RuleInv, RuleOK, DeepEnough
  <1> QED BY <1>1, RuleInvariance, PTL

-----------------------------------------------------------------------------
(* The grammar as a set of productions.  <<what, i, j, v>> says that the   *)
(* tokens from i up to but not including j are what that method of the     *)
(* parser reads, and stand for v.                                          *)

\* Numbers, strings, constants, fields; "not" within an operand; parentheses.
DerivesPrimary(D, t, f) ==
  /\ \A i \in DOMAIN t :
       /\ t[i] \in DOMAIN Literal => <<"primary", i, i + 1, Literal[t[i]]>> \in D
       /\ t[i] \in DOMAIN Constant => <<"primary", i, i + 1, Constant[t[i]]>> \in D
       /\ t[i] \in Fields => <<"primary", i, i + 1, f[t[i]]>> \in D
  /\ \A i \in DOMAIN t, j \in Nat : \A v :
       t[i] = "not" /\ <<"primary", i + 1, j, v>> \in D => <<"primary", i, j, Bool(~Truthy(v))>> \in D
  /\ \A i \in DOMAIN t, j \in DOMAIN t : \A v :
       t[i] = "(" /\ <<"or_expr", i + 1, j, v>> \in D /\ t[j] = ")" => <<"primary", i, j + 1, v>> \in D

\* Lists, which hold operands.
DerivesList(D, t) ==
  /\ \A i \in DOMAIN t :
       t[i] = "[" /\ i + 1 \in DOMAIN t /\ t[i + 1] = "]" => <<"primary", i, i + 2, List(<<>>)>> \in D
  /\ \A i \in DOMAIN t, j \in DOMAIN t : \A v :
       t[i] = "[" /\ <<"items", i + 1, j, v>> \in D /\ t[j] = "]" => <<"primary", i, j + 1, v>> \in D
  /\ \A i \in Nat, j \in Nat : \A v :
       <<"primary", i, j, v>> \in D => <<"items", i, j, List(<<Plain(v)>>)>> \in D
  /\ \A i \in Nat, j \in DOMAIN t, k \in Nat : \A w, v :
       <<"items", i, j, w>> \in D /\ t[j] = "," /\ <<"primary", j + 1, k, v>> \in D =>
         <<"items", i, k, List(Append(w.items, Plain(v)))>> \in D

\* One comparison at most, which no operator stops.
DerivesComparison(D, t) ==
  /\ \A i \in Nat, j \in Nat : \A v :
       <<"primary", i, j, v>> \in D => <<"comparison", i, j, v>> \in D
  /\ \A i \in Nat, j \in DOMAIN t, k \in Nat : \A w, v :
       /\ <<"primary", i, j, w>> \in D /\ t[j] \in Relations /\ <<"primary", j + 1, k, v>> \in D
       /\ ~Invalid(t[j], v) /\ ~Overflows(t[j], w, v)
       => <<"comparison", i, k, Apply(t[j], w, v)>> \in D

\* A leading "not" negates all of what follows.
DerivesNot(D, t) ==
  /\ \A i \in DOMAIN t, j \in Nat : \A v :
       t[i] # "not" /\ <<"comparison", i, j, v>> \in D => <<"not_expr", i, j, v>> \in D
  /\ \A i \in DOMAIN t, j \in Nat : \A v :
       t[i] = "not" /\ <<"not_expr", i + 1, j, v>> \in D => <<"not_expr", i, j, Bool(~Truthy(v))>> \in D

\* "and" binds tighter than "or", and both associate to the left.
DerivesAnd(D, t) ==
  /\ \A i \in Nat, j \in Nat : \A v :
       <<"not_expr", i, j, v>> \in D => <<"and_expr", i, j, v>> \in D
  /\ \A i \in Nat, j \in DOMAIN t, k \in Nat : \A w, v :
       <<"and_expr", i, j, w>> \in D /\ t[j] = "and" /\ <<"not_expr", j + 1, k, v>> \in D =>
         <<"and_expr", i, k, Bool(Truthy(w) /\ Truthy(v))>> \in D

DerivesOr(D, t) ==
  /\ \A i \in Nat, j \in Nat : \A v :
       <<"and_expr", i, j, v>> \in D => <<"or_expr", i, j, v>> \in D
  /\ \A i \in Nat, j \in DOMAIN t, k \in Nat : \A w, v :
       <<"or_expr", i, j, w>> \in D /\ t[j] = "or" /\ <<"and_expr", j + 1, k, v>> \in D =>
         <<"or_expr", i, k, Bool(Truthy(w) \/ Truthy(v))>> \in D

\* An empty rule never matches.
DerivesParse(D) ==
  /\ <<"parse", 1, 1, Bool(FALSE)>> \in D
  /\ \A j \in Nat : \A v : <<"or_expr", 1, j, v>> \in D => <<"parse", 1, j, Bool(Truthy(v))>> \in D

\* D holds all that the productions derive, step by step, from the tokens t
\* and the facts f.
Closed(D, t, f) ==
  /\ DerivesPrimary(D, t, f) /\ DerivesList(D, t) /\ DerivesComparison(D, t)
  /\ DerivesNot(D, t) /\ DerivesAnd(D, t) /\ DerivesOr(D, t) /\ DerivesParse(D)

LEMMA ClosedGrows ==
  ASSUME NEW t \in Seq(Tokens), NEW x \in Tokens, NEW D, NEW f, Closed(D, Append(t, x), f)
  PROVE  Closed(D, t, f)
  <1> DEFINE u == Append(t, x)
  <1>1. \A i \in DOMAIN t : i \in DOMAIN u /\ u[i] = t[i]
    OBVIOUS
  <1> HIDE DEF u
  <1>2. /\ DerivesPrimary(D, u, f) /\ DerivesList(D, u) /\ DerivesComparison(D, u)
        /\ DerivesNot(D, u) /\ DerivesAnd(D, u) /\ DerivesOr(D, u) /\ DerivesParse(D)
    BY DEF Closed, u
  <1>3. DerivesPrimary(D, t, f)
    BY <1>1, <1>2 DEF DerivesPrimary
  <1>4. DerivesList(D, t)
    BY <1>1, <1>2 DEF DerivesList
  <1>5. DerivesComparison(D, t)
    BY <1>1, <1>2 DEF DerivesComparison
  <1>6. DerivesNot(D, t)
    BY <1>1, <1>2 DEF DerivesNot
  <1>7. DerivesAnd(D, t) /\ DerivesOr(D, t)
    BY <1>1, <1>2 DEF DerivesAnd, DerivesOr
  <1> QED BY <1>2, <1>3, <1>4, <1>5, <1>6, <1>7 DEF Closed

-----------------------------------------------------------------------------
(* What a parser in the middle of a rule has read.                         *)

\* The calls that read operands only.
Inner == Relations \cup {"inner not", "["}

\* A pending call: the token x it has eaten, what it has found before it,
\* where the tokens of the call around it begin, and which call that is.
Pending(D, call, left, x, b, over) ==
  /\ x \in DOMAIN rule /\ b \in Nat \ {0}
  /\ call \in Relations =>
       /\ rule[x] = call /\ <<"primary", b, x, left>> \in D
       /\ b \in DOMAIN rule /\ rule[b] # "not" /\ over \notin Inner
  /\ call = "and" => rule[x] = "and" /\ <<"and_expr", b, x, left>> \in D /\ over \in {"parse", "(", "or"}
  /\ call = "or" => rule[x] = "or" /\ <<"or_expr", b, x, left>> \in D /\ over \in {"parse", "("}
  /\ call = "not" => rule[x] = "not" /\ x = b /\ over \notin Inner
  /\ call = "inner not" => rule[x] = "not" /\ x = b /\ over \in Inner
  /\ call = "(" => rule[x] = "(" /\ x = b
  /\ call = "[" => /\ b \in DOMAIN rule /\ rule[b] = "["
                   /\ \/ x = b /\ left = List(<<>>)
                      \/ rule[x] = "," /\ <<"items", b + 1, x, left>> \in D

\* Where the tokens begin that the call at depth k reads, and which call it is.
Begins(e, k) == IF k = Len(e) THEN 1 ELSE e[k + 1] + 1
Over(calls, k) == IF k = Len(calls) THEN "parse" ELSE calls[k + 1]

AllPending(D, calls, lefts, e) ==
  \A k \in 1..Len(calls) : Pending(D, calls[k], lefts[k], e[k], Begins(e, k), Over(calls, k))

\* The pending calls of a parser, with the places of their tokens.
Stack(D, calls, lefts, e) ==
  /\ calls \in Seq(CallTokens) /\ (\E T : lefts \in Seq(T)) /\ e \in Seq(Nat)
  /\ Len(lefts) = Len(calls) /\ Len(e) = Len(calls) /\ AllPending(D, calls, lefts, e)

\* What has been read from b up to n at each place of the parser's code.
Place(D, at, call, b, n, v) ==
  /\ at \in {"start", "not_expr", "primary", "items"} => n = b
  /\ at = "start" => call = "parse"
  /\ at = "not_expr" => call \notin Inner
  /\ at = "primary" /\ call \notin Inner => IF n \in DOMAIN rule THEN rule[n] # "not" ELSE whole
  /\ at = "items" => call = "[" /\ rule[b - 1] = "["
  /\ at = "after primary" =>
       /\ <<"primary", b, n, v>> \in D
       /\ call \notin Inner => b \in DOMAIN rule /\ rule[b] # "not"
  /\ at = "after not_expr" =>
       /\ call \notin Inner /\ <<"and_expr", b, n, v>> \in D
       /\ call \in {"not", "and"} => <<"not_expr", b, n, v>> \in D
  /\ at = "after and_expr" =>
       /\ call \in {"parse", "(", "or"} /\ <<"or_expr", b, n, v>> \in D
       /\ call = "or" => <<"and_expr", b, n, v>> \in D
  /\ at = "after or_expr" => call \in {"parse", "("} /\ <<"or_expr", b, n, v>> \in D

Reads(D, p, e) ==
  /\ Stack(D, p.calls, p.lefts, e)
  /\ Place(D, p.at, Over(p.calls, 0), Begins(e, 0), p.next, p.value)

Sound(D, p) ==
  /\ p.at = "accepted" =>
       whole /\ p.next = Len(rule) + 1 /\ <<"parse", 1, p.next, p.value>> \in D
  /\ p.at \notin Stops => \E e : Reads(D, p, e)

LEMMA PopPending ==
  ASSUME NEW D, NEW S, NEW T, NEW calls \in Seq(S), NEW lefts \in Seq(T), NEW e \in Seq(Nat),
         Len(lefts) = Len(calls), Len(e) = Len(calls), AllPending(D, calls, lefts, e), calls # <<>>
  PROVE  /\ AllPending(D, Tail(calls), Tail(lefts), Tail(e))
         /\ Tail(e) \in Seq(Nat) /\ Len(Tail(e)) = Len(Tail(calls))
         /\ Begins(Tail(e), 0) = Begins(e, 1) /\ Over(Tail(calls), 0) = Over(calls, 1)
         /\ Begins(e, 0) = Head(e) + 1 /\ Over(calls, 0) = Head(calls)
         /\ Head(e) \in Nat
         /\ Pending(D, Head(calls), Head(lefts), Head(e), Begins(e, 1), Over(calls, 1))
  <1> DEFINE C == Tail(calls)
             L == Tail(lefts)
             X == Tail(e)
             n == Len(calls)
  <1>0. n \in Nat \ {0} /\ lefts # <<>> /\ e # <<>>
    OBVIOUS
  <1>1. Len(C) = n - 1 /\ Head(calls) = calls[1] /\ \A i \in 1..(n - 1) : C[i] = calls[i + 1]
    BY PopIs
  <1>2. Head(lefts) = lefts[1] /\ \A i \in 1..(n - 1) : L[i] = lefts[i + 1]
    BY <1>0, PopIs
  <1>3. /\ X \in Seq(Nat) /\ Len(X) = n - 1 /\ Head(e) = e[1] /\ Head(e) \in Nat
        /\ \A i \in 1..(n - 1) : X[i] = e[i + 1]
    BY <1>0, PopIs
  <1>9. Len(calls) = n /\ Len(e) = n
    OBVIOUS
  <1> HIDE DEF C, L, X, n
  <1>4. Begins(X, 0) = Begins(e, 1) /\ Begins(e, 0) = Head(e) + 1
    BY <1>0, <1>3, <1>9 DEF Begins
  <1>5. Over(C, 0) = Over(calls, 1) /\ Over(calls, 0) = Head(calls)
    BY <1>0, <1>1, <1>9 DEF Over
  <1>6. Pending(D, Head(calls), Head(lefts), Head(e), Begins(e, 1), Over(calls, 1))
    <2>1. 1 \in 1..n
      BY <1>0
    <2> QED BY <1>1, <1>2, <1>3, <1>9, <2>1 DEF AllPending
  <1>7. ASSUME NEW k \in 1..Len(C) PROVE Pending(D, C[k], L[k], X[k], Begins(X, k), Over(C, k))
    <2>1. k \in 1..(n - 1) /\ k + 1 \in 1..n /\ k \in Nat
      BY <1>0, <1>1
    <2>2. C[k] = calls[k + 1] /\ L[k] = lefts[k + 1] /\ X[k] = e[k + 1]
      BY <1>1, <1>2, <1>3, <2>1
    <2>3. Begins(X, k) = Begins(e, k + 1)
      <3>1. k # n - 1 => k + 1 \in 1..(n - 1)
        BY <1>0, <2>1
      <3>2. k # n - 1 => X[k + 1] = e[k + 1 + 1]
        BY <1>3, <3>1
      <3>3. k = n - 1 <=> k + 1 = n
        BY <1>0, <2>1
      <3> QED BY <1>3, <1>9, <3>2, <3>3 DEF Begins
    <2>4. Over(C, k) = Over(calls, k + 1)
      BY <1>0, <1>1, <1>9, <2>1 DEF Over
    <2>5. Pending(D, calls[k + 1], lefts[k + 1], e[k + 1], Begins(e, k + 1), Over(calls, k + 1))
      BY <1>9, <2>1 DEF AllPending
    <2> QED BY <2>2, <2>3, <2>4, <2>5
  <1> QED BY <1>1, <1>3, <1>4, <1>5, <1>6, <1>7 DEF AllPending, C, L, X

LEMMA StackPush ==
  ASSUME NEW D, NEW calls, NEW lefts, NEW e, Stack(D, calls, lefts, e),
         NEW call \in CallTokens, NEW left, NEW x \in Nat,
         Pending(D, call, left, x, Begins(e, 0), Over(calls, 0))
  PROVE  /\ Stack(D, <<call>> \o calls, <<left>> \o lefts, <<x>> \o e)
         /\ Begins(<<x>> \o e, 0) = x + 1 /\ Over(<<call>> \o calls, 0) = call
  <1> DEFINE C == <<call>> \o calls
             L == <<left>> \o lefts
             X == <<x>> \o e
  <1> PICK T : lefts \in Seq(T)
    BY DEF Stack
  <1>9. /\ calls \in Seq(CallTokens) /\ lefts \in Seq(T) /\ e \in Seq(Nat)
        /\ Len(lefts) = Len(calls) /\ Len(e) = Len(calls) /\ AllPending(D, calls, lefts, e)
    BY DEF Stack
  <1>0. Len(calls) \in Nat
    BY <1>9
  <1>1. /\ Len(C) = Len(calls) + 1 /\ C[1] = call /\ \A i \in 2..(Len(calls) + 1) : C[i] = calls[i - 1]
        /\ C \in Seq(CallTokens \cup {call})
    BY <1>9, PushIs
  <1>2. /\ Len(L) = Len(calls) + 1 /\ L[1] = left /\ \A i \in 2..(Len(calls) + 1) : L[i] = lefts[i - 1]
        /\ L \in Seq(T \cup {left})
    BY <1>9, PushIs
  <1>3. /\ X \in Seq(Nat \cup {x}) /\ Len(X) = Len(calls) + 1
        /\ X[1] = x /\ \A i \in 2..(Len(calls) + 1) : X[i] = e[i - 1]
    BY <1>9, PushIs
  <1>4. X \in Seq(Nat)
    <2>1. Nat \cup {x} = Nat
      OBVIOUS
    <2> QED BY <1>3, <2>1
  <1> HIDE DEF C, L, X
  <1>5. Begins(X, 0) = x + 1 /\ Over(C, 0) = call
    BY <1>0, <1>1, <1>3 DEF Begins, Over
  <1>6. ASSUME NEW k \in 1..Len(C) PROVE Pending(D, C[k], L[k], X[k], Begins(X, k), Over(C, k))
    <2>1. CASE k = 1
      <3>1. 2 \in 2..(Len(calls) + 1) <=> Len(calls) # 0
        BY <1>0
      <3>2. Begins(X, 1) = Begins(e, 0)
        <4>1. Len(calls) # 0 => X[2] = e[1]
          BY <1>3, <3>1
        <4> QED BY <1>0, <1>3, <1>9, <4>1 DEF Begins
      <3>3. Over(C, 1) = Over(calls, 0)
        <4>1. Len(calls) # 0 => C[2] = calls[1]
          BY <1>1, <3>1
        <4> QED BY <1>0, <1>1, <4>1 DEF Over
      <3> QED BY <1>1, <1>2, <1>3, <2>1, <3>2, <3>3
    <2>2. CASE k # 1
      <3>1. k \in 2..(Len(calls) + 1) /\ k - 1 \in 1..Len(calls)
        BY <1>0, <1>1, <2>2
      <3>2. C[k] = calls[k - 1] /\ L[k] = lefts[k - 1] /\ X[k] = e[k - 1]
        BY <1>1, <1>2, <1>3, <3>1
      <3>0. /\ k - 1 + 1 = k /\ (k = Len(calls) + 1 <=> k - 1 = Len(calls))
            /\ k # Len(calls) + 1 => k + 1 \in 2..(Len(calls) + 1) /\ k + 1 - 1 = k
        BY <1>0, <3>1
      <3>3. Begins(X, k) = Begins(e, k - 1)
        <4>1. k # Len(calls) + 1 => X[k + 1] = e[k]
          BY <1>3, <3>0
        <4> QED BY <1>3, <1>9, <3>0, <4>1 DEF Begins
      <3>4. Over(C, k) = Over(calls, k - 1)
        <4>1. k # Len(calls) + 1 => C[k + 1] = calls[k]
          BY <1>1, <3>0
        <4> QED BY <1>1, <3>0, <4>1 DEF Over
      <3>5. Pending(D, calls[k - 1], lefts[k - 1], e[k - 1], Begins(e, k - 1), Over(calls, k - 1))
        BY <1>9, <3>1 DEF AllPending
      <3> QED BY <3>2, <3>3, <3>4, <3>5
    <2> QED BY <2>1, <2>2
  <1>7. AllPending(D, C, L, X)
    BY <1>6 DEF AllPending
  <1>8. CallTokens \cup {call} = CallTokens
    OBVIOUS
  <1>10. Stack(D, C, L, X)
    BY <1>1, <1>2, <1>3, <1>4, <1>7, <1>8, <1>9 DEF Stack
  <1> QED BY <1>5, <1>10 DEF C, L, X

LEMMA StackPop ==
  ASSUME NEW D, NEW calls, NEW lefts, NEW e, Stack(D, calls, lefts, e), calls # <<>>
  PROVE  /\ Stack(D, Tail(calls), Tail(lefts), Tail(e))
         /\ Begins(Tail(e), 0) = Begins(e, 1) /\ Over(Tail(calls), 0) = Over(calls, 1)
         /\ Begins(e, 0) = Head(e) + 1 /\ Over(calls, 0) = Head(calls) /\ Head(e) \in Nat
         /\ Pending(D, Head(calls), Head(lefts), Head(e), Begins(e, 1), Over(calls, 1))
         /\ calls = <<Head(calls)>> \o Tail(calls)
  <1> PICK T : lefts \in Seq(T)
    BY DEF Stack
  <1>1. /\ calls \in Seq(CallTokens) /\ lefts \in Seq(T) /\ e \in Seq(Nat)
        /\ Len(lefts) = Len(calls) /\ Len(e) = Len(calls) /\ AllPending(D, calls, lefts, e)
    BY DEF Stack
  <1>2. /\ AllPending(D, Tail(calls), Tail(lefts), Tail(e))
        /\ Tail(e) \in Seq(Nat) /\ Len(Tail(e)) = Len(Tail(calls))
        /\ Begins(Tail(e), 0) = Begins(e, 1) /\ Over(Tail(calls), 0) = Over(calls, 1)
        /\ Begins(e, 0) = Head(e) + 1 /\ Over(calls, 0) = Head(calls)
        /\ Head(e) \in Nat
        /\ Pending(D, Head(calls), Head(lefts), Head(e), Begins(e, 1), Over(calls, 1))
    BY <1>1, PopPending
  <1>3. lefts # <<>>
    BY <1>1
  <1>4. /\ Tail(calls) \in Seq(CallTokens) /\ Tail(lefts) \in Seq(T)
        /\ Len(Tail(lefts)) = Len(Tail(calls))
    BY <1>1, <1>3, PopIs
  <1>5. calls = <<Head(calls)>> \o Tail(calls)
    BY <1>1
  <1> QED BY <1>2, <1>4, <1>5 DEF Stack

-----------------------------------------------------------------------------
(* What each production adds, a lemma for each way on from a place.        *)

Spans(D, b, n, f) == rule \in Seq(Tokens) /\ Closed(D, rule, f) /\ b \in Nat \ {0} /\ n \in Nat \ {0}

LEMMA SpansTyped ==
  ASSUME NEW D, NEW f, NEW b, NEW n, Spans(D, b, n, f)
  PROVE  b + 1 \in Nat /\ n \in Nat
  BY DEF Spans

\* primary
LEMMA WordRead ==
  ASSUME NEW D, NEW f, NEW b, NEW n, Spans(D, b, n, f), n \in DOMAIN rule,
         NEW call, NEW w, Place(D, "primary", call, b, n, w), NEW v,
         \/ rule[n] \in DOMAIN Literal /\ v = Literal[rule[n]]
         \/ rule[n] \in DOMAIN Constant /\ v = Constant[rule[n]]
         \/ rule[n] \in Fields /\ v = f[rule[n]]
  PROVE  Place(D, "after primary", call, b, n + 1, v)
  <1>1. <<"primary", n, n + 1, v>> \in D
    BY DEF Spans, Closed, DerivesPrimary
  <1>2. n = b /\ (call \notin Inner => rule[n] # "not")
    BY DEF Place
  <1> QED BY <1>1, <1>2 DEF Place

LEMMA InnerNotEntered ==
  ASSUME NEW D, NEW f, NEW b, NEW n, Spans(D, b, n, f), n \in DOMAIN rule,
         NEW call, NEW w, Place(D, "primary", call, b, n, w), rule[n] = "not", NEW left
  PROVE  /\ Pending(D, "inner not", left, n, b, call)
         /\ Place(D, "primary", "inner not", n + 1, n + 1, w)
  BY DEF Place, Pending, Inner, Relations, Comparisons, TextOperators, Spans

LEMMA ParenthesisEntered ==
  ASSUME NEW D, NEW f, NEW b, NEW n, Spans(D, b, n, f), n \in DOMAIN rule,
         NEW call, NEW w, Place(D, "primary", call, b, n, w), rule[n] = "(", NEW left
  PROVE  /\ Pending(D, "(", left, n, b, call)
         /\ Place(D, "not_expr", "(", n + 1, n + 1, w)
  BY DEF Place, Pending, Inner, Relations, Comparisons, TextOperators, Spans

LEMMA ListEntered ==
  ASSUME NEW D, NEW f, NEW b, NEW n, Spans(D, b, n, f), n \in DOMAIN rule,
         NEW call, NEW w, Place(D, "primary", call, b, n, w), rule[n] = "["
  PROVE  /\ Pending(D, "[", List(<<>>), n, b, call)
         /\ Place(D, "items", "[", n + 1, n + 1, w)
  <1>1. n + 1 - 1 = n /\ b = n
    BY DEF Spans, Place
  <1> QED BY <1>1 DEF Place, Pending, Relations, Comparisons, TextOperators, Spans

\* items
LEMMA EmptyListRead ==
  ASSUME NEW D, NEW f, NEW b, NEW n, NEW x, Spans(D, b, n, f), x \in Nat, n \in DOMAIN rule,
         NEW over, NEW left, NEW w,
         Pending(D, "[", left, x, b, over), Place(D, "items", "[", x + 1, n, w), rule[n] = "]"
  PROVE  Place(D, "after primary", over, b, n + 1, left)
  <1>1. n = x + 1 /\ rule[x] = "["
    <2>1. x + 1 - 1 = x
      OBVIOUS
    <2> QED BY <2>1 DEF Place
  <1>2. x = b /\ left = List(<<>>) /\ b \in DOMAIN rule
    BY <1>1 DEF Pending
  <1>3. b + 1 + 1 = b + 2 /\ n = b + 1
    BY <1>1, <1>2 DEF Spans
  <1>4. <<"primary", b, b + 2, List(<<>>)>> \in D
    BY <1>1, <1>2, <1>3 DEF Spans, Closed, DerivesList
  <1> QED BY <1>1, <1>2, <1>3, <1>4 DEF Place

\* after primary
LEMMA InnerNotRead ==
  ASSUME NEW D, NEW f, NEW b, NEW n, NEW x, Spans(D, b, n, f), x \in Nat,
         NEW over, NEW left, NEW v,
         Pending(D, "inner not", left, x, b, over), Place(D, "after primary", "inner not", x + 1, n, v)
  PROVE  Place(D, "after primary", over, b, n, Bool(~Truthy(v)))
  <1>1. <<"primary", b, n, Bool(~Truthy(v))>> \in D
    BY DEF Spans, Closed, DerivesPrimary, Pending, Place
  <1> QED BY <1>1 DEF Place, Pending

LEMMA FirstItem ==
  ASSUME NEW y
  PROVE  Append(<<>>, y) = <<y>>
  <1>1. <<>> \in Seq({y})
    OBVIOUS
  <1> QED BY <1>1

LEMMA ItemRead ==
  ASSUME NEW D, NEW f, NEW b, NEW n, NEW x, Spans(D, b, n, f), x \in Nat,
         NEW over, NEW left, NEW v,
         Pending(D, "[", left, x, b, over), Place(D, "after primary", "[", x + 1, n, v)
  PROVE  <<"items", b + 1, n, List(Append(left.items, Plain(v)))>> \in D
  <1>0. b + 1 \in Nat /\ n \in Nat
    BY SpansTyped
  <1>1. <<"primary", x + 1, n, v>> \in D /\ DerivesList(D, rule)
    BY DEF Place, Spans, Closed
  <1>2. CASE x = b /\ left = List(<<>>)
    <2>1. left.items = <<>>
      BY <1>2 DEF List, Value
    <2>2. Append(left.items, Plain(v)) = <<Plain(v)>>
      BY <2>1, FirstItem
    <2> QED BY <1>0, <1>1, <1>2, <2>2 DEF DerivesList
  <1>3. CASE rule[x] = "," /\ <<"items", b + 1, x, left>> \in D
    <2>1. x \in DOMAIN rule
      BY DEF Pending
    <2> QED BY <1>0, <1>1, <1>3, <2>1 DEF DerivesList
  <1> QED BY <1>2, <1>3 DEF Pending

LEMMA ListGoesOn ==
  ASSUME NEW D, NEW f, NEW b, NEW n, NEW x, Spans(D, b, n, f), x \in Nat,
         NEW over, NEW left, NEW v, n \in DOMAIN rule, rule[n] = ",",
         Pending(D, "[", left, x, b, over), Place(D, "after primary", "[", x + 1, n, v)
  PROVE  /\ Pending(D, "[", List(Append(left.items, Plain(v))), n, b, over)
         /\ Place(D, "primary", "[", n + 1, n + 1, v)
  <1>1. Pending(D, "[", List(Append(left.items, Plain(v))), n, b, over)
    BY ItemRead DEF Pending, Relations, Comparisons, TextOperators, Spans
  <1> QED BY <1>1 DEF Place, Inner

LEMMA ListRead ==
  ASSUME NEW D, NEW f, NEW b, NEW n, NEW x, Spans(D, b, n, f), x \in Nat,
         NEW over, NEW left, NEW v, n \in DOMAIN rule, rule[n] = "]",
         Pending(D, "[", left, x, b, over), Place(D, "after primary", "[", x + 1, n, v)
  PROVE  Place(D, "after primary", over, b, n + 1, List(Append(left.items, Plain(v))))
  <1> DEFINE u == List(Append(left.items, Plain(v)))
  <1>1. <<"items", b + 1, n, u>> \in D
    BY ItemRead
  <1>2. b \in DOMAIN rule /\ rule[b] = "["
    BY DEF Pending
  <1> HIDE DEF u
  <1>3. <<"primary", b, n + 1, u>> \in D
    BY <1>1, <1>2 DEF Spans, Closed, DerivesList
  <1> QED BY <1>2, <1>3 DEF Place, u

LEMMA ComparisonRead ==
  ASSUME NEW D, NEW f, NEW b, NEW n, NEW x, Spans(D, b, n, f), x \in Nat,
         NEW over, NEW left, NEW v, NEW call \in Relations, ~Invalid(call, v), ~Overflows(call, left, v),
         Pending(D, call, left, x, b, over), Place(D, "after primary", call, x + 1, n, v)
  PROVE  Place(D, "after not_expr", over, b, n, Apply(call, left, v))
  <1> DEFINE u == Apply(call, left, v)
  <1>1. /\ rule[x] = call /\ x \in DOMAIN rule /\ <<"primary", b, x, left>> \in D
        /\ b \in DOMAIN rule /\ rule[b] # "not" /\ over \notin Inner
        /\ <<"primary", x + 1, n, v>> \in D /\ b \in Nat /\ n \in Nat
    BY DEF Pending, Place, Spans
  <1>2. <<"comparison", b, n, u>> \in D
    BY <1>1 DEF Spans, Closed, DerivesComparison
  <1> HIDE DEF u
  <1>3. <<"not_expr", b, n, u>> \in D
    BY <1>1, <1>2 DEF Spans, Closed, DerivesNot
  <1>4. <<"and_expr", b, n, u>> \in D
    BY <1>1, <1>3 DEF Spans, Closed, DerivesAnd
  <1> QED BY <1>1, <1>3, <1>4 DEF Place, u

LEMMA OperandRead ==
  ASSUME NEW D, NEW f, NEW b, NEW n, Spans(D, b, n, f),
         NEW call, call \notin Inner, NEW v, Place(D, "after primary", call, b, n, v)
  PROVE  Place(D, "after not_expr", call, b, n, v)
  <1>1. <<"primary", b, n, v>> \in D /\ b \in DOMAIN rule /\ rule[b] # "not" /\ b \in Nat /\ n \in Nat
    BY DEF Place, Spans
  <1>2. <<"comparison", b, n, v>> \in D
    BY <1>1 DEF Spans, Closed, DerivesComparison
  <1>3. <<"not_expr", b, n, v>> \in D
    BY <1>1, <1>2 DEF Spans, Closed, DerivesNot
  <1>4. <<"and_expr", b, n, v>> \in D
    BY <1>1, <1>3 DEF Spans, Closed, DerivesAnd
  <1> QED BY <1>3, <1>4 DEF Place

LEMMA RelationEntered ==
  ASSUME NEW D, NEW f, NEW b, NEW n, Spans(D, b, n, f), n \in DOMAIN rule, rule[n] \in Relations,
         NEW call, call \notin Inner, NEW v, Place(D, "after primary", call, b, n, v)
  PROVE  /\ Pending(D, rule[n], v, n, b, call)
         /\ Place(D, "primary", rule[n], n + 1, n + 1, v)
  <1>1. rule[n] \notin {"and", "or", "not", "inner not", "(", "["}
    BY DEF Relations, Comparisons, TextOperators
  <1> QED BY <1>1 DEF Place, Pending, Inner, Spans

\* not_expr and after not_expr
LEMMA NotEntered ==
  ASSUME NEW D, NEW f, NEW b, NEW n, Spans(D, b, n, f), n \in DOMAIN rule, rule[n] = "not",
         NEW call, NEW w, Place(D, "not_expr", call, b, n, w), NEW left
  PROVE  /\ Pending(D, "not", left, n, b, call)
         /\ Place(D, "not_expr", "not", n + 1, n + 1, w)
  BY DEF Place, Pending, Inner, Relations, Comparisons, TextOperators, Spans

LEMMA NotRead ==
  ASSUME NEW D, NEW f, NEW b, NEW n, NEW x, Spans(D, b, n, f), x \in Nat,
         NEW over, NEW left, NEW v,
         Pending(D, "not", left, x, b, over), Place(D, "after not_expr", "not", x + 1, n, v)
  PROVE  Place(D, "after not_expr", over, b, n, Bool(~Truthy(v)))
  <1>1. <<"not_expr", x + 1, n, v>> \in D /\ b \in Nat /\ n \in Nat /\ x \in DOMAIN rule
        /\ rule[x] = "not" /\ x = b /\ over \notin Inner
    BY DEF Pending, Place, Spans
  <1>2. <<"not_expr", b, n, Bool(~Truthy(v))>> \in D
    BY <1>1 DEF Spans, Closed, DerivesNot
  <1>3. <<"and_expr", b, n, Bool(~Truthy(v))>> \in D
    BY <1>1, <1>2 DEF Spans, Closed, DerivesAnd
  <1> QED BY <1>1, <1>2, <1>3 DEF Place

LEMMA AndRead ==
  ASSUME NEW D, NEW f, NEW b, NEW n, NEW x, Spans(D, b, n, f), x \in Nat,
         NEW over, NEW left, NEW v,
         Pending(D, "and", left, x, b, over), Place(D, "after not_expr", "and", x + 1, n, v)
  PROVE  Place(D, "after not_expr", over, b, n, Bool(Truthy(left) /\ Truthy(v)))
  <1>1. /\ <<"not_expr", x + 1, n, v>> \in D /\ b \in Nat /\ n \in Nat /\ x \in DOMAIN rule
        /\ rule[x] = "and" /\ <<"and_expr", b, x, left>> \in D /\ over \in {"parse", "(", "or"}
    BY DEF Pending, Place, Spans
  <1>2. <<"and_expr", b, n, Bool(Truthy(left) /\ Truthy(v))>> \in D
    BY <1>1 DEF Spans, Closed, DerivesAnd
  <1> QED BY <1>1, <1>2 DEF Place, Inner, Relations, Comparisons, TextOperators

Outer == {"parse", "(", "or"}

LEMMA AndEntered ==
  ASSUME NEW D, NEW f, NEW b, NEW n, Spans(D, b, n, f), n \in DOMAIN rule, rule[n] = "and",
         NEW call \in Outer, NEW v, Place(D, "after not_expr", call, b, n, v)
  PROVE  /\ Pending(D, "and", v, n, b, call)
         /\ Place(D, "not_expr", "and", n + 1, n + 1, v)
  BY DEF Place, Pending, Inner, Outer, Relations, Comparisons, TextOperators, Spans

LEMMA AndsRead ==
  ASSUME NEW D, NEW f, NEW b, NEW n, Spans(D, b, n, f),
         NEW call \in Outer, NEW v, Place(D, "after not_expr", call, b, n, v)
  PROVE  Place(D, "after and_expr", call, b, n, v)
  <1>1. <<"and_expr", b, n, v>> \in D /\ b \in Nat /\ n \in Nat
    BY DEF Place, Spans
  <1>2. <<"or_expr", b, n, v>> \in D
    BY <1>1 DEF Spans, Closed, DerivesOr
  <1> QED BY <1>1, <1>2 DEF Place, Outer

\* after and_expr and or_expr
LEMMA OrRead ==
  ASSUME NEW D, NEW f, NEW b, NEW n, NEW x, Spans(D, b, n, f), x \in Nat,
         NEW over, NEW left, NEW v,
         Pending(D, "or", left, x, b, over), Place(D, "after and_expr", "or", x + 1, n, v)
  PROVE  Place(D, "after and_expr", over, b, n, Bool(Truthy(left) \/ Truthy(v)))
  <1>1. /\ <<"and_expr", x + 1, n, v>> \in D /\ b \in Nat /\ n \in Nat /\ x \in DOMAIN rule
        /\ rule[x] = "or" /\ <<"or_expr", b, x, left>> \in D /\ over \in {"parse", "("}
    BY DEF Pending, Place, Spans
  <1>2. <<"or_expr", b, n, Bool(Truthy(left) \/ Truthy(v))>> \in D
    BY <1>1 DEF Spans, Closed, DerivesOr
  <1> QED BY <1>1, <1>2 DEF Place

LEMMA OrEntered ==
  ASSUME NEW D, NEW f, NEW b, NEW n, Spans(D, b, n, f), n \in DOMAIN rule, rule[n] = "or",
         NEW call, call # "or", NEW v, Place(D, "after and_expr", call, b, n, v)
  PROVE  /\ Pending(D, "or", v, n, b, call)
         /\ Place(D, "not_expr", "or", n + 1, n + 1, v)
  BY DEF Place, Pending, Inner, Relations, Comparisons, TextOperators, Spans

LEMMA OrsRead ==
  ASSUME NEW D, NEW b, NEW n, NEW call, call # "or", NEW v, Place(D, "after and_expr", call, b, n, v)
  PROVE  Place(D, "after or_expr", call, b, n, v)
  BY DEF Place

LEMMA ParenthesisRead ==
  ASSUME NEW D, NEW f, NEW b, NEW n, NEW x, Spans(D, b, n, f), x \in Nat, n \in DOMAIN rule, rule[n] = ")",
         NEW over, NEW left, NEW v,
         Pending(D, "(", left, x, b, over), Place(D, "after or_expr", "(", x + 1, n, v)
  PROVE  Place(D, "after primary", over, b, n + 1, v)
  <1>1. <<"or_expr", b + 1, n, v>> \in D /\ b \in DOMAIN rule /\ rule[b] = "("
    BY DEF Pending, Place
  <1>2. <<"primary", b, n + 1, v>> \in D
    BY <1>1 DEF Spans, Closed, DerivesPrimary
  <1> QED BY <1>1, <1>2 DEF Place

-----------------------------------------------------------------------------
(* What each move keeps.                                                   *)

LEMMA BeginsTyped ==
  ASSUME NEW e \in Seq(Nat), NEW k \in Nat, k <= Len(e)
  PROVE  Begins(e, k) \in Nat \ {0}
  <1>1. k # Len(e) => e[k + 1] \in Nat
    OBVIOUS
  <1> QED BY <1>1 DEF Begins

LEMMA CallIs ==
  ASSUME NEW p, NEW S, p.calls \in Seq(S)
  PROVE  Call(p) = Over(p.calls, 0)
  <1>1. p.calls = <<>> <=> Len(p.calls) = 0
    OBVIOUS
  <1>2. p.calls # <<>> => Head(p.calls) = p.calls[1]
    BY PopIs
  <1> QED BY <1>1, <1>2 DEF Call, Over

LEMMA ReadsIs ==
  ASSUME NEW D, NEW p, ParserOK(p), NEW e, Reads(D, p, e)
  PROVE  /\ Stack(D, p.calls, p.lefts, e) /\ Call(p) = Over(p.calls, 0)
         /\ Place(D, p.at, Call(p), Begins(e, 0), p.next, p.value)
         /\ Begins(e, 0) \in Nat \ {0} /\ p.next \in Nat \ {0} /\ IsParser(p)
  <1>1. /\ Stack(D, p.calls, p.lefts, e) /\ p.calls \in Seq(CallTokens)
        /\ p.next \in Nat \ {0} /\ IsParser(p)
        /\ Place(D, p.at, Over(p.calls, 0), Begins(e, 0), p.next, p.value)
    BY DEF ParserOK, Reads
  <1>2. Call(p) = Over(p.calls, 0)
    BY <1>1, CallIs
  <1>3. Begins(e, 0) \in Nat \ {0}
    <2>1. e \in Seq(Nat) /\ 0 \in Nat /\ 0 <= Len(e)
      BY <1>1 DEF Stack
    <2> QED BY <2>1, BeginsTyped
  <1> QED BY <1>1, <1>2, <1>3

\* The innermost call.
LEMMA StackTop ==
  ASSUME NEW D, NEW calls, NEW lefts, NEW e, Stack(D, calls, lefts, e), calls # <<>>
  PROVE  /\ Head(e) \in Nat /\ Head(e) \in DOMAIN rule /\ Begins(e, 0) = Head(e) + 1
         /\ Begins(e, 1) \in Nat \ {0}
         /\ Pending(D, Head(calls), Head(lefts), Head(e), Begins(e, 1), Over(calls, 1))
  <1> PICK T : lefts \in Seq(T)
    BY DEF Stack
  <1>1. /\ calls \in Seq(CallTokens) /\ lefts \in Seq(T) /\ e \in Seq(Nat)
        /\ Len(lefts) = Len(calls) /\ Len(e) = Len(calls) /\ AllPending(D, calls, lefts, e)
    BY DEF Stack
  <1>2. Len(calls) \in Nat \ {0} /\ lefts # <<>> /\ e # <<>>
    BY <1>1
  <1>3. Head(calls) = calls[1] /\ Head(lefts) = lefts[1] /\ Head(e) = e[1] /\ e[1] \in Nat
    BY <1>1, <1>2, PopIs
  <1>4. 1 \in 1..Len(calls)
    BY <1>2
  <1>5. Pending(D, calls[1], lefts[1], e[1], Begins(e, 1), Over(calls, 1))
    BY <1>1, <1>4 DEF AllPending
  <1>6. Begins(e, 0) = e[1] + 1
    BY <1>1, <1>2 DEF Begins
  <1>7. e[1] \in DOMAIN rule /\ Begins(e, 1) \in Nat \ {0}
    BY <1>5 DEF Pending
  <1> QED BY <1>3, <1>5, <1>6, <1>7

LEMMA InnermostIs ==
  ASSUME NEW D, NEW p, ParserOK(p), NEW e, Reads(D, p, e), p.calls # <<>>
  PROVE  /\ Head(e) \in Nat /\ Begins(e, 1) \in Nat \ {0} /\ Begins(e, 0) = Head(e) + 1
         /\ Pending(D, Call(p), Left(p), Head(e), Begins(e, 1), Over(p.calls, 1))
  <1> DEFINE calls == p.calls
             lefts == p.lefts
  <1>1. Stack(D, calls, lefts, e) /\ calls # <<>>
    BY ReadsIs
  <1>2. Call(p) = Head(calls) /\ Left(p) = Head(lefts)
    BY DEF Call, Left
  <1> HIDE DEF calls, lefts
  <1>3. /\ Head(e) \in Nat /\ Begins(e, 0) = Head(e) + 1 /\ Begins(e, 1) \in Nat \ {0}
        /\ Pending(D, Head(calls), Head(lefts), Head(e), Begins(e, 1), Over(calls, 1))
    BY <1>1, StackTop
  <1> QED BY <1>2, <1>3 DEF calls

LEMMA StopSound ==
  ASSUME NEW D, NEW p, IsParser(p), NEW at \in Stops \ {"accepted"}
  PROVE  Sound(D, Go(p, at))
  <1>1. Go(p, at).at = at
    BY GoIs DEF IsAt
  <1> HIDE DEF Go
  <1> QED BY <1>1 DEF Sound

LEMMA ReadsSound ==
  ASSUME NEW D, NEW q, NEW at \in Places, NEW calls, NEW lefts, NEW n, NEW v,
         q.at = at, q.calls = calls, q.lefts = lefts, q.next = n, q.value = v,
         NEW e, Stack(D, calls, lefts, e), Place(D, at, Over(calls, 0), Begins(e, 0), n, v)
  PROVE  Sound(D, q)
  <1>1. Reads(D, q, e)
    BY DEF Reads
  <1> QED BY <1>1 DEF Sound, Places

LEMMA GoSound ==
  ASSUME NEW D, NEW p, ParserOK(p), NEW e, Reads(D, p, e), NEW at \in Places,
         Place(D, at, Call(p), Begins(e, 0), p.next, p.value)
  PROVE  Sound(D, Go(p, at))
  <1> DEFINE q == Go(p, at)
  <1>1. IsAt(q, at, p.calls, p.lefts, p.value, p.next, p.depth)
    BY ReadsIs, GoIs
  <1> HIDE DEF q
  <1>2. q.at = at /\ q.calls = p.calls /\ q.lefts = p.lefts /\ q.next = p.next /\ q.value = p.value
    BY <1>1 DEF IsAt
  <1>3. Stack(D, p.calls, p.lefts, e) /\ Place(D, at, Over(p.calls, 0), Begins(e, 0), p.next, p.value)
    BY ReadsIs
  <1>4. Sound(D, q)
    BY <1>2, <1>3, ReadsSound
  <1> QED BY <1>4 DEF q

LEMMA FindSound ==
  ASSUME NEW D, NEW p, ParserOK(p), NEW e, Reads(D, p, e), NEW at \in Places, NEW v,
         Place(D, at, Call(p), Begins(e, 0), p.next + 1, v)
  PROVE  Sound(D, Find(Eat(p), v, at))
  <1> DEFINE u == Eat(p)
             q == Find(u, v, at)
             n == p.next + 1
  <1>1. IsAt(u, p.at, p.calls, p.lefts, p.value, n, p.depth)
    BY ReadsIs, EatIs
  <1> HIDE DEF u
  <1>2. IsAt(q, at, u.calls, u.lefts, v, u.next, u.depth)
    BY <1>1, FindIs DEF IsAt
  <1> HIDE DEF q
  <1>3. Stack(D, p.calls, p.lefts, e) /\ Place(D, at, Over(p.calls, 0), Begins(e, 0), n, v)
    BY ReadsIs
  <1> HIDE DEF n
  <1>4. q.at = at /\ q.calls = p.calls /\ q.lefts = p.lefts /\ q.next = n /\ q.value = v
    BY <1>1, <1>2 DEF IsAt
  <1>5. Sound(D, q)
    BY <1>3, <1>4, ReadsSound
  <1> QED BY <1>5 DEF q, u

LEMMA EnterSound ==
  ASSUME NEW D, NEW p, ParserOK(p), NEW e, Reads(D, p, e), NEW at \in {"not_expr", "primary", "items"},
         NEW call \in CallTokens, NEW left, Pending(D, call, left, p.next, Begins(e, 0), Call(p)),
         Place(D, at, call, p.next + 1, p.next + 1, p.value)
  PROVE  Sound(D, Enter(p, call, left, at))
  <1>0. /\ Stack(D, p.calls, p.lefts, e) /\ Call(p) = Over(p.calls, 0)
        /\ p.next \in Nat /\ IsParser(p)
    BY ReadsIs
  <1>1. CASE p.depth + Frames(call) > MaxDepth
    <2>1. Enter(p, call, left, at) = Go(p, "exhausted")
      BY <1>1 DEF Enter
    <2>2. "exhausted" \in Stops \ {"accepted"}
      BY DEF Stops
    <2>3. Sound(D, Go(p, "exhausted"))
      BY <1>0, <2>2, StopSound
    <2> QED BY <2>1, <2>3
  <1>2. CASE ~(p.depth + Frames(call) > MaxDepth)
    <2> DEFINE q == Enter(p, call, left, at)
               E == <<p.next>> \o e
               C == <<call>> \o p.calls
               L == <<left>> \o p.lefts
               n == p.next + 1
    <2>1. IsAt(q, at, C, L, p.value, n, p.depth + Frames(call))
      BY <1>0, <1>2, EnterIs
    <2>2. Stack(D, C, L, E) /\ Begins(E, 0) = n /\ Over(C, 0) = call
      BY <1>0, StackPush
    <2>3. Place(D, at, call, n, n, p.value)
      OBVIOUS
    <2> HIDE DEF q, E, C, L, n
    <2>4. q.at = at /\ q.calls = C /\ q.lefts = L /\ q.next = n /\ q.value = p.value
      BY <2>1 DEF IsAt
    <2>5. at \in Places
      BY DEF Places
    <2>6. Sound(D, q)
      BY <2>2, <2>3, <2>4, <2>5, ReadsSound
    <2> QED BY <2>6 DEF q
  <1> QED BY <1>1, <1>2

LEMMA PoppedSound ==
  ASSUME NEW D, NEW p, ParserOK(p), NEW e, Reads(D, p, e), p.calls # <<>>, NEW q, NEW at \in Places,
         NEW v, NEW n, q.at = at, q.calls = Tail(p.calls), q.lefts = Tail(p.lefts), q.next = n, q.value = v,
         Place(D, at, Over(p.calls, 1), Begins(e, 1), n, v)
  PROVE  Sound(D, q)
  <1> DEFINE C == Tail(p.calls)
             L == Tail(p.lefts)
             X == Tail(e)
  <1>0. Stack(D, p.calls, p.lefts, e)
    BY ReadsIs
  <1>1. Stack(D, C, L, X) /\ Begins(X, 0) = Begins(e, 1) /\ Over(C, 0) = Over(p.calls, 1)
    BY <1>0, StackPop
  <1>2. q.calls = C /\ q.lefts = L
    OBVIOUS
  <1> HIDE DEF C, L, X
  <1> QED BY <1>1, <1>2, ReadsSound

LEMMA ReturnSound ==
  ASSUME NEW D, NEW p, ParserOK(p), NEW e, Reads(D, p, e), p.calls # <<>>, NEW at \in Places, NEW v
  PROVE  /\ Place(D, at, Over(p.calls, 1), Begins(e, 1), p.next, v) => Sound(D, Return(p, v, at))
         /\ Place(D, at, Over(p.calls, 1), Begins(e, 1), p.next + 1, v) => Sound(D, Return(Eat(p), v, at))
  <1>0. IsParser(p)
    BY ReadsIs
  <1>1. ASSUME Place(D, at, Over(p.calls, 1), Begins(e, 1), p.next, v)
        PROVE  Sound(D, Return(p, v, at))
    <2> DEFINE q == Return(p, v, at)
    <2>1. IsAt(q, at, Tail(p.calls), Tail(p.lefts), v, p.next, p.depth - Frames(Call(p)))
      BY <1>0, ReturnIs
    <2> HIDE DEF q
    <2>2. q.at = at /\ q.calls = Tail(p.calls) /\ q.lefts = Tail(p.lefts) /\ q.next = p.next /\ q.value = v
      BY <2>1 DEF IsAt
    <2>3. Sound(D, q)
      BY <1>1, <2>2, PoppedSound
    <2> QED BY <2>3 DEF q
  <1>2. ASSUME Place(D, at, Over(p.calls, 1), Begins(e, 1), p.next + 1, v)
        PROVE  Sound(D, Return(Eat(p), v, at))
    <2> DEFINE u == Eat(p)
               q == Return(u, v, at)
    <2>1. IsAt(u, p.at, p.calls, p.lefts, p.value, p.next + 1, p.depth)
      BY <1>0, EatIs
    <2> HIDE DEF u
    <2>2. IsAt(q, at, Tail(u.calls), Tail(u.lefts), v, u.next, u.depth - Frames(Call(u)))
      BY <2>1, ReturnIs DEF IsAt
    <2> HIDE DEF q
    <2>3. /\ q.at = at /\ q.calls = Tail(p.calls) /\ q.lefts = Tail(p.lefts)
          /\ q.next = p.next + 1 /\ q.value = v
      BY <2>1, <2>2 DEF IsAt
    <2>4. Sound(D, q)
      BY <1>2, <2>3, PoppedSound
    <2> QED BY <2>4 DEF q, u
  <1> QED BY <1>1, <1>2

LEMMA KeepSound ==
  ASSUME NEW D, NEW p, ParserOK(p), NEW e, Reads(D, p, e), p.calls # <<>>, NEW left,
         Pending(D, Call(p), left, p.next, Begins(e, 1), Over(p.calls, 1)),
         Place(D, "primary", Call(p), p.next + 1, p.next + 1, p.value)
  PROVE  Sound(D, Keep(Eat(p), left, "primary"))
  <1> DEFINE u == Eat(p)
             q == Keep(u, left, "primary")
             C == Tail(p.calls)
             L == Tail(p.lefts)
             X == Tail(e)
             CC == <<Call(p)>> \o C
             LL == <<left>> \o L
             XX == <<p.next>> \o X
             n == p.next + 1
  <1>0. Stack(D, p.calls, p.lefts, e) /\ p.next \in Nat /\ IsParser(p) /\ Call(p) \in CallTokens
    <2>1. Stack(D, p.calls, p.lefts, e) /\ p.next \in Nat /\ IsParser(p)
      BY ReadsIs
    <2>2. p.calls \in Seq(CallTokens)
      BY DEF ParserOK
    <2>3. Head(p.calls) \in CallTokens
      BY <2>2, PopIs
    <2> QED BY <2>1, <2>3 DEF Call
  <1>1. IsAt(u, p.at, p.calls, p.lefts, p.value, n, p.depth)
    BY <1>0, EatIs
  <1> HIDE DEF u
  <1>2. IsAt(q, "primary", u.calls, <<left>> \o Tail(u.lefts), u.value, u.next, u.depth)
    BY <1>1, KeepIs DEF IsAt
  <1> HIDE DEF q
  <1>3. /\ Stack(D, C, L, X) /\ Begins(X, 0) = Begins(e, 1) /\ Over(C, 0) = Over(p.calls, 1)
        /\ p.calls = CC
    BY <1>0, StackPop DEF Call
  <1>4. q.lefts = LL
    BY <1>1, <1>2 DEF IsAt
  <1> HIDE DEF C, L, X
  <1>5. Stack(D, CC, LL, XX) /\ Begins(XX, 0) = n /\ Over(CC, 0) = Call(p)
    BY <1>0, <1>3, StackPush
  <1>6. Place(D, "primary", Call(p), n, n, p.value)
    OBVIOUS
  <1> HIDE DEF CC, LL, XX, n
  <1>7. q.at = "primary" /\ q.calls = CC /\ q.next = n /\ q.value = p.value
    BY <1>1, <1>2, <1>3 DEF IsAt
  <1>8. "primary" \in Places
    BY DEF Places
  <1>9. Sound(D, q)
    BY <1>4, <1>5, <1>6, <1>7, <1>8, ReadsSound
  <1> QED BY <1>9 DEF q, u

-----------------------------------------------------------------------------
(* Every step is sound.                                                    *)

\* A parser that may take a step, and the token it sees.
Ready(D, f, p, e, t) ==
  /\ ParserOK(p) /\ Reads(D, p, e) /\ rule \in Seq(Tokens) /\ Closed(D, rule, f)
  /\ t = Peek(p) /\ (p.next \in DOMAIN rule \/ whole)

LEMMA ReadyIs ==
  ASSUME NEW D, NEW f, NEW p, NEW e, NEW t, Ready(D, f, p, e, t)
  PROVE  /\ ParserOK(p) /\ Reads(D, p, e) /\ IsParser(p)
         /\ Spans(D, Begins(e, 0), p.next, f) /\ Place(D, p.at, Call(p), Begins(e, 0), p.next, p.value)
         /\ t # End => p.next \in DOMAIN rule /\ rule[p.next] = t
         /\ p.next \in DOMAIN rule => rule[p.next] = t /\ t # End
         /\ p.next \notin DOMAIN rule => whole /\ p.next = Len(rule) + 1
  <1>1. /\ ParserOK(p) /\ Reads(D, p, e) /\ rule \in Seq(Tokens) /\ Closed(D, rule, f)
        /\ t = Peek(p) /\ (p.next \in DOMAIN rule \/ whole)
    BY DEF Ready
  <1>2. /\ Place(D, p.at, Call(p), Begins(e, 0), p.next, p.value)
        /\ Begins(e, 0) \in Nat \ {0} /\ p.next \in Nat \ {0} /\ IsParser(p)
    BY <1>1, ReadsIs
  <1>3. p.next <= Len(rule) + 1 /\ Len(rule) \in Nat /\ DOMAIN rule = 1..Len(rule)
    BY <1>1 DEF ParserOK
  <1>4. t # End => p.next <= Len(rule) /\ rule[p.next] = t
    BY <1>1 DEF Peek
  <1>5. p.next \in DOMAIN rule => rule[p.next] = t
    BY <1>1, <1>3 DEF Peek
  <1>6. p.next \in DOMAIN rule => rule[p.next] \in Tokens
    BY <1>1
  <1>7. End \notin Tokens
    BY NotEnd DEF Tokens, Punctuation
  <1> QED BY <1>1, <1>2, <1>3, <1>4, <1>5, <1>6, <1>7 DEF Spans

LEMMA CallIn ==
  ASSUME NEW p, ParserOK(p)
  PROVE  /\ Call(p) \in CallTokens \cup {"parse"}
         /\ Call(p) # "parse" <=> p.calls # <<>>
  <1>1. p.calls \in Seq(CallTokens)
    BY DEF ParserOK
  <1>2. p.calls # <<>> => Head(p.calls) \in CallTokens
    BY <1>1, PopIs
  <1>3. "parse" \notin CallTokens
    BY DEF CallTokens, Relations, Comparisons, TextOperators
  <1> QED BY <1>2, <1>3 DEF Call

LEMMA OutermostBegins ==
  ASSUME NEW D, NEW p, ParserOK(p), NEW e, Reads(D, p, e), Call(p) = "parse"
  PROVE  Begins(e, 0) = 1
  <1>1. p.calls = <<>>
    BY CallIn
  <1>2. Len(e) = 0
    BY <1>1 DEF Reads, Stack
  <1> QED BY <1>2 DEF Begins

LEMMA AcceptSound ==
  ASSUME NEW D, NEW p, IsParser(p), NEW v, whole, p.next = Len(rule) + 1, <<"parse", 1, p.next, v>> \in D
  PROVE  Sound(D, Find(p, v, "accepted"))
  <1> DEFINE q == Find(p, v, "accepted")
  <1>1. IsAt(q, "accepted", p.calls, p.lefts, v, p.next, p.depth)
    BY FindIs
  <1> HIDE DEF q
  <1>2. Sound(D, q)
    BY <1>1 DEF Sound, IsAt, Stops
  <1> QED BY <1>2 DEF q

LEMMA StartSound ==
  ASSUME NEW D, NEW f, NEW p, NEW e, NEW t, Ready(D, f, p, e, t), p.at = "start"
  PROVE  Sound(D, Start(p, t))
  <1>1. /\ Call(p) = "parse" /\ p.next = Begins(e, 0) /\ Begins(e, 0) = 1
    <2>1. /\ Place(D, "start", Call(p), Begins(e, 0), p.next, p.value) /\ ParserOK(p) /\ Reads(D, p, e)
      BY ReadyIs
    <2>2. Call(p) = "parse" /\ p.next = Begins(e, 0)
      BY <2>1 DEF Place
    <2> QED BY <2>1, <2>2, OutermostBegins
  <1>2. CASE t = End
    <2>1. Start(p, t) = Find(p, Bool(FALSE), "accepted")
      BY <1>2 DEF Start
    <2>2. whole /\ p.next = Len(rule) + 1 /\ IsParser(p)
      BY <1>2, ReadyIs
    <2>3. <<"parse", 1, p.next, Bool(FALSE)>> \in D
      BY <1>1, ReadyIs DEF Spans, Closed, DerivesParse
    <2>4. Sound(D, Find(p, Bool(FALSE), "accepted"))
      BY <2>2, <2>3, AcceptSound
    <2> QED BY <2>1, <2>4
  <1>3. CASE t # End
    <2>1. Start(p, t) = Go(p, "not_expr")
      BY <1>3 DEF Start
    <2>2. Place(D, "not_expr", Call(p), Begins(e, 0), p.next, p.value)
      BY <1>1 DEF Place, Inner, Relations, Comparisons, TextOperators
    <2>3. "not_expr" \in Places
      BY DEF Places
    <2>4. Sound(D, Go(p, "not_expr"))
      BY <2>2, <2>3, ReadyIs, GoSound
    <2> QED BY <2>1, <2>4
  <1> QED BY <1>2, <1>3

LEMMA NotExprSound ==
  ASSUME NEW D, NEW f, NEW p, NEW e, NEW t, Ready(D, f, p, e, t), p.at = "not_expr"
  PROVE  Sound(D, NotExpr(p, t))
  <1>1. /\ Place(D, "not_expr", Call(p), Begins(e, 0), p.next, p.value) /\ Spans(D, Begins(e, 0), p.next, f)
        /\ ParserOK(p) /\ Reads(D, p, e)
    BY ReadyIs
  <1>2. CASE t = "not"
    <2>1. NotExpr(p, t) = Enter(p, "not", Null, "not_expr")
      BY <1>2 DEF NotExpr
    <2>2. p.next \in DOMAIN rule /\ rule[p.next] = "not"
      BY <1>2, NotEnd, ReadyIs
    <2>3. /\ Pending(D, "not", Null, p.next, Begins(e, 0), Call(p))
          /\ Place(D, "not_expr", "not", p.next + 1, p.next + 1, p.value)
      BY <1>1, <2>2, NotEntered
    <2>4. "not" \in CallTokens
      BY DEF CallTokens
    <2>5. Sound(D, Enter(p, "not", Null, "not_expr"))
      BY <1>1, <2>3, <2>4, EnterSound
    <2> QED BY <2>1, <2>5
  <1>3. CASE t # "not"
    <2>1. NotExpr(p, t) = Go(p, "primary")
      BY <1>3 DEF NotExpr
    <2>2. IF p.next \in DOMAIN rule THEN rule[p.next] # "not" ELSE whole
      BY <1>3, ReadyIs
    <2>3. Place(D, "primary", Call(p), Begins(e, 0), p.next, p.value)
      BY <1>1, <2>2 DEF Place
    <2>4. "primary" \in Places
      BY DEF Places
    <2>5. Sound(D, Go(p, "primary"))
      BY <1>1, <2>3, <2>4, GoSound
    <2> QED BY <2>1, <2>5
  <1> QED BY <1>2, <1>3

LEMMA PrimarySound ==
  ASSUME NEW D, NEW f, NEW p, NEW e, NEW t, Ready(D, f, p, e, t), p.at = "primary"
  PROVE  Sound(D, Primary(p, t, f))
  <1>1. /\ Place(D, "primary", Call(p), Begins(e, 0), p.next, p.value) /\ Spans(D, Begins(e, 0), p.next, f)
        /\ ParserOK(p) /\ Reads(D, p, e) /\ IsParser(p)
        /\ t # End => p.next \in DOMAIN rule /\ rule[p.next] = t
    BY ReadyIs
  <1>2. "after primary" \in Places
    BY DEF Places
  <1>3. ASSUME NEW v, t # End, Primary(p, t, f) = Find(Eat(p), v, "after primary"),
               \/ t \in DOMAIN Literal /\ v = Literal[t]
               \/ t \in DOMAIN Constant /\ v = Constant[t]
               \/ t \in Fields /\ v = f[t]
        PROVE  Sound(D, Primary(p, t, f))
    <2>1. Place(D, "after primary", Call(p), Begins(e, 0), p.next + 1, v)
      BY <1>1, <1>3, WordRead
    <2>2. Sound(D, Find(Eat(p), v, "after primary"))
      BY <1>1, <1>2, <2>1, FindSound
    <2> QED BY <1>3, <2>2
  <1>4. CASE t \in DOMAIN Literal
    <2>1. t # End /\ Primary(p, t, f) = Find(Eat(p), Literal[t], "after primary")
      BY <1>4, PrimaryIs, NotEnd
    <2> QED BY <1>3, <1>4, <2>1
  <1>5. CASE t \in DOMAIN Constant
    <2>1. t # End /\ Primary(p, t, f) = Find(Eat(p), Constant[t], "after primary")
      BY <1>5, PrimaryIs, NotEnd
    <2> QED BY <1>3, <1>5, <2>1
  <1>6. CASE t \in Fields
    <2>1. t # End /\ Primary(p, t, f) = Find(Eat(p), f[t], "after primary")
      BY <1>6, PrimaryIs, NotEnd
    <2> QED BY <1>3, <1>6, <2>1
  <1>7. CASE t = "not"
    <2>1. p.next \in DOMAIN rule /\ rule[p.next] = "not"
      BY <1>1, <1>7, NotEnd
    <2>2. Primary(p, t, f) = Enter(p, "inner not", Null, "primary")
      BY <1>7, PrimaryIs
    <2>3. /\ Pending(D, "inner not", Null, p.next, Begins(e, 0), Call(p))
          /\ Place(D, "primary", "inner not", p.next + 1, p.next + 1, p.value)
      BY <1>1, <2>1, InnerNotEntered
    <2>4. "inner not" \in CallTokens
      BY DEF CallTokens
    <2>5. Sound(D, Enter(p, "inner not", Null, "primary"))
      BY <1>1, <2>3, <2>4, EnterSound
    <2> QED BY <2>2, <2>5
  <1>8. CASE t = "("
    <2>1. p.next \in DOMAIN rule /\ rule[p.next] = "("
      BY <1>1, <1>8, NotEnd
    <2>2. Primary(p, t, f) = Enter(p, "(", Null, "not_expr")
      BY <1>8, PrimaryIs
    <2>3. /\ Pending(D, "(", Null, p.next, Begins(e, 0), Call(p))
          /\ Place(D, "not_expr", "(", p.next + 1, p.next + 1, p.value)
      BY <1>1, <2>1, ParenthesisEntered
    <2>4. "(" \in CallTokens
      BY DEF CallTokens
    <2>5. Sound(D, Enter(p, "(", Null, "not_expr"))
      BY <1>1, <2>3, <2>4, EnterSound
    <2> QED BY <2>2, <2>5
  <1>9. CASE t = "["
    <2>1. p.next \in DOMAIN rule /\ rule[p.next] = "["
      BY <1>1, <1>9, NotEnd
    <2>2. Primary(p, t, f) = Enter(p, "[", List(<<>>), "items")
      BY <1>9, PrimaryIs
    <2>3. /\ Pending(D, "[", List(<<>>), p.next, Begins(e, 0), Call(p))
          /\ Place(D, "items", "[", p.next + 1, p.next + 1, p.value)
      BY <1>1, <2>1, ListEntered
    <2>4. "[" \in CallTokens
      BY DEF CallTokens
    <2>5. Sound(D, Enter(p, "[", List(<<>>), "items"))
      BY <1>1, <2>3, <2>4, EnterSound
    <2> QED BY <2>2, <2>5
  <1>10. CASE t \notin DOMAIN Literal \cup DOMAIN Constant \cup Fields \cup {"not", "(", "["}
    <2>1. Primary(p, t, f) = Go(p, "rejected")
      BY <1>10, PrimaryIs
    <2>2. "rejected" \in Stops \ {"accepted"}
      BY DEF Stops
    <2>3. Sound(D, Go(p, "rejected"))
      BY <1>1, <2>2, StopSound
    <2> QED BY <2>1, <2>3
  <1> QED BY <1>4, <1>5, <1>6, <1>7, <1>8, <1>9, <1>10

LEMMA ItemsSound ==
  ASSUME NEW D, NEW f, NEW p, NEW e, NEW t, Ready(D, f, p, e, t), p.at = "items"
  PROVE  Sound(D, Items(p, t))
  <1>1. /\ Place(D, "items", Call(p), Begins(e, 0), p.next, p.value) /\ Spans(D, Begins(e, 0), p.next, f)
        /\ ParserOK(p) /\ Reads(D, p, e)
        /\ t # End => p.next \in DOMAIN rule /\ rule[p.next] = t
    BY ReadyIs
  <1>2. Call(p) = "[" /\ p.calls # <<>>
    BY <1>1, CallIn DEF Place
  <1>3. /\ Head(e) \in Nat /\ Begins(e, 1) \in Nat \ {0} /\ Begins(e, 0) = Head(e) + 1
        /\ Pending(D, Call(p), Left(p), Head(e), Begins(e, 1), Over(p.calls, 1))
    BY <1>1, <1>2, InnermostIs
  <1>4. Spans(D, Begins(e, 1), p.next, f)
    BY <1>1, <1>3 DEF Spans
  <1>5. CASE t = "]"
    <2>1. Items(p, t) = Return(Eat(p), Left(p), "after primary")
      BY <1>5 DEF Items
    <2>2. p.next \in DOMAIN rule /\ rule[p.next] = "]"
      BY <1>1, <1>5, NotEnd
    <2>3. Place(D, "after primary", Over(p.calls, 1), Begins(e, 1), p.next + 1, Left(p))
      BY <1>1, <1>2, <1>3, <1>4, <2>2, EmptyListRead
    <2>4. "after primary" \in Places
      BY DEF Places
    <2>5. Sound(D, Return(Eat(p), Left(p), "after primary"))
      BY <1>1, <1>2, <2>3, <2>4, ReturnSound
    <2> QED BY <2>1, <2>5
  <1>6. CASE t # "]"
    <2>1. Items(p, t) = Go(p, "primary")
      BY <1>6 DEF Items
    <2>2. Place(D, "primary", Call(p), Begins(e, 0), p.next, p.value)
      BY <1>1, <1>2 DEF Place, Inner
    <2>3. "primary" \in Places
      BY DEF Places
    <2>4. Sound(D, Go(p, "primary"))
      BY <1>1, <2>2, <2>3, GoSound
    <2> QED BY <2>1, <2>4
  <1> QED BY <1>5, <1>6

LEMMA MoreItemsSound ==
  ASSUME NEW D, NEW f, NEW p, NEW e, NEW t, Ready(D, f, p, e, t), p.at = "after primary", Call(p) = "["
  PROVE  Sound(D, MoreItems(p, t))
  <1> DEFINE u == List(Append(Left(p).items, Plain(p.value)))
  <1>1. /\ Place(D, "after primary", "[", Begins(e, 0), p.next, p.value) /\ Spans(D, Begins(e, 0), p.next, f)
        /\ ParserOK(p) /\ Reads(D, p, e) /\ IsParser(p)
        /\ t # End => p.next \in DOMAIN rule /\ rule[p.next] = t
    BY ReadyIs
  <1>2. p.calls # <<>>
    BY <1>1, CallIn
  <1>3. /\ Head(e) \in Nat /\ Begins(e, 1) \in Nat \ {0} /\ Begins(e, 0) = Head(e) + 1
        /\ Pending(D, "[", Left(p), Head(e), Begins(e, 1), Over(p.calls, 1))
    BY <1>1, <1>2, InnermostIs
  <1>4. Spans(D, Begins(e, 1), p.next, f)
    BY <1>1, <1>3 DEF Spans
  <1>5. CASE t = ","
    <2>1. MoreItems(p, t) = Keep(Eat(p), u, "primary")
      BY <1>5 DEF MoreItems
    <2>2. p.next \in DOMAIN rule /\ rule[p.next] = ","
      BY <1>1, <1>5, NotEnd
    <2>3. /\ Pending(D, "[", u, p.next, Begins(e, 1), Over(p.calls, 1))
          /\ Place(D, "primary", "[", p.next + 1, p.next + 1, p.value)
      <3>1. Place(D, "after primary", "[", Head(e) + 1, p.next, p.value)
        BY <1>1, <1>3
      <3> QED BY <1>3, <1>4, <2>2, <3>1, ListGoesOn
    <2> HIDE DEF u
    <2>4. Sound(D, Keep(Eat(p), u, "primary"))
      BY <1>1, <1>2, <2>3, KeepSound
    <2> QED BY <2>1, <2>4
  <1>6. CASE t = "]"
    <2>1. MoreItems(p, t) = Return(Eat(p), u, "after primary")
      BY <1>6 DEF MoreItems
    <2>2. p.next \in DOMAIN rule /\ rule[p.next] = "]"
      BY <1>1, <1>6, NotEnd
    <2>3. Place(D, "after primary", Over(p.calls, 1), Begins(e, 1), p.next + 1, u)
      BY <1>1, <1>3, <1>4, <2>2, ListRead
    <2> HIDE DEF u
    <2>4. "after primary" \in Places
      BY DEF Places
    <2>5. Sound(D, Return(Eat(p), u, "after primary"))
      BY <1>1, <1>2, <2>3, <2>4, ReturnSound
    <2> QED BY <2>1, <2>5
  <1>7. CASE t \notin {",", "]"}
    <2>1. MoreItems(p, t) = Go(p, "rejected")
      BY <1>7 DEF MoreItems
    <2>2. "rejected" \in Stops \ {"accepted"}
      BY DEF Stops
    <2>3. Sound(D, Go(p, "rejected"))
      BY <1>1, <2>2, StopSound
    <2> QED BY <2>1, <2>3
  <1> QED BY <1>5, <1>6, <1>7

LEMMA ComparedIs ==
  ASSUME NEW p, NEW op
  PROVE  /\ Invalid(op, p.value) => Compared(p, op) = Go(p, "badPattern")
         /\ ~Invalid(op, p.value) /\ Overflows(op, Left(p), p.value) => Compared(p, op) = Go(p, "overflowed")
         /\ ~Invalid(op, p.value) /\ ~Overflows(op, Left(p), p.value) =>
              Compared(p, op) = Return(p, Apply(op, Left(p), p.value), "after not_expr")
  <1>1. CASE Invalid(op, p.value)
    <2>1. ~Overflows(op, Left(p), p.value)
      BY <1>1 DEF Invalid, Overflows, Comparisons
    <2>2. Compared(p, op) = Go(p, "badPattern")
      BY <1>1, <2>1 DEF Compared
    <2> QED BY <1>1, <2>2
  <1>2. CASE ~Invalid(op, p.value) /\ Overflows(op, Left(p), p.value)
    <2>1. Compared(p, op) = Go(p, "overflowed")
      BY <1>2 DEF Compared
    <2> QED BY <1>2, <2>1
  <1>3. CASE ~Invalid(op, p.value) /\ ~Overflows(op, Left(p), p.value)
    <2>1. Compared(p, op) = Return(p, Apply(op, Left(p), p.value), "after not_expr")
      BY <1>3 DEF Compared
    <2> QED BY <1>3, <2>1
  <1> QED BY <1>1, <1>2, <1>3

LEMMA ComparedSound ==
  ASSUME NEW D, NEW f, NEW p, NEW e, NEW t, Ready(D, f, p, e, t), p.at = "after primary",
         Call(p) \in Relations
  PROVE  Sound(D, Compared(p, Call(p)))
  <1> DEFINE call == Call(p)
             u == Apply(call, Left(p), p.value)
  <1>1. /\ Place(D, "after primary", call, Begins(e, 0), p.next, p.value) /\ Spans(D, Begins(e, 0), p.next, f)
        /\ ParserOK(p) /\ Reads(D, p, e) /\ IsParser(p)
    BY ReadyIs
  <1>2. p.calls # <<>>
    BY <1>1, CallIn DEF Relations, Comparisons, TextOperators
  <1>3. /\ Head(e) \in Nat /\ Begins(e, 1) \in Nat \ {0} /\ Begins(e, 0) = Head(e) + 1
        /\ Pending(D, call, Left(p), Head(e), Begins(e, 1), Over(p.calls, 1))
    BY <1>1, <1>2, InnermostIs
  <1>4. Spans(D, Begins(e, 1), p.next, f)
    BY <1>1, <1>3 DEF Spans
  <1>5. Place(D, "after primary", call, Head(e) + 1, p.next, p.value)
    BY <1>1, <1>3
  <1>6. {"badPattern", "overflowed"} \subseteq Stops \ {"accepted"} /\ "after not_expr" \in Places
    BY DEF Stops, Places
  <1>7. call \in Relations
    OBVIOUS
  <1> HIDE DEF call
  <1>8. CASE Invalid(call, p.value)
    <2>1. Compared(p, call) = Go(p, "badPattern")
      BY <1>8, ComparedIs
    <2>2. Sound(D, Go(p, "badPattern"))
      BY <1>1, <1>6, StopSound
    <2> QED BY <2>1, <2>2 DEF call
  <1>9. CASE ~Invalid(call, p.value) /\ Overflows(call, Left(p), p.value)
    <2>1. Compared(p, call) = Go(p, "overflowed")
      BY <1>9, ComparedIs
    <2>2. Sound(D, Go(p, "overflowed"))
      BY <1>1, <1>6, StopSound
    <2> QED BY <2>1, <2>2 DEF call
  <1>10. CASE ~Invalid(call, p.value) /\ ~Overflows(call, Left(p), p.value)
    <2>1. Compared(p, call) = Return(p, u, "after not_expr")
      BY <1>10, ComparedIs DEF u
    <2>2. Place(D, "after not_expr", Over(p.calls, 1), Begins(e, 1), p.next, u)
      BY <1>3, <1>4, <1>5, <1>7, <1>10, ComparisonRead
    <2> HIDE DEF u
    <2>3. Sound(D, Return(p, u, "after not_expr"))
      BY <1>1, <1>2, <1>6, <2>2, ReturnSound
    <2> QED BY <2>1, <2>3 DEF call
  <1> QED BY <1>8, <1>9, <1>10

LEMMA AfterPrimarySound ==
  ASSUME NEW D, NEW f, NEW p, NEW e, NEW t, Ready(D, f, p, e, t), p.at = "after primary"
  PROVE  Sound(D, AfterPrimary(p, t))
  <1>1. /\ Place(D, "after primary", Call(p), Begins(e, 0), p.next, p.value) /\ Spans(D, Begins(e, 0), p.next, f)
        /\ ParserOK(p) /\ Reads(D, p, e) /\ IsParser(p)
        /\ t # End => p.next \in DOMAIN rule /\ rule[p.next] = t
    BY ReadyIs
  <1>2. CASE Call(p) = "inner not"
    <2> DEFINE u == Bool(~Truthy(p.value))
    <2>1. AfterPrimary(p, t) = Return(p, u, "after primary")
      BY <1>2 DEF AfterPrimary, Relations, Comparisons, TextOperators
    <2>2. p.calls # <<>>
      BY <1>1, <1>2, CallIn
    <2>3. /\ Head(e) \in Nat /\ Begins(e, 1) \in Nat \ {0} /\ Begins(e, 0) = Head(e) + 1
          /\ Pending(D, "inner not", Left(p), Head(e), Begins(e, 1), Over(p.calls, 1))
      BY <1>1, <1>2, <2>2, InnermostIs
    <2>4. Spans(D, Begins(e, 1), p.next, f)
      BY <1>1, <2>3 DEF Spans
    <2>5. Place(D, "after primary", "inner not", Head(e) + 1, p.next, p.value)
      BY <1>1, <1>2, <2>3
    <2>6. Place(D, "after primary", Over(p.calls, 1), Begins(e, 1), p.next, u)
      BY <2>3, <2>4, <2>5, InnerNotRead
    <2> HIDE DEF u
    <2>7. "after primary" \in Places
      BY DEF Places
    <2>8. Sound(D, Return(p, u, "after primary"))
      BY <1>1, <2>2, <2>6, <2>7, ReturnSound
    <2> QED BY <2>1, <2>8
  <1>3. CASE Call(p) = "["
    <2>1. AfterPrimary(p, t) = MoreItems(p, t)
      BY <1>3 DEF AfterPrimary, Relations, Comparisons, TextOperators
    <2> QED BY <1>3, <2>1, MoreItemsSound
  <1>4. CASE Call(p) \in Relations
    <2>1. AfterPrimary(p, t) = Compared(p, Call(p))
      BY <1>4 DEF AfterPrimary, Relations, Comparisons, TextOperators
    <2> QED BY <1>4, <2>1, ComparedSound
  <1>5. CASE Call(p) \notin Inner /\ t \in Relations
    <2>1. AfterPrimary(p, t) = Enter(p, t, p.value, "primary")
      BY <1>5 DEF AfterPrimary, Inner
    <2>2. p.next \in DOMAIN rule /\ rule[p.next] = t
      BY <1>1, <1>5, NotEnd
    <2>3. /\ Pending(D, t, p.value, p.next, Begins(e, 0), Call(p))
          /\ Place(D, "primary", t, p.next + 1, p.next + 1, p.value)
      BY <1>1, <1>5, <2>2, RelationEntered
    <2>4. t \in CallTokens
      BY <1>5 DEF CallTokens
    <2>5. Sound(D, Enter(p, t, p.value, "primary"))
      BY <1>1, <2>3, <2>4, EnterSound
    <2> QED BY <2>1, <2>5
  <1>6. CASE Call(p) \notin Inner /\ t \notin Relations
    <2>1. AfterPrimary(p, t) = Go(p, "after not_expr")
      BY <1>6 DEF AfterPrimary, Inner
    <2>2. Place(D, "after not_expr", Call(p), Begins(e, 0), p.next, p.value)
      BY <1>1, <1>6, OperandRead
    <2>3. "after not_expr" \in Places
      BY DEF Places
    <2>4. Sound(D, Go(p, "after not_expr"))
      BY <1>1, <2>2, <2>3, GoSound
    <2> QED BY <2>1, <2>4
  <1> QED BY <1>2, <1>3, <1>4, <1>5, <1>6 DEF Inner

LEMMA AfterNotExprSound ==
  ASSUME NEW D, NEW f, NEW p, NEW e, NEW t, Ready(D, f, p, e, t), p.at = "after not_expr"
  PROVE  Sound(D, AfterNotExpr(p, t))
  <1>1. /\ Place(D, "after not_expr", Call(p), Begins(e, 0), p.next, p.value) /\ Spans(D, Begins(e, 0), p.next, f)
        /\ ParserOK(p) /\ Reads(D, p, e) /\ IsParser(p)
        /\ t # End => p.next \in DOMAIN rule /\ rule[p.next] = t
    BY ReadyIs
  <1>2. "after not_expr" \in Places /\ "after and_expr" \in Places
    BY DEF Places
  <1>3. ASSUME Call(p) \in {"not", "and"}
        PROVE  /\ p.calls # <<>>
               /\ Head(e) \in Nat /\ Spans(D, Begins(e, 1), p.next, f)
               /\ Pending(D, Call(p), Left(p), Head(e), Begins(e, 1), Over(p.calls, 1))
               /\ Place(D, "after not_expr", Call(p), Head(e) + 1, p.next, p.value)
    <2>1. p.calls # <<>>
      BY <1>1, <1>3, CallIn
    <2>2. /\ Head(e) \in Nat /\ Begins(e, 1) \in Nat \ {0} /\ Begins(e, 0) = Head(e) + 1
          /\ Pending(D, Call(p), Left(p), Head(e), Begins(e, 1), Over(p.calls, 1))
      BY <1>1, <2>1, InnermostIs
    <2>3. Spans(D, Begins(e, 1), p.next, f)
      BY <1>1, <2>2 DEF Spans
    <2> QED BY <1>1, <2>1, <2>2, <2>3
  <1>4. CASE Call(p) = "not"
    <2> DEFINE u == Bool(~Truthy(p.value))
    <2>1. AfterNotExpr(p, t) = Return(p, u, "after not_expr")
      BY <1>4 DEF AfterNotExpr
    <2>2. Place(D, "after not_expr", Over(p.calls, 1), Begins(e, 1), p.next, u)
      BY <1>3, <1>4, NotRead
    <2> HIDE DEF u
    <2>3. Sound(D, Return(p, u, "after not_expr"))
      BY <1>1, <1>2, <1>3, <1>4, <2>2, ReturnSound
    <2> QED BY <2>1, <2>3
  <1>5. CASE Call(p) = "and"
    <2> DEFINE u == Bool(Truthy(Left(p)) /\ Truthy(p.value))
    <2>1. AfterNotExpr(p, t) = Return(p, u, "after not_expr")
      BY <1>5 DEF AfterNotExpr
    <2>2. Place(D, "after not_expr", Over(p.calls, 1), Begins(e, 1), p.next, u)
      <3> DEFINE b == Begins(e, 1)
                 over == Over(p.calls, 1)
                 x == Head(e)
                 left == Left(p)
                 n == p.next
                 v == p.value
      <3>1. /\ x \in Nat /\ Spans(D, b, n, f) /\ Pending(D, "and", left, x, b, over)
            /\ Place(D, "after not_expr", "and", x + 1, n, v)
        BY <1>3, <1>5
      <3> HIDE DEF b, over, x, left, n, v
      <3>2. Place(D, "after not_expr", over, b, n, Bool(Truthy(left) /\ Truthy(v)))
        BY <3>1, AndRead
      <3> QED BY <3>2 DEF b, over, left, n, v
    <2> HIDE DEF u
    <2>3. Sound(D, Return(p, u, "after not_expr"))
      BY <1>1, <1>2, <1>3, <1>5, <2>2, ReturnSound
    <2> QED BY <2>1, <2>3
  <1>6. CASE Call(p) \notin {"not", "and"} /\ t = "and"
    <2>1. AfterNotExpr(p, t) = Enter(p, "and", p.value, "not_expr")
      BY <1>6 DEF AfterNotExpr
    <2>2. p.next \in DOMAIN rule /\ rule[p.next] = "and"
      BY <1>1, <1>6, NotEnd
    <2>3. Call(p) \in Outer
      BY <1>1, <1>6, CallIn DEF Outer, Place, Inner, CallTokens
    <2>4. /\ Pending(D, "and", p.value, p.next, Begins(e, 0), Call(p))
          /\ Place(D, "not_expr", "and", p.next + 1, p.next + 1, p.value)
      BY <1>1, <2>2, <2>3, AndEntered
    <2>5. "and" \in CallTokens
      BY DEF CallTokens
    <2>6. Sound(D, Enter(p, "and", p.value, "not_expr"))
      BY <1>1, <2>4, <2>5, EnterSound
    <2> QED BY <2>1, <2>6
  <1>7. CASE Call(p) \notin {"not", "and"} /\ t # "and"
    <2>1. AfterNotExpr(p, t) = Go(p, "after and_expr")
      BY <1>7 DEF AfterNotExpr
    <2>2. Call(p) \in Outer
      BY <1>1, <1>7, CallIn DEF Outer, Place, Inner, CallTokens
    <2>3. Place(D, "after and_expr", Call(p), Begins(e, 0), p.next, p.value)
      BY <1>1, <2>2, AndsRead
    <2>4. Sound(D, Go(p, "after and_expr"))
      BY <1>1, <1>2, <2>3, GoSound
    <2> QED BY <2>1, <2>4
  <1> QED BY <1>4, <1>5, <1>6, <1>7

LEMMA AfterAndExprSound ==
  ASSUME NEW D, NEW f, NEW p, NEW e, NEW t, Ready(D, f, p, e, t), p.at = "after and_expr"
  PROVE  Sound(D, AfterAndExpr(p, t))
  <1>1. /\ Place(D, "after and_expr", Call(p), Begins(e, 0), p.next, p.value) /\ Spans(D, Begins(e, 0), p.next, f)
        /\ ParserOK(p) /\ Reads(D, p, e) /\ IsParser(p)
        /\ t # End => p.next \in DOMAIN rule /\ rule[p.next] = t
    BY ReadyIs
  <1>2. "after or_expr" \in Places /\ "after and_expr" \in Places
    BY DEF Places
  <1>3. CASE Call(p) = "or"
    <2> DEFINE u == Bool(Truthy(Left(p)) \/ Truthy(p.value))
    <2>1. AfterAndExpr(p, t) = Return(p, u, "after and_expr")
      BY <1>3 DEF AfterAndExpr
    <2>2. p.calls # <<>>
      BY <1>1, <1>3, CallIn
    <2>3. /\ Head(e) \in Nat /\ Begins(e, 1) \in Nat \ {0} /\ Begins(e, 0) = Head(e) + 1
          /\ Pending(D, "or", Left(p), Head(e), Begins(e, 1), Over(p.calls, 1))
      BY <1>1, <1>3, <2>2, InnermostIs
    <2>4. Spans(D, Begins(e, 1), p.next, f)
      BY <1>1, <2>3 DEF Spans
    <2>5. Place(D, "after and_expr", "or", Head(e) + 1, p.next, p.value)
      BY <1>1, <1>3, <2>3
    <2>6. Place(D, "after and_expr", Over(p.calls, 1), Begins(e, 1), p.next, u)
      <3> DEFINE b == Begins(e, 1)
                 over == Over(p.calls, 1)
                 x == Head(e)
                 left == Left(p)
                 n == p.next
                 v == p.value
      <3>1. /\ x \in Nat /\ Spans(D, b, n, f) /\ Pending(D, "or", left, x, b, over)
            /\ Place(D, "after and_expr", "or", x + 1, n, v)
        BY <2>3, <2>4, <2>5
      <3> HIDE DEF b, over, x, left, n, v
      <3>2. Place(D, "after and_expr", over, b, n, Bool(Truthy(left) \/ Truthy(v)))
        BY <3>1, OrRead
      <3> QED BY <3>2 DEF b, over, left, n, v
    <2> HIDE DEF u
    <2>7. Sound(D, Return(p, u, "after and_expr"))
      BY <1>1, <1>2, <2>2, <2>6, ReturnSound
    <2> QED BY <2>1, <2>7
  <1>4. CASE Call(p) # "or" /\ t = "or"
    <2>1. AfterAndExpr(p, t) = Enter(p, "or", p.value, "not_expr")
      BY <1>4 DEF AfterAndExpr
    <2>2. p.next \in DOMAIN rule /\ rule[p.next] = "or"
      BY <1>1, <1>4, NotEnd
    <2>3. /\ Pending(D, "or", p.value, p.next, Begins(e, 0), Call(p))
          /\ Place(D, "not_expr", "or", p.next + 1, p.next + 1, p.value)
      BY <1>1, <1>4, <2>2, OrEntered
    <2>4. "or" \in CallTokens
      BY DEF CallTokens
    <2>5. Sound(D, Enter(p, "or", p.value, "not_expr"))
      BY <1>1, <2>3, <2>4, EnterSound
    <2> QED BY <2>1, <2>5
  <1>5. CASE Call(p) # "or" /\ t # "or"
    <2>1. AfterAndExpr(p, t) = Go(p, "after or_expr")
      BY <1>5 DEF AfterAndExpr
    <2>2. Place(D, "after or_expr", Call(p), Begins(e, 0), p.next, p.value)
      BY <1>1, <1>5, OrsRead
    <2>3. Sound(D, Go(p, "after or_expr"))
      BY <1>1, <1>2, <2>2, GoSound
    <2> QED BY <2>1, <2>3
  <1> QED BY <1>3, <1>4, <1>5

LEMMA AfterOrExprSound ==
  ASSUME NEW D, NEW f, NEW p, NEW e, NEW t, Ready(D, f, p, e, t), p.at = "after or_expr"
  PROVE  Sound(D, AfterOrExpr(p, t))
  <1>1. /\ Place(D, "after or_expr", Call(p), Begins(e, 0), p.next, p.value) /\ Spans(D, Begins(e, 0), p.next, f)
        /\ ParserOK(p) /\ Reads(D, p, e) /\ IsParser(p)
        /\ t # End => p.next \in DOMAIN rule /\ rule[p.next] = t
        /\ p.next \in DOMAIN rule => rule[p.next] = t /\ t # End
        /\ p.next \notin DOMAIN rule => whole /\ p.next = Len(rule) + 1
    BY ReadyIs
  <1>2. CASE Call(p) = "(" /\ t = ")"
    <2>1. AfterOrExpr(p, t) = Return(Eat(p), p.value, "after primary")
      BY <1>2 DEF AfterOrExpr
    <2>2. p.calls # <<>>
      BY <1>1, <1>2, CallIn
    <2>3. /\ Head(e) \in Nat /\ Begins(e, 1) \in Nat \ {0} /\ Begins(e, 0) = Head(e) + 1
          /\ Pending(D, "(", Left(p), Head(e), Begins(e, 1), Over(p.calls, 1))
      BY <1>1, <1>2, <2>2, InnermostIs
    <2>4. Spans(D, Begins(e, 1), p.next, f)
      BY <1>1, <2>3 DEF Spans
    <2>5. Place(D, "after or_expr", "(", Head(e) + 1, p.next, p.value)
      BY <1>1, <1>2, <2>3
    <2>6. p.next \in DOMAIN rule /\ rule[p.next] = ")"
      BY <1>1, <1>2, NotEnd
    <2>7. Place(D, "after primary", Over(p.calls, 1), Begins(e, 1), p.next + 1, p.value)
      BY <2>3, <2>4, <2>5, <2>6, ParenthesisRead
    <2>8. "after primary" \in Places
      BY DEF Places
    <2>9. Sound(D, Return(Eat(p), p.value, "after primary"))
      BY <1>1, <2>2, <2>7, <2>8, ReturnSound
    <2> QED BY <2>1, <2>9
  <1>3. CASE Call(p) = "parse" /\ t = End
    <2> DEFINE u == Bool(Truthy(p.value))
    <2>1. AfterOrExpr(p, t) = Find(p, u, "accepted")
      BY <1>3 DEF AfterOrExpr
    <2>2. Begins(e, 0) = 1 /\ whole /\ p.next = Len(rule) + 1
      BY <1>1, <1>3, OutermostBegins
    <2>3. <<"or_expr", 1, p.next, p.value>> \in D
      BY <1>1, <2>2 DEF Place
    <2>4. <<"parse", 1, p.next, u>> \in D
      BY <1>1, <2>3 DEF Spans, Closed, DerivesParse
    <2> HIDE DEF u
    <2>5. Sound(D, Find(p, u, "accepted"))
      BY <1>1, <2>2, <2>4, AcceptSound
    <2> QED BY <2>1, <2>5
  <1>4. CASE ~(Call(p) = "(" /\ t = ")") /\ ~(Call(p) = "parse" /\ t = End)
    <2>1. AfterOrExpr(p, t) = Go(p, "rejected")
      BY <1>4 DEF AfterOrExpr
    <2>2. "rejected" \in Stops \ {"accepted"}
      BY DEF Stops
    <2>3. Sound(D, Go(p, "rejected"))
      BY <1>1, <2>2, StopSound
    <2> QED BY <2>1, <2>3
  <1> QED BY <1>2, <1>3, <1>4

LEMMA StepSound ==
  ASSUME NEW D, NEW f, NEW p, NEW e, NEW t, Ready(D, f, p, e, t), p.at \in Places
  PROVE  Sound(D, Step(p, t, f))
  <1>1. CASE p.at = "start"
    <2>1. Step(p, t, f) = Start(p, t)
      BY <1>1, StepIs
    <2>2. Sound(D, Start(p, t))
      BY <1>1, StartSound
    <2> QED BY <2>1, <2>2
  <1>2. CASE p.at = "not_expr"
    <2>1. Step(p, t, f) = NotExpr(p, t)
      BY <1>2, StepIs
    <2>2. Sound(D, NotExpr(p, t))
      BY <1>2, NotExprSound
    <2> QED BY <2>1, <2>2
  <1>3. CASE p.at = "primary"
    <2>1. Step(p, t, f) = Primary(p, t, f)
      BY <1>3, StepIs
    <2>2. Sound(D, Primary(p, t, f))
      BY <1>3, PrimarySound
    <2> QED BY <2>1, <2>2
  <1>4. CASE p.at = "items"
    <2>1. Step(p, t, f) = Items(p, t)
      BY <1>4, StepIs
    <2>2. Sound(D, Items(p, t))
      BY <1>4, ItemsSound
    <2> QED BY <2>1, <2>2
  <1>5. CASE p.at = "after primary"
    <2>1. Step(p, t, f) = AfterPrimary(p, t)
      BY <1>5, StepIs
    <2>2. Sound(D, AfterPrimary(p, t))
      BY <1>5, AfterPrimarySound
    <2> QED BY <2>1, <2>2
  <1>6. CASE p.at = "after not_expr"
    <2>1. Step(p, t, f) = AfterNotExpr(p, t)
      BY <1>6, StepIs
    <2>2. Sound(D, AfterNotExpr(p, t))
      BY <1>6, AfterNotExprSound
    <2> QED BY <2>1, <2>2
  <1>7. CASE p.at = "after and_expr"
    <2>1. Step(p, t, f) = AfterAndExpr(p, t)
      BY <1>7, StepIs
    <2>2. Sound(D, AfterAndExpr(p, t))
      BY <1>7, AfterAndExprSound
    <2> QED BY <2>1, <2>2
  <1>8. CASE p.at = "after or_expr"
    <2>1. Step(p, t, f) = AfterOrExpr(p, t)
      BY <1>8, StepIs
    <2>2. Sound(D, AfterOrExpr(p, t))
      BY <1>8, AfterOrExprSound
    <2> QED BY <2>1, <2>2
  <1> QED BY <1>1, <1>2, <1>3, <1>4, <1>5, <1>6, <1>7, <1>8 DEF Places

-----------------------------------------------------------------------------
(* The invariant.                                                          *)

ReadsItsGrammar == \A f \in Facts : \A D : Closed(D, rule, f) => Sound(D, parser[f])

LEMMA InitSound == RuleInit => ReadsItsGrammar
  <1> SUFFICES ASSUME RuleInit, NEW f \in Facts, NEW D PROVE Sound(D, parser[f])
    BY DEF ReadsItsGrammar
  <1>1. parser[f] = Fresh
    BY DEF RuleInit
  <1>2. /\ Fresh.at = "start" /\ Fresh.calls = <<>> /\ Fresh.lefts = <<>> /\ Fresh.next = 1
    BY FreshOK
  <1>3. Stack(D, <<>>, <<>>, <<>>)
    <2>1. <<>> \in Seq(CallTokens) /\ <<>> \in Seq({}) /\ <<>> \in Seq(Nat) /\ Len(<<>>) = 0
      OBVIOUS
    <2>2. AllPending(D, <<>>, <<>>, <<>>)
      BY <2>1 DEF AllPending
    <2> QED BY <2>1, <2>2 DEF Stack
  <1>4. Begins(<<>>, 0) = 1 /\ Over(<<>>, 0) = "parse"
    BY DEF Begins, Over
  <1>5. Place(D, "start", "parse", 1, 1, Fresh.value)
    BY DEF Place
  <1>6. Reads(D, Fresh, <<>>)
    BY <1>2, <1>3, <1>4, <1>5 DEF Reads
  <1>7. Fresh.at \notin Stops /\ Fresh.at # "accepted"
    BY <1>2 DEF Stops
  <1> QED BY <1>1, <1>6, <1>7 DEF Sound

\* The rule may grow, until it is whole.
Grows ==
  /\ \A i \in DOMAIN rule : i \in DOMAIN rule' /\ rule'[i] = rule[i]
  /\ whole => whole' /\ rule' = rule

LEMMA PendingKept ==
  ASSUME NEW D, NEW call, NEW left, NEW x, NEW b, NEW over, Pending(D, call, left, x, b, over), Grows
  PROVE  Pending(D, call, left, x, b, over)'
  BY DEF Pending, Grows

LEMMA PlaceKept ==
  ASSUME NEW D, NEW at, NEW call, NEW b, NEW n, NEW v, Place(D, at, call, b, n, v), Grows,
         at = "items" => b - 1 \in DOMAIN rule
  PROVE  Place(D, at, call, b, n, v)'
  BY DEF Place, Grows

LEMMA StackKept ==
  ASSUME NEW D, NEW calls, NEW lefts, NEW e, Stack(D, calls, lefts, e), Grows
  PROVE  Stack(D, calls, lefts, e)'
  <1>1. ASSUME NEW k \in 1..Len(calls)
        PROVE  Pending(D, calls[k], lefts[k], e[k], Begins(e, k), Over(calls, k))'
    <2> DEFINE b == Begins(e, k)
               over == Over(calls, k)
    <2>1. Pending(D, calls[k], lefts[k], e[k], b, over)
      BY DEF Stack, AllPending
    <2> HIDE DEF b, over
    <2>2. Pending(D, calls[k], lefts[k], e[k], b, over)'
      BY <2>1, PendingKept
    <2> QED BY <2>2 DEF b, over
  <1> QED BY <1>1 DEF Stack, AllPending

\* What a parser has read stands when the rule grows.
LEMMA SoundKept ==
  ASSUME NEW D, NEW p, Sound(D, p), Grows
  PROVE  Sound(D, p)'
  <1>1. CASE p.at = "accepted"
    <2>1. whole' /\ rule' = rule /\ p.next = Len(rule) + 1 /\ <<"parse", 1, p.next, p.value>> \in D
      BY <1>1 DEF Sound, Grows
    <2> QED BY <1>1, <2>1 DEF Sound, Stops
  <1>2. CASE p.at \in Stops \ {"accepted"}
    BY <1>2 DEF Sound
  <1>3. CASE p.at \notin Stops
    <2> PICK e : Reads(D, p, e)
      BY <1>3 DEF Sound
    <2> DEFINE call == Over(p.calls, 0)
               b == Begins(e, 0)
               calls == p.calls
               lefts == p.lefts
               at == p.at
               n == p.next
               v == p.value
    <2>1. Stack(D, calls, lefts, e) /\ Place(D, at, call, b, n, v)
      BY DEF Reads
    <2>2. at = "items" => b - 1 \in DOMAIN rule
      <3> SUFFICES ASSUME at = "items" PROVE b - 1 \in DOMAIN rule
        OBVIOUS
      <3>1. calls # <<>>
        BY <2>1 DEF Place, Stack, Over
      <3>2. b = Head(e) + 1 /\ Head(e) \in Nat /\ Head(e) \in DOMAIN rule
        <4> HIDE DEF calls, lefts, at
        <4> QED BY <2>1, <3>1, StackTop
      <3> HIDE DEF b
      <3> QED BY <3>2
    <2> HIDE DEF call, b, calls, lefts, at, n, v
    <2>3. Stack(D, calls, lefts, e)'
      BY <2>1, StackKept
    <2>4. Place(D, at, call, b, n, v)'
      BY <2>1, <2>2, PlaceKept
    <2>5. Reads(D, p, e)'
      BY <2>3, <2>4 DEF Reads, call, b, calls, lefts, at, n, v
    <2>6. p.at # "accepted"
      BY <1>3 DEF Stops
    <2> QED BY <1>3, <2>5, <2>6 DEF Sound
  <1> QED BY <1>1, <1>2, <1>3

LEMMA AdvanceSound ==
  ASSUME RuleInv, ReadsItsGrammar, Advance, NEW f \in Facts, NEW D, Closed(D, rule, f)
  PROVE  Sound(D, Step(parser[f], Peek(parser[f]), f))
  <1> DEFINE p == parser[f]
             t == Peek(p)
  <1>1. ~AwaitsToken(p)
    BY DEF Advance
  <1>2. ParserOK(p) /\ rule \in Seq(Tokens)
    BY DEF RuleInv, RuleOK
  <1>3. Sound(D, p)
    BY DEF ReadsItsGrammar
  <1> HIDE DEF p
  <1>4. CASE p.at \in Stops
    <2> HIDE DEF t
    <2>1. Step(p, t, f) = p
      BY <1>4, StepIs
    <2> QED BY <1>3, <2>1 DEF p, t
  <1>5. CASE p.at \notin Stops
    <2>1. PICK e : Reads(D, p, e)
      BY <1>3, <1>5 DEF Sound
    <2>2. p.next \in DOMAIN rule \/ whole
      <3>1. p.next \in Nat \ {0} /\ DOMAIN rule = 1..Len(rule) /\ Len(rule) \in Nat
        BY <1>2 DEF ParserOK
      <3> QED BY <1>1, <1>5, <3>1 DEF AwaitsToken
    <2>3. p.at \in Places
      BY <1>2, <1>5 DEF ParserOK
    <2>4. Ready(D, f, p, e, t)
      BY <1>2, <2>1, <2>2 DEF Ready
    <2> HIDE DEF t
    <2>5. Sound(D, Step(p, t, f))
      BY <2>3, <2>4, StepSound
    <2> QED BY <2>5 DEF p, t
  <1> QED BY <1>4, <1>5

LEMMA SoundInductive ==
  ASSUME RuleInv, ReadsItsGrammar, [RuleNext]_ruleVars
  PROVE  ReadsItsGrammar'
  <1>0. rule \in Seq(Tokens) /\ whole \in BOOLEAN
    BY DEF RuleInv, RuleOK
  <1>1. ASSUME NEW f \in Facts, NEW D, NEW q, Closed(D, rule', f), q = parser'[f]
        PROVE  Sound(D, q)'
    <2>1. CASE Advance
      <3>1. rule' = rule /\ whole' = whole /\ q = Step(parser[f], Peek(parser[f]), f)
        BY <1>1, <2>1 DEF Advance
      <3>2. Sound(D, q)
        BY <1>1, <2>1, <3>1, AdvanceSound
      <3>3. Grows
        BY <3>1 DEF Grows
      <3> QED BY <3>2, <3>3, SoundKept
    <2>2. ASSUME Grows, parser' = parser, Closed(D, rule, f)
          PROVE  Sound(D, q)'
      <3>1. Sound(D, q)
        BY <1>1, <2>2 DEF ReadsItsGrammar
      <3> QED BY <2>2, <3>1, SoundKept
    <2>3. CASE \E t \in Tokens : RevealToken(t)
      <3>1. PICK t \in Tokens : RevealToken(t)
        BY <2>3
      <3>2. rule' = Append(rule, t) /\ whole = FALSE /\ parser' = parser
        BY <1>0, <3>1 DEF RevealToken
      <3>3. Closed(D, rule, f)
        BY <1>0, <1>1, <3>2, ClosedGrows
      <3>4. Grows
        BY <1>0, <3>2 DEF Grows
      <3> QED BY <2>2, <3>2, <3>3, <3>4
    <2>4. CASE RevealEnd \/ UNCHANGED ruleVars
      <3>1. rule' = rule /\ parser' = parser /\ (whole => whole')
        BY <2>4 DEF RevealEnd, ruleVars
      <3>2. Grows
        BY <3>1 DEF Grows
      <3> QED BY <1>1, <2>2, <3>1, <3>2
    <2> QED BY <2>1, <2>3, <2>4 DEF RuleNext
  <1>2. ASSUME NEW f \in Facts, NEW D, Closed(D, rule', f) PROVE Sound(D, parser[f])'
    <2>1. PICK q : q = parser'[f]
      OBVIOUS
    <2>2. Sound(D, q)'
      BY <1>1, <1>2, <2>1
    <2> QED BY <2>1, <2>2 DEF Sound, Reads
  <1> QED BY <1>2 DEF ReadsItsGrammar, Closed

\* What a rule is accepted with is in every set that the productions close:
\* it has a derivation, for the whole of the rule (rules.py:76).
ParsesOnlyItsGrammar ==
  \A f \in Facts : parser[f].at = "accepted" =>
    \A D : Closed(D, rule, f) => <<"parse", 1, Len(rule) + 1, parser[f].value>> \in D

\* A rule is accepted only if "or > and > not > comparison > primary"
\* (rules.py:76) derives it, and with a value it derives, however long the
\* rule and whatever its facts.
THEOREM AcceptsOnlyWhatParses == RuleSpec => []ParsesOnlyItsGrammar
  <1>1. RuleInit => ReadsItsGrammar
    BY InitSound
  <1>2. RuleInv /\ ReadsItsGrammar /\ [RuleNext]_ruleVars => ReadsItsGrammar'
    BY SoundInductive
  <1>3. ReadsItsGrammar => ParsesOnlyItsGrammar
    BY DEF ReadsItsGrammar, ParsesOnlyItsGrammar, Sound
  <1> QED BY <1>1, <1>2, <1>3, RuleInvariance, PTL DEF RuleSpec
=============================================================================
