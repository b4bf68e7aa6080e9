----------------------------- MODULE Extraction -----------------------------
(***************************************************************************)
(* How indicators are found in a text (app/ioc/parser.py), for a report    *)
(* (services.bulk_ingest) and for an event (services._match_indicators).   *)
(*                                                                         *)
(* What the regular expressions match is the input: a text is a set of     *)
(* matches, each a type, the place it spans, and whether its value passes  *)
(* validate.  Matches of one type never overlap.  One text is read side by *)
(* side in the two ways, type by type.                                     *)
(***************************************************************************)
EXTENDS Integers, FiniteSets

CONSTANTS
  NTypes,     \* how many types there are, numbered in the order they are tried
  Length,     \* the length of a text
  MaxMatches  \* bound on the matches in a text

ASSUME ExtractionAssumption == NTypes \in Nat /\ Length \in Nat

VARIABLES
  text,     \* the matches in the text
  tried,    \* how many types have been tried
  claimed   \* what each reading keeps so far

textVars == <<text, tried, claimed>>

Readings == {"report", "event"}

\* keep_noise
KeepsNoise(reading) == reading = "event"

Matches == {m \in [type : 1..NTypes, from : 0..(Length - 1), to : 1..Length, valid : BOOLEAN] :
              m.from < m.to}

Overlap(m, n) == ~(m.to <= n.from \/ n.to <= m.from)

IsText(matches) ==
  \A m, n \in matches : m.type = n.type /\ m # n => ~Overlap(m, n)

TextTypeOK ==
  /\ text \subseteq Matches /\ IsText(text)
  /\ tried \in 0..NTypes
  /\ claimed \in [Readings -> SUBSET text]

TextInit ==
  /\ text = {}
  /\ tried = 0
  /\ claimed = [reading \in Readings |-> {}]

\* One more match in the text that will be read.
FindMatch(m) ==
  /\ tried = 0
  /\ Cardinality(text) < MaxMatches
  /\ text' = text \cup {m} /\ IsText(text')
  /\ UNCHANGED <<tried, claimed>>

\* Mutant of Claim: what is claimed is only looked at where noise is kept.
ClaimOver(reading, type) ==
  claimed[reading] \cup
    {m \in text : /\ m.type = type
                  /\ KeepsNoise(reading) => \A c \in claimed[reading] : ~Overlap(c, m)
                  /\ KeepsNoise(reading) \/ m.valid}

\* One type: its matches that meet nothing claimed, without the noise.
Claim(reading, type) ==
  claimed[reading] \cup
    {m \in text : /\ m.type = type
                  /\ \A c \in claimed[reading] : ~Overlap(c, m)
                  /\ KeepsNoise(reading) \/ m.valid}

\* Mutant of TryType: the most specific type is tried last.
TryReversed ==
  /\ tried < NTypes
  /\ tried' = tried + 1
  /\ claimed' = [reading \in Readings |-> Claim(reading, NTypes - tried)]
  /\ UNCHANGED text

\* The loop of extract.
TryType ==
  /\ tried < NTypes
  /\ tried' = tried + 1
  /\ claimed' = [reading \in Readings |-> Claim(reading, tried + 1)]
  /\ UNCHANGED text

TextNext == (\E m \in Matches \ text : FindMatch(m)) \/ TryType

TextSpec == TextInit /\ [][TextNext]_textVars

\* What bulk_ingest offers to upsert_indicator, which checks it once more.
Stored == {m \in claimed["report"] : m.valid}

\* What _match_indicators looks up.
LookedUp == claimed["event"]

-----------------------------------------------------------------------------
\* "best type first" (app/ioc/parser.py:139): what extract keeps are disjoint
\* parts of the text, and of the types tried it passes a match over only for
\* noise or for a kept match of an earlier type that it overlaps.
BestTypeFirst ==
  \A reading \in Readings :
    LET kept == claimed[reading] IN
    /\ \A m, n \in kept : m # n => ~Overlap(m, n)
    /\ \A m \in text :
         m.type <= tried =>
           (m \notin kept <=>
              \/ ~(KeepsNoise(reading) \/ m.valid)
              \/ \E n \in kept : n.type < m.type /\ Overlap(m, n))

\* The parts of the text whose matches overlap nothing outside.
Clusters == {S \in SUBSET text : \A m \in S, n \in text : Overlap(m, n) => n \in S}

\* "Every stored indicator that literally appears in this payload"
\* (app/services.py:254): an indicator is looked up in an event with the text
\* of the report that gave it, unless the event keeps noise of an earlier type
\* that overlaps it, directly or through other matches; for that noise keeps
\* its place in an event and not in a report.
ReportsAreRecognised ==
  \A S \in Clusters : \A m \in S :
    m.valid /\ (m \in Stored <=> m \notin LookedUp) =>
      \E n \in S \cap LookedUp : ~n.valid /\ n.type < m.type
=============================================================================
