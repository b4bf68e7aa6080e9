------------------------------ MODULE Scoring ------------------------------
(***************************************************************************)
(* Confidence and risk of an indicator (app/ioc/scoring.py), the modifier  *)
(* enrichment adds (app/ioc/enrich.py), and what becomes of one stored     *)
(* indicator while sources report it and time passes (app/services.py).    *)
(*                                                                         *)
(* The arithmetic is that of the code in units that keep it whole: trust,  *)
(* weights and modifiers in hundredths, risk in tenths.  Python rounds     *)
(* halves to even.  Age is counted in half-lives.  The powers the code     *)
(* computes from age and hits, 2^age and 0.75^hits, go along with them.    *)
(***************************************************************************)
EXTENDS Integers, FiniteSetsExt

CONSTANTS
  Givens,   \* the confidences an indicator may be created with
  Hosts,    \* the combinations of signs enrichment may find: [type, signs, words]
  MaxHits,  \* bound on reports
  MaxIdle   \* bound on half-lives of silence

ASSUME GivensAssumption == Givens \subseteq Int
ASSUME HostsAssumption == \A host \in Hosts : host.words \in Nat

VARIABLE
  score     \* the indicator: [given, confidence, hits, faded, doubt, severity, source, host, heard]

SourceTrust == [manual |-> 90, analyst |-> 90, sensor |-> 85, partner |-> 75,
                osint |-> 55, unknown |-> 50, crowdsourced |-> 40]
SeverityWeight == [info |-> 20, low |-> 40, medium |-> 60, high |-> 85, critical |-> 100]
Sources == DOMAIN SourceTrust
Severities == DOMAIN SeverityWeight

Floor == 5

-----------------------------------------------------------------------------
(* Arithmetic.                                                             *)

Larger(a, b) == Max({a, b})
Within(x, low, high) == Max({low, Min({x, high})})

\* round(n / d), to even when it is halfway.
Rounded(n, d) ==
  LET q == n \div d
      r == 2 * (n % d)
  IN IF r > d \/ (r = d /\ q % 2 = 1) THEN q + 1 ELSE q

\* Silence has divided the confidence by faded: 2 for every half-life.
\* (A half-life of no days, with which nothing fades, is left out.)
DecayedConfidence(base, faded) == Within(Rounded(base, faded), Floor, 100)

Ceiling(source) == 40 + (SourceTrust[source] * 60) \div 100

\* Mutant of Reinforce: the gain is taken towards certainty.
ReinforceToCertainty(current, source) ==
  Within(Rounded(100 * current + 28 * Larger(0, 100 - current), 100), 0, 100)

\* One report closes 28 hundredths of the gap below the source's ceiling.
Reinforce(current, source) ==
  Within(Rounded(100 * current + 28 * Larger(0, Ceiling(source) - current), 100), 0, 100)

\* 0.75^hits, the part of the scale that corroboration has not filled.
Uncorroborated == [n |-> 1, d |-> 1]
LessDoubt(doubt) == [n |-> 3 * doubt.n, d |-> 4 * doubt.d]

\* The part that it has filled, in 10000ths.
Corroboration(doubt) == 10000 - (10000 * doubt.n) \div doubt.d

\* Mutant of RiskScore: corroboration counts against the indicator.
RiskScoreInverted(confidence, severity, source, doubt) ==
  Within(Rounded(550 * confidence + 300 * SeverityWeight[severity] + 100 * SourceTrust[source]
                   - (5 * Corroboration(doubt)) \div 10, 100), 0, 1000)

RiskScore(confidence, severity, source, doubt) ==
  Within(Rounded(550 * confidence + 300 * SeverityWeight[severity] + 100 * SourceTrust[source]
                   + (5 * Corroboration(doubt)) \div 10, 100), 0, 1000)

-----------------------------------------------------------------------------
(* Enrichment: each sign adds its weight, and so does each suspicious      *)
(* word, up to a limit.  Only the signs of the indicator's type are looked *)
(* for.                                                                    *)

SignWeight == [notGlobal |-> -40, generated |-> 30, riskyTld |-> 20, shortener |-> 10,
               deepChain |-> 10, executable |-> 25, bareAddress |-> 15, plainHttp |-> 5]

HostSigns == {"generated", "riskyTld", "shortener", "deepChain"}
SignsOf(type) ==
  CASE type \in {"ipv4", "ipv6"} -> {"notGlobal"}
    [] type \in {"domain", "email"} -> HostSigns
    [] type = "url" -> HostSigns \cup {"executable", "bareAddress", "plainHttp"}
    [] OTHER -> {}

Weight(host, sign) ==
  IF sign \in host.signs \cap SignsOf(host.type) THEN SignWeight[sign] ELSE 0

RiskModifier(host) ==
  Within(Weight(host, "notGlobal") + Weight(host, "generated") + Weight(host, "riskyTld")
           + Weight(host, "shortener") + Weight(host, "deepChain") + Weight(host, "executable")
           + Weight(host, "bareAddress") + Weight(host, "plainHttp")
           + (IF host.type = "url" THEN Min({25, 8 * host.words}) ELSE 0), -100, 100)

-----------------------------------------------------------------------------
(* What read_indicator reports.                                            *)

Effective(s) == DecayedConfidence(s.confidence, s.faded)

Risk(s) ==
  LET base == RiskScore(Effective(s), s.severity, s.source, s.doubt) IN
  Within(Rounded(base * (10000 + 35 * RiskModifier(s.host)), 10000), 0, 1000)

-----------------------------------------------------------------------------
(* The life of an indicator.                                               *)

Init ==
  \E given \in Givens, severity \in Severities, source \in Sources, host \in Hosts :
    score = [given |-> given, confidence |-> Within(given, 0, 100), hits |-> 0, faded |-> 1,
             doubt |-> Uncorroborated, severity |-> severity, source |-> source, host |-> host,
             heard |-> {}]

\* hit_count and last_seen.
Seen == [score EXCEPT !.hits = @ + 1, !.faded = 1, !.doubt = LessDoubt(@)]

\* upsert_indicator of a stored value: the source that created it stays.
Report(source) ==
  /\ score.hits < MaxHits
  /\ score' = [Seen EXCEPT !.heard = @ \cup {source}, !.confidence = Reinforce(@, source)]

\* ingest_event found it in a payload.
Sighting ==
  /\ score.hits < MaxHits
  /\ score' = Seen

\* One half-life.
Silence ==
  /\ score.faded < 2 ^ MaxIdle
  /\ score' = [score EXCEPT !.faded = 2 * @]

Next == (\E source \in Sources : Report(source)) \/ Sighting \/ Silence

ScoreSpec == Init /\ [][Next]_score

-----------------------------------------------------------------------------
\* "repeated reports from a weak source should not reach certainty"
\* (app/ioc/scoring.py:46): however many reports come, confidence never
\* passes both what was first given and the ceiling of the best source heard.
ConfidenceIsEarned ==
  \/ score.confidence <= Within(score.given, 0, 100)
  \/ \E source \in score.heard : score.confidence <= Ceiling(source)

\* Being seen never lowers what an analyst is shown, and silence never
\* raises it: the effective confidence and the risk.
RiskFollowsSightings ==
  [][LET before == Risk(score)
         after == Risk(score')
     IN IF score'.hits > score.hits THEN after >= before /\ Effective(score') >= Effective(score)
        ELSE after <= before /\ Effective(score') <= Effective(score)]_score
=============================================================================
