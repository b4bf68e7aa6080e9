---------------------------- MODULE MCDetection ----------------------------
(***************************************************************************)
(* The pure parts of detection over bounded inputs: a rule that grows      *)
(* token by token, a text that grows match by match, and the life of one   *)
(* indicator.  A behaviour is about one of them, its focus.                *)
(***************************************************************************)
EXTENDS RuleGrammar, Scoring, Extraction

CONSTANTS
  Focuses,    \* what this run is about
  MaxTokens,  \* the length of a rule that may still be accepted, by focus
  AnyTokens   \* the length of any other

VARIABLE focus

vars == <<focus, ruleVars, textVars, score>>

-----------------------------------------------------------------------------
(* Values of the constants.                                                *)

MCLiteral == ("3" :> Number(3)) @@ ("exe" :> Text(<<3>>)) @@ ("[a" :> Text(<<Unbalanced>>))
MCHugeLiteral == MCLiteral @@ ("10^400" :> Number(Huge))
MCFields == {"payload", "amount"}
MCFacts == {[payload |-> p, amount |-> Number(0)] :
              p \in {Null, Text(<<>>), Text(<<3>>), Text(<<1, Unbalanced>>)}}
             \cup {[payload |-> Text(<<3>>), amount |-> Number(4)]}
MCProbe == [payload |-> Text(<<>>), amount |-> Number(0)]

Alphabet ==
  [logic |-> {"and", "or", "not", "(", ")", "payload", "true"},
   terms |-> {"not", "<", "==", "in", "matches", "endswith", "[", "]", ",", "payload"}
               \cup DOMAIN Literal]

MCMaxTokens == [logic |-> 7, terms |-> 5]
MCAnyTokens == [logic |-> 5, terms |-> 4]

MCGivens == {4, 50, 100}
MCHosts == {[type |-> "ipv4", signs |-> {"notGlobal", "generated"}, words |-> 0],
            [type |-> "domain", signs |-> {}, words |-> 3],
            [type |-> "url", signs |-> {"generated", "riskyTld", "executable", "plainHttp"},
             words |-> 4]}

Unscored == [given |-> 50, confidence |-> 50, hits |-> 0, faded |-> 1,
             doubt |-> Uncorroborated, severity |-> "low",
             source |-> "osint", heard |-> {}, host |-> CHOOSE h \in Hosts : h.words = 0]

-----------------------------------------------------------------------------
(* Growth.  A token is chosen where a parser comes to it; a short rule     *)
(* goes on after its parsers have stopped.                                 *)

DetectionInit ==
  /\ focus \in Focuses
  /\ RuleInit /\ (whole => focus = "logic")
  /\ TextInit
  /\ IF focus = "score" THEN Init ELSE score = Unscored

Wanted ==
  \/ Len(rule) < MaxTokens[focus] /\ \E f \in Facts : AwaitsToken(parser[f])
  \/ Len(rule) < AnyTokens[focus] /\ \A f \in Facts : Stopped(f)

ReadRule ==
  /\ focus \in DOMAIN Alphabet
  /\ \/ Wanted /\ \E token \in Alphabet[focus] : RevealToken(token)
     \/ (\E f \in Facts : AwaitsToken(parser[f])) /\ RevealEnd
     \/ Advance
  /\ UNCHANGED <<focus, textVars, score>>

ReadText ==
  /\ focus = "text" /\ TextNext
  /\ UNCHANGED <<focus, ruleVars, score>>

Score ==
  /\ focus = "score" /\ Next
  /\ UNCHANGED <<focus, ruleVars, textVars>>

DetectionSpec == DetectionInit /\ [][ReadRule \/ ReadText \/ Score]_vars

-----------------------------------------------------------------------------
(* Properties of rules.                                                    *)

\* Whatever the facts, the parser accepts exactly the rules of its grammar
\* ("or > and > not > comparison > primary", app/detect/rules.py:76), which
\* is unambiguous, and finds the one value the grammar gives them, although
\* it evaluates while it reads and never goes back.  Start-up accepts the
\* built-in rules, or it would not finish (app/services.py:494).
ParsesItsGrammar ==
  /\ rule # <<>> =>
       \A f \in Facts :
         Stopped(f) /\ parser[f].at # "exhausted" =>
           {Bool(Truthy(v)) : v \in Disjunction(rule, f)} =
             IF parser[f].at = "accepted" THEN {parser[f].value} ELSE {}
  /\ rule \in BuiltinRules /\ whole /\ Stopped(Probe) => parser[Probe].at = "accepted"
=============================================================================
