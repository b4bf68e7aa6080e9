----------------------------- MODULE RuleGrammar -----------------------------
(***************************************************************************)
(* The grammar of the rule language, next to the parser that reads it:     *)
(* the set of values a sequence of tokens stands for.  Every way to cut    *)
(* the sequence up counts, so an ambiguity would show as two values.       *)
(***************************************************************************)
EXTENDS RuleEngine

Cuts(s, separators) == {i \in 2..(Len(s) - 1) : s[i] \in separators}
Before(s, i) == SubSeq(s, 1, i - 1)
After(s, i) == SubSeq(s, i + 1, Len(s))

RECURSIVE Disjunction(_, _), Conjunction(_, _), Negation(_, _), Relational(_, _),
          Basic(_, _), Sequenced(_, _)

Disjunction(s, f) ==
  Conjunction(s, f) \cup
  UNION {{Bool(Truthy(a) \/ Truthy(b)) : a \in Disjunction(Before(s, i), f),
                                        b \in Conjunction(After(s, i), f)} : i \in Cuts(s, {"or"})}

Conjunction(s, f) ==
  Negation(s, f) \cup
  UNION {{Bool(Truthy(a) /\ Truthy(b)) : a \in Conjunction(Before(s, i), f),
                                        b \in Negation(After(s, i), f)} : i \in Cuts(s, {"and"})}

Negation(s, f) ==
  IF s # <<>> /\ Head(s) = "not"
  THEN {Bool(~Truthy(a)) : a \in Negation(Tail(s), f)}
  ELSE Relational(s, f)

Relational(s, f) ==
  Basic(s, f) \cup
  UNION {{Apply(s[i], x[1], x[2]) :
            x \in {y \in Basic(Before(s, i), f) \X Basic(After(s, i), f) :
                     ~Invalid(s[i], y[2]) /\ ~Overflows(s[i], y[1], y[2])}}
           : i \in Cuts(s, Relations)}

Basic(s, f) ==
  LET inner == SubSeq(s, 2, Len(s) - 1) IN
  CASE s = <<>> -> {}
    [] Len(s) = 1 -> CASE s[1] \in DOMAIN Literal -> {Literal[s[1]]}
                       [] s[1] \in DOMAIN Constant -> {Constant[s[1]]}
                       [] s[1] \in Fields -> {f[s[1]]}
                       [] OTHER -> {}
    [] s[1] = "not" -> {Bool(~Truthy(a)) : a \in Basic(Tail(s), f)}
    [] s[1] = "(" /\ Last(s) = ")" -> Disjunction(inner, f)
    [] s[1] = "[" /\ Last(s) = "]" ->
         {List(items) : items \in IF inner = <<>> THEN {<<>>} ELSE Sequenced(inner, f)}
    [] OTHER -> {}

Sequenced(s, f) ==
  {<<Plain(a)>> : a \in Basic(s, f)} \cup
  UNION {{Append(items, Plain(a)) : items \in Sequenced(Before(s, i), f),
                                    a \in Basic(After(s, i), f)} : i \in Cuts(s, {","})}
=============================================================================
