----------------------------- MODULE RuleEngine -----------------------------
(***************************************************************************)
(* The detection rule language (app/detect/rules.py): a recursive descent  *)
(* parser that evaluates as it parses, and never looks ahead by more than  *)
(* one token.                                                              *)
(*                                                                         *)
(* A rule is a sequence of tokens.  Keywords, operators and punctuation    *)
(* are themselves; a number or string is a token that Literal gives a      *)
(* value, a field one that the facts give a value.  A text is a sequence   *)
(* of characters, which are numbers: 0 to 9 are the digits, Unbalanced     *)
(* makes a regular expression invalid.  Spelling, and the limits on the    *)
(* length of a rule, are left out.                                         *)
(*                                                                         *)
(* One rule is read against every set of facts, the dummy facts of         *)
(* validate_expression among them, by a parser each; the parsers are shown *)
(* side by side, and wait where the rule has not been chosen yet.          *)
(***************************************************************************)
EXTENDS Integers, Sequences, SequencesExt

CONSTANTS
  Literal,  \* the value of each number and string token
  Fields,   \* the field tokens
  Facts,    \* the sets of facts rules are evaluated against: [Fields -> values]
  Probe,    \* the dummy facts of validate_expression
  MaxDepth  \* the frames that Python's stack has left for nested calls

VARIABLES
  rule,     \* its tokens, as far as they have been chosen
  whole,    \* are there no more of them?
  parser    \* for each set of facts, the parser that reads the rule against them

ruleVars == <<rule, whole, parser>>

Unbalanced == 99
Huge == 999     \* an integer no float can hold

Value(kind, num, text, items) == [kind |-> kind, num |-> num, text |-> text, items |-> items]
Number(n) == Value("number", n, <<>>, <<>>)
Text(s) == Value("text", 0, s, <<>>)
Bool(b) == Value("bool", IF b THEN 1 ELSE 0, <<>>, <<>>)
Null == Value("null", 0, <<>>, <<>>)
List(items) == Value("list", 0, <<>>, items)

Constant == [true |-> Bool(TRUE), false |-> Bool(FALSE), null |-> Null]
Punctuation == {"(", ")", "[", "]", ","}
Comparisons == {"==", "!=", ">", "<", ">=", "<="}
TextOperators == {"in", "contains", "startswith", "endswith", "matches"}
Relations == Comparisons \cup TextOperators
Tokens == DOMAIN Literal \cup DOMAIN Constant \cup Fields \cup Punctuation \cup Relations
            \cup {"and", "or", "not"}
End == ""       \* what follows the last token

\* The tokenizer gives every token one kind (app/detect/rules.py:20).  The
\* numbers of an event have been stored before a rule is evaluated
\* (app/services.py:314), and the database holds none of that size.
ASSUME RuleAssumption ==
  /\ DOMAIN Literal \cap Fields = {}
  /\ (DOMAIN Literal \cup Fields)
       \cap (DOMAIN Constant \cup Punctuation \cup Relations \cup {"and", "or", "not", End}) = {}
  /\ {"payload", "amount"} \subseteq Fields /\ {"3", "exe"} \subseteq DOMAIN Literal
  /\ Probe \in Facts /\ \A f \in Facts, name \in Fields : f[name].num # Huge
  /\ MaxDepth \in Nat

-----------------------------------------------------------------------------
(* Python's view of values.                                                *)

Truthy(v) == v.num # 0 \/ v.text # <<>> \/ v.items # <<>>

\* As an operand of "==" and as an item of a list, which only "==" and "in"
\* look at, True is 1 and False is 0.
Plain(v) == IF v.kind = "bool" THEN Number(v.num) ELSE v
Equal(a, b) == Plain(a) = Plain(b)

\* float(v): a text of one digit is a number, other texts here are not.
IsNumeric(v) ==
  v.kind \in {"number", "bool"} \/ (v.kind = "text" /\ Len(v.text) = 1 /\ v.text[1] \in 0..9)
Numeric(v) == IF v.kind = "text" THEN v.text[1] ELSE v.num

\* str(v or "").  What a list or True prints as holds none of the characters used.
Printed(v) ==
  CASE ~Truthy(v) -> <<>>
    [] v.kind = "number" -> <<v.num>>
    [] v.kind = "text" -> v.text
    [] OTHER -> <<-1>>

-----------------------------------------------------------------------------
(* Operators.                                                              *)

Compare(op, a, b) ==
  CASE op = "==" -> Bool(Equal(a, b))
    [] op = "!=" -> Bool(~Equal(a, b))
    [] ~(IsNumeric(a) /\ IsNumeric(b)) -> Bool(FALSE)
    [] op = ">" -> Bool(Numeric(a) > Numeric(b))
    [] op = "<" -> Bool(Numeric(a) < Numeric(b))
    [] op = ">=" -> Bool(Numeric(a) >= Numeric(b))
    [] op = "<=" -> Bool(Numeric(a) <= Numeric(b))

Occurs(s, t) == \E i \in 0..(Len(t) - Len(s)) : SubSeq(t, i + 1, i + Len(s)) = s

Textual(op, a, b) ==
  CASE op = "in" /\ b.kind = "list" -> Bool(\E i \in DOMAIN b.items : Equal(a, b.items[i]))
    [] op = "in" -> Bool(Occurs(Printed(a), Printed(b)))
    [] op = "startswith" -> Bool(IsPrefix(Printed(b), Printed(a)))
    [] op = "endswith" -> Bool(IsSuffix(Printed(b), Printed(a)))
    [] op \in {"contains", "matches"} -> Bool(Occurs(Printed(b), Printed(a)))

\* A regular expression that does not compile is the author's error.
Invalid(op, b) == op = "matches" /\ Contains(Printed(b), Unbalanced)

\* float() of an integer beyond the floats raises an OverflowError, which
\* _compare does not catch.  The left side is converted first.
Overflows(op, a, b) ==
  op \in Comparisons \ {"==", "!="} /\ (a.num = Huge \/ (IsNumeric(a) /\ b.num = Huge))

Apply(op, a, b) == IF op \in Comparisons THEN Compare(op, a, b) ELSE Textual(op, a, b)

-----------------------------------------------------------------------------
(* The parser.  "at" is the place in its code: the method it is about to   *)
(* call, or after one that has returned.  "calls" are the calls it is in   *)
(* the middle of, the innermost first, each known by the token it has      *)
(* eaten, and "lefts" what they have found so far; "inner not" is the      *)
(* "not" that primary() reads.  "value" was found last, "next" is the      *)
(* place of the next token, and "depth" counts the frames on the stack.    *)

Fresh == [at |-> "start", calls |-> <<>>, lefts |-> <<>>, value |-> Null, next |-> 1, depth |-> 0]

\* badPattern is a RuleError without a place; overflowed and exhausted are
\* exceptions that are no RuleError and that no caller catches.
Stops == {"accepted", "rejected", "badPattern", "overflowed", "exhausted"}

\* The innermost call, and what it has found.
Call(p) == IF p.calls = <<>> THEN "parse" ELSE Head(p.calls)
Left(p) == Head(p.lefts)

\* or_expr, and_expr, not_expr, comparison and primary lie between one
\* parenthesis and the next; the loops and comparison() call primary() or
\* not_expr() from where they are.
Frames(call) == CASE call = "(" -> 5 [] call \in {"[", "not", "inner not"} -> 1 [] OTHER -> 0

Go(p, at) == [p EXCEPT !.at = at]
Eat(p) == [p EXCEPT !.next = @ + 1]
Find(p, v, at) == [p EXCEPT !.value = v, !.at = at]

Keep(p, left, at) == [p EXCEPT !.lefts = <<left>> \o Tail(@), !.at = at]

Enter(p, call, left, at) ==
  IF p.depth + Frames(call) > MaxDepth
  THEN Go(p, "exhausted")
  ELSE [Eat(p) EXCEPT !.calls = <<call>> \o @, !.lefts = <<left>> \o @,
                      !.depth = @ + Frames(call), !.at = at]

Return(p, v, at) ==
  [Find(p, v, at) EXCEPT !.calls = Tail(@), !.lefts = Tail(@), !.depth = @ - Frames(Call(p))]

\* evaluate: an empty rule is accepted and never matches.
Start(p, t) == IF t = End THEN Find(p, Bool(FALSE), "accepted") ELSE Go(p, "not_expr")

\* Mutant of NotExpr: "not" binds tighter than a comparison.
NotExprTight(p, t) ==
  IF t = "not" THEN Enter(p, "inner not", Null, "primary") ELSE Go(p, "primary")

NotExpr(p, t) == IF t = "not" THEN Enter(p, "not", Null, "not_expr") ELSE Go(p, "primary")

Primary(p, t, f) ==
  CASE t \in DOMAIN Literal -> Find(Eat(p), Literal[t], "after primary")
    [] t \in DOMAIN Constant -> Find(Eat(p), Constant[t], "after primary")
    [] t \in Fields -> Find(Eat(p), f[t], "after primary")
    [] t = "not" -> Enter(p, "inner not", Null, "primary")
    [] t = "(" -> Enter(p, "(", Null, "not_expr")
    [] t = "[" -> Enter(p, "[", List(<<>>), "items")
    [] OTHER -> Go(p, "rejected")

Items(p, t) == IF t = "]" THEN Return(Eat(p), Left(p), "after primary") ELSE Go(p, "primary")

MoreItems(p, t) ==
  LET items == List(Append(Left(p).items, Plain(p.value))) IN
  CASE t = "," -> Keep(Eat(p), items, "primary")
    [] t = "]" -> Return(Eat(p), items, "after primary")
    [] OTHER -> Go(p, "rejected")

Compared(p, op) ==
  CASE Invalid(op, p.value) -> Go(p, "badPattern")
    [] Overflows(op, Left(p), p.value) -> Go(p, "overflowed")
    [] OTHER -> Return(p, Apply(op, Left(p), p.value), "after not_expr")

AfterPrimary(p, t) ==
  CASE Call(p) = "inner not" -> Return(p, Bool(~Truthy(p.value)), "after primary")
    [] Call(p) = "[" -> MoreItems(p, t)
    [] Call(p) \in Relations -> Compared(p, Call(p))
    [] OTHER -> IF t \in Relations THEN Enter(p, t, p.value, "primary") ELSE Go(p, "after not_expr")

\* Mutant of AfterNotExpr: the right side is not read if the left one decides.
AfterNotExprShort(p, t) ==
  CASE Call(p) = "not" -> Return(p, Bool(~Truthy(p.value)), "after not_expr")
    [] Call(p) = "and" -> Return(p, Bool(Truthy(Left(p)) /\ Truthy(p.value)), "after not_expr")
    [] OTHER -> IF t = "and" /\ Truthy(p.value)
                THEN Enter(p, "and", p.value, "not_expr")
                ELSE Go(p, "after and_expr")

\* The values of "not", "and" and "or" are Booleans, and both sides are always
\* parsed, whatever the left one is.
AfterNotExpr(p, t) ==
  CASE Call(p) = "not" -> Return(p, Bool(~Truthy(p.value)), "after not_expr")
    [] Call(p) = "and" -> Return(p, Bool(Truthy(Left(p)) /\ Truthy(p.value)), "after not_expr")
    [] OTHER -> IF t = "and" THEN Enter(p, "and", p.value, "not_expr") ELSE Go(p, "after and_expr")

AfterAndExpr(p, t) ==
  CASE Call(p) = "or" -> Return(p, Bool(Truthy(Left(p)) \/ Truthy(p.value)), "after and_expr")
    [] OTHER -> IF t = "or" THEN Enter(p, "or", p.value, "not_expr") ELSE Go(p, "after or_expr")

AfterOrExpr(p, t) ==
  CASE Call(p) = "(" /\ t = ")" -> Return(Eat(p), p.value, "after primary")
    [] Call(p) = "parse" /\ t = End -> Find(p, Bool(Truthy(p.value)), "accepted")
    [] OTHER -> Go(p, "rejected")

Step(p, t, f) ==
  CASE p.at = "start" -> Start(p, t)
    [] p.at = "not_expr" -> NotExpr(p, t)
    [] p.at = "primary" -> Primary(p, t, f)
    [] p.at = "items" -> Items(p, t)
    [] p.at = "after primary" -> AfterPrimary(p, t)
    [] p.at = "after not_expr" -> AfterNotExpr(p, t)
    [] p.at = "after and_expr" -> AfterAndExpr(p, t)
    [] p.at = "after or_expr" -> AfterOrExpr(p, t)
    [] p.at \in Stops -> p

-----------------------------------------------------------------------------
(* Reading a rule.                                                         *)

\* The shapes of the rules every installation starts with.
BuiltinRules ==
  {<<"payload", "matches", "exe">>,
   <<"amount", ">", "3", "and", "amount", ">", "3">>,
   <<"payload", "contains", "exe", "and", "payload", "matches", "exe">>,
   <<"amount", ">", "3", "and", "amount", "<", "3">>,
   <<"payload", "==", "exe", "and", "(", "payload", "contains", "exe", "or",
     "payload", "contains", "exe", ")", "and", "amount", ">", "3">>,
   <<"amount", "<", "3", "and", "amount", "<", "3", "and", "amount", ">", "3", "and",
     "payload", "!=", "exe">>}

RuleInit ==
  /\ \/ rule = <<>> /\ whole = FALSE
     \/ rule \in BuiltinRules /\ whole = TRUE
  /\ parser = [f \in Facts |-> Fresh]

Stopped(f) == parser[f].at \in Stops
Peek(p) == IF p.next <= Len(rule) THEN rule[p.next] ELSE End
AwaitsToken(p) == p.at \notin Stops /\ p.next > Len(rule) /\ ~whole

RevealToken(t) ==
  /\ ~whole
  /\ rule' = Append(rule, t)
  /\ UNCHANGED <<whole, parser>>

RevealEnd ==
  /\ ~whole
  /\ whole' = TRUE
  /\ UNCHANGED <<rule, parser>>

Advance ==
  /\ \E f \in Facts : ~Stopped(f)
  /\ \A f \in Facts : ~AwaitsToken(parser[f])
  /\ parser' = [f \in Facts |-> Step(parser[f], Peek(parser[f]), f)]
  /\ UNCHANGED <<rule, whole>>

RuleNext == (\E t \in Tokens : RevealToken(t)) \/ RevealEnd \/ Advance

RuleSpec == RuleInit /\ [][RuleNext]_ruleVars

-----------------------------------------------------------------------------
(* Properties.                                                             *)

\* Does the rule take a pattern from anything but a literal, or hold a
\* number no float can hold?
HasPatternFound == \E i \in DOMAIN rule \ {Len(rule)} :
                     rule[i] = "matches" /\ rule[i + 1] \notin DOMAIN Literal
HasHugeNumber == \E i \in DOMAIN rule :
                   rule[i] \in DOMAIN Literal /\ Literal[rule[i]].num = Huge

\* A rule is checked once, against dummy facts, when it is saved.  Unless it
\* takes a pattern from a field or holds a number too large for a float, the
\* verdict stands for every event (app/detect/rules.py:218), although the
\* parser evaluates while it reads: no event makes a saved rule fail, run out
\* of stack or end early.
AcceptedOnceIsAcceptedAlways ==
  ~HasPatternFound /\ ~HasHugeNumber =>
    \A f \in Facts : Stopped(f) /\ Stopped(Probe) => parser[f].at = parser[Probe].at

\* "a broken rule must never break ingestion" (app/services.py:347): a saved
\* rule evaluates or raises a RuleError, whatever the event.
NoRuleBreaksIngestion ==
  parser[Probe].at = "accepted" =>
    \A f \in Facts : parser[f].at \notin {"overflowed", "exhausted"}
=============================================================================
