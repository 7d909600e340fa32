-------------------------- MODULE EvaluationEngine ---------------------------
(* evaluation-engine: the checks of a suite are answered one after the other, each by the provider it *)
(* is addressed to; what cannot be answered is skipped, and what is skipped sinks the whole. The one  *)
(* provider there is evaluates an expression, from its tokens on.                                     *)
EXTENDS Integers, SequencesExt

CONSTANTS
    Absent,
    Suites  \* sets of what is evaluated: checks, a subject, the providers there are and come late, a policy's decision

VARIABLES
    given,  \* the suite and its circumstances
    pass,   \* "evaluate", then "done" or "failed"
    made    \* the providers registered so far, the results so far, and the outcome

evaluationVars == <<given, pass, made>>

-----------------------------------------------------------------------------
\* Expressions. A token is a kind with a value, a node a record; what cannot be read is no node. An
\* operand of || is a chain of &&, an operand of && one comparison, an operand of that a negation or less.
Punct(mark) == <<"punct", mark>>
TokenAt(tokens, at) == IF at \in DOMAIN tokens THEN tokens[at] ELSE <<"end", 0>>
Comparisons == {Punct(mark) : mark \in {"==", "!=", "===", "!==", "<", "<=", ">", ">="}} \cup {<<"name", "in">>}
Constants == {"true", "false", "null"}

Failed == [ok |-> FALSE]
Parsed(node, at) == [ok |-> TRUE, node |-> node, at |-> at]
Then(result, Goes(_)) == IF result.ok THEN Goes(result) ELSE Failed
Literal(value) == [kind |-> "literal", value |-> value]
Binary(operator, left, right) == [kind |-> "binary", operator |-> operator, left |-> left, right |-> right]

RECURSIVE ParseSteps(_, _, _, _)
ParseSteps(tokens, root, steps, at) ==
    CASE TokenAt(tokens, at) = Punct(".") ->
            IF TokenAt(tokens, at + 1)[1] = "name" THEN ParseSteps(tokens, root, Append(steps, TokenAt(tokens, at + 1)), at + 2) ELSE Failed
      [] TokenAt(tokens, at) = Punct("[") ->
            IF TokenAt(tokens, at + 1)[1] = "number" /\ TokenAt(tokens, at + 2) = Punct("]")
            THEN ParseSteps(tokens, root, Append(steps, TokenAt(tokens, at + 1)), at + 3) ELSE Failed
      [] OTHER -> Parsed([kind |-> "path", root |-> root, steps |-> steps], at)
ConstantOf(name) == CASE name = "true" -> <<"boolean", TRUE>> [] name = "false" -> <<"boolean", FALSE>> [] name = "null" -> <<"null", 0>>
ParsePrimary(tokens, at) ==
    LET token == TokenAt(tokens, at)
    IN CASE token[1] \in {"number", "string"} -> Parsed(Literal(token), at + 1)
         [] token[1] = "name" -> IF token[2] \in Constants THEN Parsed(Literal(ConstantOf(token[2])), at + 1)
                                 ELSE ParseSteps(tokens, token[2], << >>, at + 1)
         [] OTHER -> Failed

RECURSIVE ParseAt(_, _, _)
RECURSIVE MoreOperands(_, _, _, _)
MoreOperands(tokens, operator, left, at) ==
    IF TokenAt(tokens, at) # Punct(operator) THEN Parsed(left, at)
    ELSE Then(ParseAt(tokens, operator, at + 1), LAMBDA right : MoreOperands(tokens, operator, Binary(operator, left, right.node), right.at))
ParseChain(tokens, operator, at) ==
    Then(ParseAt(tokens, operator, at), LAMBDA first : MoreOperands(tokens, operator, first.node, first.at))
ParseComparison(tokens, at) ==
    Then(ParseAt(tokens, "operand", at),
         LAMBDA left : IF TokenAt(tokens, left.at) \notin Comparisons THEN left
                       ELSE Then(ParseAt(tokens, "operand", left.at + 1),
                                 LAMBDA right : Parsed(Binary(TokenAt(tokens, left.at)[2], left.node, right.node), right.at)))
ParseUnary(tokens, at) ==
    CASE TokenAt(tokens, at) = Punct("!") ->
            Then(ParseAt(tokens, "operand", at + 1), LAMBDA r : Parsed([kind |-> "not", operand |-> r.node], r.at))
      [] TokenAt(tokens, at) = Punct("(") ->
            Then(ParseAt(tokens, "whole", at + 1),
                 LAMBDA r : IF TokenAt(tokens, r.at) = Punct(")") THEN Parsed(r.node, r.at + 1) ELSE Failed)
      [] OTHER -> ParsePrimary(tokens, at)
\* The whole, or one operand of a chain of the operator, or of a comparison.
ParseAt(tokens, of, at) ==
    CASE of = "whole" -> ParseChain(tokens, "||", at)
      [] of = "||" -> ParseChain(tokens, "&&", at)
      [] of = "&&" -> ParseComparison(tokens, at)
      [] of = "operand" -> ParseUnary(tokens, at)
Whole(parsed, tokens) == IF parsed.ok /\ parsed.at = Len(tokens) + 1 THEN parsed.node ELSE Absent
ParseExpression(tokens) == Whole(ParseAt(tokens, "whole", 1), tokens)

-----------------------------------------------------------------------------
\* Values are tagged too; an array and an object have an identity before their content, a string is its
\* characters, as numbers. Nothing is coerced: what does not fit is an error.
Error == <<"error", 0>>
Truth(holds) == <<"boolean", holds>>
IsTrue(value) == value[1] = "boolean" /\ value[2]
IsFalse(value) == value[1] = "boolean" /\ ~value[2]
BooleanOf(value) == IF value[1] = "boolean" THEN value ELSE Error
Undefined == <<"undefined", 0>>

StepInto(value, key) ==
    CASE key[1] = "number" -> IF value[1] # "array" THEN Error ELSE IF key[2] < Len(value[3]) THEN value[3][key[2] + 1] ELSE Undefined
      [] key = <<"name", "length">> -> CASE value[1] = "array" -> <<"number", Len(value[3])>>
                                         [] value[1] = "string" -> <<"number", Len(value[2])>>
                                         [] OTHER -> Error
      [] OTHER -> IF value[1] # "object" THEN Error ELSE IF key[2] \in DOMAIN value[3] THEN value[3][key[2]] ELSE Undefined
Same(left, right) == left[1] = right[1] /\ left[2] = right[2]
Before(left, right) ==
    IF left[1] = "number" THEN left[2] < right[2]
    ELSE left[2] # right[2] /\ (IsPrefix(left[2], right[2])
         \/ \E i \in DOMAIN left[2] \cap DOMAIN right[2] :
               SubSeq(left[2], 1, i - 1) = SubSeq(right[2], 1, i - 1) /\ left[2][i] < right[2][i])
Ordered(operator, left, right) ==
    IF left[1] # right[1] \/ left[1] \notin {"number", "string"} THEN Error
    ELSE Truth(CASE operator = "<" -> Before(left, right) [] operator = "<=" -> ~Before(right, left)
                 [] operator = ">" -> Before(right, left) [] operator = ">=" -> ~Before(left, right))
Contained(part, whole) ==
    CASE whole[1] = "array" -> Truth(\E i \in DOMAIN whole[3] : Same(part, whole[3][i]))
      [] whole[1] = "string" /\ part[1] = "string" ->
            Truth(\E i \in 0..Len(whole[2]) : IsPrefix(part[2], SubSeq(whole[2], i + 1, Len(whole[2]))))
      [] OTHER -> Error
Compare(operator, left, right) ==
    IF Error \in {left, right} THEN Error
    ELSE CASE operator = "in" -> Contained(left, right)
           [] operator \in {"==", "==="} -> Truth(Same(left, right))
           [] operator \in {"!=", "!=="} -> Truth(~Same(left, right))
           [] OTHER -> Ordered(operator, left, right)

\* evaluateNode: the left of && or || is evaluated alone when it decides.
RECURSIVE EvaluateNode(_, _)
Decides(operator, left) == IF operator = "&&" THEN IsFalse(left) ELSE IsTrue(left)
EvaluateBoth(node, left, scope) ==
    CASE node.operator \notin {"&&", "||"} -> Compare(node.operator, left, EvaluateNode(node.right, scope))
      [] node.operator \in {"&&", "||"} /\ (left[1] # "boolean" \/ Decides(node.operator, left)) -> BooleanOf(left)
      [] OTHER -> BooleanOf(EvaluateNode(node.right, scope))
Negated(value) == IF value[1] = "boolean" THEN Truth(~value[2]) ELSE Error
FollowPath(value, steps) == FoldLeft(LAMBDA v, key : IF v = Error THEN v ELSE StepInto(v, key), value, steps)
EvaluateNode(node, scope) ==
    CASE node.kind = "literal" -> node.value
      [] node.kind = "path" -> IF node.root \in DOMAIN scope THEN FollowPath(scope[node.root], node.steps) ELSE Error
      [] node.kind = "not" -> Negated(EvaluateNode(node.operand, scope))
      [] node.kind = "binary" -> EvaluateBoth(node, EvaluateNode(node.left, scope), scope)
EvaluateExpression(node, scope) == IF node = Absent THEN Error ELSE BooleanOf(EvaluateNode(node, scope))

-----------------------------------------------------------------------------
\* The engine. A provider answers with a verdict and how sure it is, in percent, or it throws.
Verdict(satisfied, confidence) == [throws |-> FALSE, satisfied |-> satisfied, confidence |-> confidence]
Throws == [throws |-> TRUE]
ExpressionVerdict(value) == IF value = Error THEN Throws ELSE Verdict(IsTrue(value), 100)
Answers(provider, check, scope) ==
    IF provider.kind # "deterministic-expression" THEN provider.answers
    ELSE {IF check.expression = Absent THEN Throws ELSE ExpressionVerdict(EvaluateExpression(ParseExpression(check.expression), scope))}

Skip(check, why) ==
    [check |-> check.id, severity |-> check.severity, skipped |-> TRUE, why |-> why, satisfied |-> FALSE, confidence |-> 0]
Ran(check, verdict) ==
    [check |-> check.id, severity |-> check.severity, skipped |-> FALSE, why |-> "", satisfied |-> verdict.satisfied, confidence |-> verdict.confidence]
ResultOf(check, verdict) ==
    IF verdict.throws THEN Skip(check, "provider-error")
    ELSE IF verdict.confidence \notin 0..100 THEN Skip(check, "provider-contract") ELSE Ran(check, verdict)

Allowed(policy) == policy # Absent /\ policy.allowed
Results(check, registry, scope, policy) ==
    IF check.provider \notin DOMAIN registry THEN {Skip(check, "provider-missing")}
    ELSE IF ~registry[check.provider].deterministic /\ ~Allowed(policy) THEN {Skip(check, "provider-non-deterministic")}
    ELSE {ResultOf(check, verdict) : verdict \in Answers(registry[check.provider], check, scope)}

\* A bug: a check that did not run counts by its severity like one that failed.
IsUnfailed(results) == results # << >> /\ ~\E i \in DOMAIN results : results[i].severity = "error" /\ ~results[i].satisfied
IsSatisfied(results) ==
    /\ results # << >> /\ \A i \in DOMAIN results : ~results[i].skipped
    /\ ~\E i \in DOMAIN results : results[i].severity = "error" /\ ~results[i].satisfied
Count(results, Counts(_)) == Len(SelectSeq(results, Counts))
OutcomeOf(results) ==
    [satisfied |-> IsSatisfied(results), complete |-> Count(results, LAMBDA r : r.skipped) = 0,
     metrics |-> [total |-> Len(results), skipped |-> Count(results, LAMBDA r : r.skipped),
                  satisfied |-> Count(results, LAMBDA r : ~r.skipped /\ r.satisfied),
                  failed |-> Count(results, LAMBDA r : ~r.skipped /\ ~r.satisfied)]]

EvaluationInit ==
    /\ \E some \in Suites : given \in some
    /\ pass = "evaluate" /\ made = [registry |-> given.providers, results |-> << >>, outcome |-> Absent]

\* A result that cannot say what it was evaluated against is refused before the first check.
RefuseUnversioned ==
    /\ pass = "evaluate" /\ given.modelVersion = "" /\ UNCHANGED <<given, made>>
    /\ pass' = "failed"
\* One check, and behind the last one the outcome.
Answered(results) ==
    IF Len(results) = Len(given.checks)
    THEN pass' = "done" /\ made' = [made EXCEPT !.results = results, !.outcome = OutcomeOf(results)]
    ELSE UNCHANGED pass /\ made' = [made EXCEPT !.results = results]
EvaluateOne ==
    /\ pass = "evaluate" /\ given.modelVersion # "" /\ UNCHANGED given
    /\ \E result \in Results(given.checks[Len(made.results) + 1], made.registry, given.scope, given.policy) :
          Answered(Append(made.results, result))
\* Between two answers the host may register a provider; one that is there cannot be replaced.
Register ==
    /\ pass = "evaluate" /\ made.results # << >> /\ UNCHANGED <<given, pass>>
    /\ \E id \in DOMAIN given.late \ DOMAIN made.registry :
          made' = [made EXCEPT !.registry = (id :> given.late[id]) @@ @]

EvaluationNext == RefuseUnversioned \/ EvaluateOne \/ Register
EvaluationSpec == EvaluationInit /\ [][EvaluationNext]_evaluationVars

-----------------------------------------------------------------------------
\* A satisfied suite has a verdict for every check, none of them from a provider that may vary unless a
\* policy allows it, none of them asked of nobody, and those that must hold do: an expression by its
\* meaning. No check could have been left out to satisfy it, and every check is counted once.
IsEarned(check, result, registry, policy) ==
    /\ ~result.skipped /\ result.check = check.id /\ check.provider \in DOMAIN registry
    /\ registry[check.provider].deterministic \/ Allowed(policy)
    /\ check.severity = "error" => result.satisfied
OutcomeIsEarned(checks, results, outcome, registry, policy) ==
    /\ outcome.satisfied => /\ \A i \in DOMAIN checks : IsEarned(checks[i], results[i], registry, policy)
                            /\ outcome.complete /\ \A k \in 1..Len(results) : IsSatisfied(SubSeq(results, 1, k))
    /\ outcome.metrics.satisfied + outcome.metrics.failed + outcome.metrics.skipped = Len(checks)

\* An expression means what its grammar says: it splits at its last || outside parentheses, else at its
\* last &&, and saying it again with all its parentheses changes nothing. Its negation fails where it
\* fails, and a negated && is an || of negations, wherever an operand fails.
Depth(tokens, at) ==
    Cardinality({i \in 1..at : TokenAt(tokens, i) = Punct("(")}) - Cardinality({i \in 1..at : TokenAt(tokens, i) = Punct(")")})
Splits(tokens, mark) == {i \in DOMAIN tokens : tokens[i] = Punct(mark) /\ Depth(tokens, i) = 0}
SplitsAt(tokens, mark, i, node) ==
    node = Binary(mark, ParseExpression(SubSeq(tokens, 1, i - 1)), ParseExpression(SubSeq(tokens, i + 1, Len(tokens))))
Latest(places) == CHOOSE i \in places : \A j \in places : j <= i
IsSplit(tokens, ors, ands, node) ==
    CASE ors # {} -> SplitsAt(tokens, "||", Latest(ors), node)
      [] ors = {} /\ ands # {} -> SplitsAt(tokens, "&&", Latest(ands), node)
      [] OTHER -> node.kind = "binary" => node.operator \notin {"&&", "||"} \/ tokens[1] = Punct("(")

RECURSIVE Written(_)
Parenthesised(node) == <<Punct("(")>> \o Written(node) \o <<Punct(")")>>
Operator(name) == IF name = "in" THEN <<"name", "in">> ELSE Punct(name)
StepTokens(key) == IF key[1] = "name" THEN <<Punct("."), key>> ELSE <<Punct("["), key, Punct("]")>>
ConstantName(value) == CASE value[1] = "null" -> "null" [] IsTrue(value) -> "true" [] OTHER -> "false"
Written(node) ==
    CASE node.kind = "literal" -> <<IF node.value[1] \in {"number", "string"} THEN node.value ELSE <<"name", ConstantName(node.value)>>>>
      [] node.kind = "path" -> <<<<"name", node.root>>>> \o FlattenSeq([i \in DOMAIN node.steps |-> StepTokens(node.steps[i])])
      [] node.kind = "not" -> <<Punct("!")>> \o Parenthesised(node.operand)
      [] node.kind = "binary" -> Parenthesised(node.left) \o <<Operator(node.operator)>> \o Parenthesised(node.right)
Not(node) == [kind |-> "not", operand |-> node]
IsDual(node, scope) ==
    node.kind = "binary" /\ node.operator \in {"&&", "||"} =>
        EvaluateNode(Binary(IF node.operator = "&&" THEN "||" ELSE "&&", Not(node.left), Not(node.right)), scope)
            = EvaluateNode(Not(node), scope)
ExpressionIsRead(tokens, node, scope) ==
    node # Absent => /\ IsSplit(tokens, Splits(tokens, "||"), Splits(tokens, "&&"), node)
                     /\ ParseExpression(Written(node)) = node
                     /\ IsDual(node, scope)

EvaluationIsEarned ==
    /\ pass = "done" =>
          /\ OutcomeIsEarned(given.checks, made.results, made.outcome, made.registry, given.policy)
          /\ \A i \in DOMAIN given.checks : given.checks[i].expression # Absent =>
                ExpressionIsRead(given.checks[i].expression, ParseExpression(given.checks[i].expression), given.scope)
    /\ given.modelVersion = "" => made.results = << >>
=============================================================================
