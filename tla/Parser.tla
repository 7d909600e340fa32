------------------------------- MODULE Parser -------------------------------
(* parser/src/parser.ts: tokens to a declaration. `s` is the parser: its tokens, the place it stands  *)
(* at, how many errors it reported, and in `node` what the last method returned.                       *)
EXTENDS Declarations

CONSTANTS
    MaxErrors,  \* how many errors are reported before the one that says there are too many: 256
    Qualified   \* texts that begin with @

EofToken == [type |-> "EOF", value |-> ""]
Peek(s, k) == IF s.at + k \in DOMAIN s.tokens THEN s.tokens[s.at + k] ELSE EofToken
Current(s) == Peek(s, 0)
Is(s, type) == Current(s).type = type
IsAtEnd(s) == Is(s, "EOF")
IsWord(token, words) == token.type = "IDENT" /\ token.value \in words
Trivial(token) == token.type \in {"NEWLINE", "COMMENT"}
\* The k-th token from here that is no trivia, and where it stands.
PeekSignificantIndex(s, k) ==
    LET here == [i \in 1..(Len(s.tokens) + 1 - s.at) |-> s.at + i - 1]
        significant == SelectSeq(here, LAMBDA i : ~Trivial(s.tokens[i]))
    IN IF k < Len(significant) THEN significant[k + 1] ELSE Len(s.tokens) + 1
PeekSignificant(s, k) == LET i == PeekSignificantIndex(s, k) IN IF i \in DOMAIN s.tokens THEN s.tokens[i] ELSE EofToken

AdvancePast(s) == [s EXCEPT !.node = Current(s).value, !.at = IF @ <= Len(s.tokens) THEN @ + 1 ELSE @]
SkipTrivia(s) == [s EXCEPT !.at = PeekSignificantIndex(s, 0)]
Next(s) == SkipTrivia(AdvancePast(s))
Give(s, node) == [s EXCEPT !.node = node]
Then(s, Goes(_)) == Goes(s)
AddError(s) == [s EXCEPT !.errors = IF @ > MaxErrors THEN @ ELSE @ + 1]
\* What is expected and not there is made up, and nothing is consumed.
Expect(s, type) == IF Is(s, type) THEN AdvancePast(s) ELSE Give(AddError(s), "")
ExpectNext(s, type) == SkipTrivia(Expect(s, type))

IsFieldNameToken(token) == token.type \in {"IDENT", "PRIME", "UNIT", "EXTENDS", "AS"}
Modifiers == {"OVERRIDE", "APPEND", "EXTEND"}
IsFieldStart(s) ==
    Current(s).type \in Modifiers \/ (IsFieldNameToken(Current(s)) /\ PeekSignificant(s, 1).type = "COLON")
Recovers(s) ==
    \/ Current(s).type \in {"RBRACE", "RBRACKET", "EOF"} \cup Modifiers
    \/ Is(s, "IDENT") /\ PeekSignificant(s, 1).type \in {"COLON", "LBRACE"}
RECURSIVE RecoverToNextField(_)
RecoverToNextField(s) == IF Recovers(s) THEN s ELSE RecoverToNextField(AdvancePast(s))

-----------------------------------------------------------------------------
\* Nodes that only the parser makes. A field without a colon carries its own name in its value.
Raw(tokens) == [kind |-> "String", raw |-> tokens]
Named(path, alias) == [kind |-> "Reference", path |-> path, alias |-> alias]
Parameter(name, type, description) == [kind |-> "ParameterShorthand", name |-> name, type |-> type, description |-> description]
Arrow(left, right) == [kind |-> "Arrow", left |-> left, right |-> right]
Shorthand(verb, target, modifiers) == [kind |-> "LinkShorthand", verb |-> verb, target |-> target, modifiers |-> modifiers]
Level(level, operator, value) == [level |-> level, operator |-> operator, value |-> value]
Levels(metric, levels) == [kind |-> "Threshold", metric |-> metric, levels |-> levels]
Guarded(condition, error) == [kind |-> "Object", fields |-> <<Field("condition", String(condition)), Field("error", String(error))>>, short |-> TRUE]
Inline(key, value) == [key |-> key, value |-> value, inline |-> TRUE]
Modified(how, path, value) == [key |-> how, path |-> path, value |-> value]
NoWord == Ident("")

\* A raw expression: the tokens up to the end of the line or of what encloses it, brackets balanced.
\* The text is the source up to the last token's offset and the length of its value, in which quotes
\* and a percent sign do not count: so much of the end is cut off.
Stops == {"NEWLINE", "RBRACE", "RBRACKET", "COMMA", "EOF"}
Depth(depth, token) ==
    IF token.type \in {"LPAREN", "LBRACE", "LBRACKET"} THEN depth + 1
    ELSE IF token.type \in {"RPAREN", "RBRACE", "RBRACKET"} THEN depth - 1 ELSE depth
RECURSIVE RawEnd(_, _)
RawEnd(s, depth) ==
    IF IsAtEnd(s) \/ (depth = 0 /\ (Current(s).type \in Stops \/ Is(s, "RPAREN"))) THEN s
    ELSE RawEnd(AdvancePast(s), Depth(depth, Current(s)))
IsCut(tokens) == tokens # << >> /\ Last(tokens).type \in {"STRING", "PERCENT"}
Sliced(tokens) == IF IsCut(tokens) THEN Append(Front(tokens), [Last(tokens) EXCEPT !.type = "CUT"]) ELSE tokens
ParseRawExpression(s) ==
    LET end == RawEnd(s, 0) IN Give(end, Raw(Sliced(SubSeq(s.tokens, s.at, end.at - 1))))
Back(s, k) == [s EXCEPT !.at = @ - k]
RECURSIVE BackToToken(_)
BackToToken(s) == IF s.at > 1 /\ Trivial(Current(s)) THEN BackToToken(Back(s, 1)) ELSE s

-----------------------------------------------------------------------------
\* Values that hold no others. name, verb, metric are what was read before.
ParseArrow(s, left) == Then(Expect(Next(s), "STRING"), LAMBDA r : Give(r, Arrow(left, r.node)))
ParseAlias(s, path) == Then(Expect(Next(s), "IDENT"), LAMBDA r : Give(r, Named(path, r.node)))
RECURSIVE ParsePath(_, _)
ParsePath(s, path) ==
    CASE Is(s, "DOT") -> Then(Expect(Next(s), "IDENT"), LAMBDA r : ParsePath(SkipTrivia(r), Append(path, r.node)))
      [] Is(s, "AS") -> ParseAlias(s, path)
      [] OTHER -> Give(s, Named(path, Absent))
ParseParameterShorthand(s, name) ==
    Then(ExpectNext(ExpectNext(s, "LPAREN"), "IDENT"), LAMBDA type :
        Then(ExpectNext(type, "RPAREN"), LAMBDA r :
            IF Is(r, "STRING") THEN Give(AdvancePast(r), Parameter(name, type.node, Current(r).value))
            ELSE Give(r, Parameter(name, type.node, Absent))))
Described(s, name) == Give(AdvancePast(s), Parameter(name, "", Current(s).value))

IsThresholdStart(s) == IsWord(Current(s), {"block", "warn", "pass"})
Operators == {"LT", "GT", "LTE", "GTE"}
Compares(s) == Current(s).type \in Operators
Counts(s) == Current(s).type \in {"NUMBER", "PERCENT"}
RECURSIVE ParseLevels(_, _, _)
ParseLevels(s, metric, levels) ==
    IF ~IsThresholdStart(s) THEN Give(s, Levels(metric, levels))
    ELSE LET compare == ExpectNext(Next(s), "COLON")
             number == IF Compares(compare) THEN Next(compare) ELSE SkipTrivia(AddError(compare))
             r == IF Counts(number) THEN Next(number) ELSE SkipTrivia(AddError(number))
             level == Level(Current(s).value, IF Compares(compare) THEN Current(compare).type ELSE "LT",
                            IF Counts(number) THEN Current(number).value ELSE "0")
         IN ParseLevels(r, metric, Append(levels, level))

-----------------------------------------------------------------------------
\* Values, fields and bodies, each in terms of the others. Every round of a loop consumes something.
\* ParsePart(s, what) reads a "field", a "value", an "item" or the "body" of the declaration.
RECURSIVE ParsePart(_, _), ParseBodyUntil(_, _, _), ParseItems(_, _), ParseSteps(_, _)

Closed(s, closing, Makes(_)) == Give(Expect(s, closing), Makes(s.node))
ParseObjectLiteral(s) == Closed(ParseBodyUntil(Next(s), "RBRACE", << >>), "RBRACE", Object)
ParseArrayLiteral(s) == Closed(ParseItems(Next(s), << >>), "RBRACKET", List)
ParseStepBody(s, name) == Closed(ParseSteps(Next(s), << >>), "RBRACE", LAMBDA body : Step(name, body))
ParseLinkShorthand(s, verb) ==
    Then(ExpectNext(Next(s), "STRING"), LAMBDA r :
        IF Is(r, "LPAREN")
        THEN Closed(ParseBodyUntil(Next(r), "RPAREN", << >>), "RPAREN", LAMBDA fields : Shorthand(verb, r.node, Object(fields)))
        ELSE Give(r, Shorthand(verb, r.node, Absent)))

\* A word alone, or what the token behind it makes of it, also one on a later line.
IsType(s) ==
    \/ IsWord(PeekSignificant(s, 1), {"|"})
    \/ PeekSignificant(s, 1).type = "LBRACKET" /\ PeekSignificant(s, 2).type = "RBRACKET"
AfterWord(s, word) ==
    CASE Is(s, "ARROW") -> ParseLinkShorthand(s, word)
      [] Current(s).type \in {"DOT", "AS"} -> ParsePath(s, <<word>>)
      [] Is(s, "LBRACE") -> ParseStepBody(s, word)
      [] Is(s, "STRING") -> Described(s, word)
      [] IsThresholdStart(s) -> ParseLevels(s, word, << >>)
      [] OTHER -> Give(s, Ident(word))
IsSimpleParameter(s) == Peek(s, 1).type = "IDENT" /\ Peek(s, 2).type = "RPAREN"
ParseIdentValue(s) ==
    Then(Next(s), LAMBDA r :
        CASE IsType(s) -> ParseRawExpression(s)
          [] ~IsType(s) /\ ~Is(r, "LPAREN") -> AfterWord(r, Current(s).value)
          [] ~IsType(s) /\ Is(r, "LPAREN") /\ IsSimpleParameter(r) -> ParseParameterShorthand(r, Current(s).value)
          [] OTHER -> ParseRawExpression(BackToToken(Back(r, 1))))

\* Backing up behind a text leads to the token before the bar, which may be a comment or the line break.
ParseText(s) ==
    Then(Next(s), LAMBDA r :
        CASE Is(r, "ARROW") -> ParseArrow(r, Current(s).value)
          [] IsWord(Current(r), {"|"}) -> ParseRawExpression(Back(r, 1))
          [] OTHER -> Give(r, String(Current(s).value)))
IsRange(s) == Peek(s, 1).type = "DOT" /\ Peek(s, 2).type = "DOT"
ParseValueAt(s) ==
    LET token == Current(s)
    IN CASE token.type = "STRING" -> ParseText(s)
         [] token.type = "NUMBER" /\ IsRange(s) -> ParseRawExpression(s)
         [] token.type \in {"NUMBER", "PERCENT"} /\ ~(token.type = "NUMBER" /\ IsRange(s)) -> Give(AdvancePast(s), Scalar("Number", token.value))
         [] token.type = "BOOLEAN" -> Give(AdvancePast(s), Scalar("Boolean", token.value = "true"))
         [] token.type = "LBRACE" -> ParseObjectLiteral(s)
         [] token.type = "LBRACKET" -> ParseArrayLiteral(s)
         [] token.type = "LPAREN" -> ParseRawExpression(s)
         [] token.type = "AT_DECORATOR" -> Give(AdvancePast(s), Scalar("EnumValue", token.value))
         [] token.type = "IDENT" -> ParseIdentValue(s)
         [] token.type = "UNIT" -> Give(AdvancePast(s), Ident(token.value))
         [] OTHER -> Give(AdvancePast(AddError(s)), NoWord)
ParseValue(s) == ParsePart(s, "value")

\* A field: a colon and a value, or a step, a link, a description or a parameter under its own name.
\* Mutated: what stands on the next line is a value, also when it is a field.
ParseColonGreedily(s, key) == Then(ParseValue(s), LAMBDA r : Give(r, Field(key, r.node)))
ParseColon(s, key) ==
    IF IsFieldStart(s) \/ Current(s).type \in {"RBRACE", "RBRACKET"} THEN Give(AddError(s), Field(key, NoWord))
    ELSE Then(ParseValue(s), LAMBDA r : Give(r, Field(key, r.node)))
Under(r, key) == Give(r, Inline(key, r.node))
AfterKey(s, key) ==
    CASE Is(s, "COLON") -> ParseColon(Next(s), key)
      [] Is(s, "LBRACE") -> Under(ParseStepBody(s, key), key)
      [] Is(s, "ARROW") -> Under(ParseLinkShorthand(s, key), key)
      [] Is(s, "STRING") -> Under(Described(s, key), key)
      [] Is(s, "LPAREN") -> Under(ParseParameterShorthand(s, key), key)
      [] OTHER -> Give(AddError(s), Absent)
ParseField(s) == AfterKey(Next(s), Current(s).value)
Kept(fields, node) == IF node = Absent THEN fields ELSE Append(fields, node)

\* The body of an object or of the modifiers of a link: commas are optional, keys may be quoted.
RECURSIVE SkipSeparators(_)
SkipSeparators(s) == IF Is(s, "COMMA") THEN SkipSeparators(Next(s)) ELSE s
IsKey(s) ==
    IsFieldNameToken(Current(s)) \/ (Current(s).type \in {"STRING", "NUMBER"} /\ PeekSignificant(s, 1).type = "COLON")
ParseBodyUntil(from, closing, fields) ==
    Then(IF Is(from, closing) THEN from ELSE SkipSeparators(SkipTrivia(from)), LAMBDA s :
        CASE IsAtEnd(s) \/ Is(s, closing) -> Give(s, fields)
          [] IsKey(s) /\ ~Is(s, closing) -> Then(ParsePart(s, "field"), LAMBDA r : ParseBodyUntil(r, closing, Kept(fields, r.node)))
          [] OTHER -> ParseBodyUntil(AdvancePast(AddError(s)), closing, fields))

-----------------------------------------------------------------------------
\* Items of a list. A word followed on its own line by another, or by a comparison, is an expression.
IsPseudocode(s) ==
    LET next == PeekSignificant(s, 1)
    IN /\ \A i \in s.at..PeekSignificantIndex(s, 1) : i \in DOMAIN s.tokens => s.tokens[i].type # "NEWLINE"
       /\ ~IsWord(next, {"block", "warn", "pass"})
       /\ \/ next.type \in {"IDENT", "PERCENT", "NUMBER"} \cup Operators
          \/ next.type = "COLON" /\ PeekSignificant(s, 2).type # "LBRACE"
AfterItem(s, word) ==
    CASE Is(s, "LPAREN") -> ParseParameterShorthand(s, word)
      [] Is(s, "STRING") -> SkipTrivia(Described(s, word))
      [] OTHER -> AfterWord(s, word)
ParseArrayIdentItem(s) == IF IsPseudocode(s) THEN ParseRawExpression(s) ELSE AfterItem(Next(s), Current(s).value)
ParseGuard(s, condition) ==
    IF Is(s, "STRING") THEN Give(AdvancePast(s), Guarded(condition, Current(s).value)) ELSE Give(s, Guarded(condition, ""))
AfterText(s, text) ==
    CASE Is(s, "ARROW") -> ParseArrow(s, text)
      [] IsWord(Current(s), {"error"}) /\ PeekSignificant(s, 1).type = "COLON" -> ParseGuard(Next(Next(s)), text)
      [] OTHER -> Give(s, String(text))
ParseTextItem(s) == IF PeekSignificant(s, 1).type = "LPAREN" THEN ParseRawExpression(s) ELSE AfterText(Next(s), Current(s).value)
ParseArrayItem(s) ==
    LET token == Current(s)
    IN CASE token.type = "LBRACE" -> ParseObjectLiteral(s)
         [] token.type = "STRING" -> ParseTextItem(s)
         [] token.type = "IDENT" -> ParseArrayIdentItem(s)
         [] token.type = "UNIT" -> Give(AdvancePast(s), Ident(token.value))
         [] token.type \in {"NUMBER", "PERCENT", "BOOLEAN", "AT_DECORATOR"} -> ParseValue(s)
         [] OTHER -> Give(AdvancePast(AddError(s)), NoWord)
SkipComma(s) == IF Is(s, "COMMA") THEN Next(s) ELSE s
\* A round of a loop that consumed nothing gives up a token.
Beyond(s, r) == IF r.at = s.at THEN AdvancePast(r) ELSE r
ParseItems(from, items) ==
    Then(SkipTrivia(from), LAMBDA s :
        IF IsAtEnd(s) \/ Is(s, "RBRACKET") THEN Give(s, items)
        ELSE Then(ParsePart(s, "item"), LAMBDA r : ParseItems(Beyond(s, SkipComma(SkipTrivia(r))), Append(items, r.node))))

\* Entries of a step: texts, arrows and fields.
AfterStepText(s, text) == IF Is(s, "ARROW") THEN Under(ParseArrow(s, text), "__arrow__") ELSE Give(s, String(text))
ParseStepText(s) == AfterStepText(Next(s), Current(s).value)
ParseSteps(from, body) ==
    Then(SkipTrivia(from), LAMBDA s :
        CASE IsAtEnd(s) \/ Is(s, "RBRACE") -> Give(s, body)
          [] Is(s, "STRING") -> Then(ParseStepText(s), LAMBDA r : ParseSteps(r, Append(body, r.node)))
          [] IsFieldNameToken(Current(s)) -> Then(ParsePart(s, "field"), LAMBDA r : ParseSteps(r, Kept(body, r.node)))
          [] OTHER -> ParseSteps(AdvancePast(AddError(s)), body))

-----------------------------------------------------------------------------
\* The body of a declaration: fields, and the three ways to change a field that is inherited.
RECURSIVE OverridePath(_, _)
OverridePath(s, path) ==
    IF Is(s, "DOT") THEN Then(Expect(AdvancePast(s), "IDENT"), LAMBDA r : OverridePath(r, Append(path, r.node))) ELSE Give(s, path)
DescribedEntries(body) == [i \in DOMAIN body |-> IF "kind" \in DOMAIN body[i] THEN Inline("__description__", body[i]) ELSE body[i]]
ParseOverride(s) ==
    Then(Then(Expect(Next(s), "IDENT"), LAMBDA first : OverridePath(first, <<first.node>>)), LAMBDA path :
        Closed(ParseSteps(ExpectNext(SkipTrivia(path), "LBRACE"), << >>), "RBRACE",
               LAMBDA body : Modified("override", path.node, Object(DescribedEntries(body)))))
Change(how, s, r) == Give(r, Modified(how, <<s.node>>, r.node))
ParseAppend(s) ==
    Then(ExpectNext(Next(s), "IDENT"), LAMBDA r :
        Change("append", r, CASE Is(r, "LBRACE") -> ParseObjectLiteral(r)
                              [] Is(r, "LBRACKET") -> ParseArrayLiteral(r)
                              [] OTHER -> Give(AddError(r), Object(<< >>))))
ParseExtend(s) ==
    Then(ExpectNext(Next(s), "IDENT"), LAMBDA r :
        Change("extend", r, IF Is(r, "LBRACKET") THEN ParseArrayLiteral(r) ELSE Give(AddError(r), List(<< >>))))
ParseEntry(s) ==
    CASE Is(s, "OVERRIDE") -> ParseOverride(s)
      [] Is(s, "APPEND") -> ParseAppend(s)
      [] Is(s, "EXTEND") -> ParseExtend(s)
      [] IsFieldNameToken(Current(s)) -> ParsePart(s, "field")
      [] OTHER -> Give(RecoverToNextField(AddError(s)), Absent)
RECURSIVE ParseBody(_, _)
ParseBody(from, fields) ==
    Then(SkipTrivia(from), LAMBDA s :
        IF IsAtEnd(s) \/ Is(s, "RBRACE") THEN Give(s, fields)
        ELSE Then(ParseEntry(s), LAMBDA r : ParseBody(Beyond(s, r), Kept(fields, r.node))))
ParsePart(s, what) ==
    CASE what = "field" -> ParseField(s)
      [] what = "value" -> ParseValueAt(SkipTrivia(s))
      [] what = "item" -> ParseArrayItem(s)
      [] what = "body" -> ParseBody(s, << >>)

RECURSIVE ParseDecorators(_, _)
ParseDecorators(s, marks) ==
    IF Is(s, "AT_DECORATOR") THEN ParseDecorators(Next(s), Append(marks, Current(s).value)) ELSE Give(s, marks)
LooksLikeKindDeclaration(s) ==
    Is(s, "IDENT") /\ PeekSignificant(s, 1).type = "IDENT" /\ PeekSignificant(s, 2).type = "LBRACE"
\* The three forms of a declaration, up to its brace.
Heading(form, name, type) == [form |-> form, name |-> name, type |-> type]
ParseAtomHead(s) == Then(ExpectNext(Next(s), "IDENT"), LAMBDA r : Give(r, Heading("atom", r.node, Current(s).value)))
NamesUnitType(token) == token.type = "IDENT" \/ (token.type = "STRING" /\ token.value \in Qualified)
ParseUnitType(s) ==
    IF NamesUnitType(Current(s)) THEN Next(s)
    ELSE IF Current(s).type \in {"EOF", "LBRACE"} THEN AddError(s) ELSE Next(AddError(s))
ParseUnitHead(s) ==
    Then(ExpectNext(Next(s), "IDENT"), LAMBDA name :
        Then(ExpectNext(name, "COLON"), LAMBDA type : Give(ParseUnitType(type), Heading("unit", name.node, Current(type).value))))
ParsePrimeHead(s) ==
    Then(ExpectNext(ExpectNext(s, "PRIME"), "IDENT"), LAMBDA r :
        IF Is(r, "EXTENDS") THEN Then(ExpectNext(Next(r), "IDENT"), LAMBDA base : Give(base, Heading("prime", r.node, base.node)))
        ELSE Give(r, Heading("prime", r.node, Absent)))
ParseHead(s) ==
    IF Is(s, "UNIT") THEN ParseUnitHead(s) ELSE IF LooksLikeKindDeclaration(s) THEN ParseAtomHead(s) ELSE ParsePrimeHead(s)
ParseBraces(s, head) ==
    Closed(ParsePart(ExpectNext(s, "LBRACE"), "body"), "RBRACE", LAMBDA body : Declaration(head.form, head.name, head.type, body))
ParseDeclaration(s) == Then(ParseHead(s), LAMBDA r : ParseBraces(r, r.node))
\* Whatever stands behind the last brace is not looked at.
Outcome(s, decorators) == [ast |-> s.node, decorators |-> decorators, errors |-> s.errors, end |-> s.at]
ParseDecorated(s) == Outcome(ParseDeclaration(SkipTrivia(s)), s.node)
Parse(tokens) ==
    ParseDecorated(ParseDecorators(SkipTrivia([tokens |-> tokens, at |-> 1, errors |-> 0, node |-> Absent]), << >>))
=============================================================================
