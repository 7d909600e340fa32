----------------------------- MODULE SourceText -----------------------------
(* The reference the parser is held to: how a declaration is written down. Parsing and writing undo   *)
(* each other, commas, line breaks and comments aside. And parser/src/index.ts: the two passes over a *)
(* source, from characters to tokens and from tokens to a declaration, each on inputs of its own.     *)
EXTENDS Parser

CONSTANTS
    Letters, Digits, Keywords,
    Texts,    \* sets of sources as characters
    Bodies    \* sets of sources as tokens: what leads to a line, the line, and what is behind it

VARIABLES
    given,
    pass,  \* "read", then "done"
    made   \* tokens, or what the parser found

Word(text) == <<[type |-> "word", value |-> text]>>
Sign(type) == <<[type |-> type, value |-> ""]>>
\* Keywords in the place of names are names, and a number does not keep its percent sign.
Plain(token) ==
    [token EXCEPT !.type = IF @ \in {"IDENT", "PRIME", "UNIT", "EXTENDS", "AS", "STRING", "NUMBER", "PERCENT", "BOOLEAN", "AT_DECORATOR"} THEN "word" ELSE @]
Significant(tokens) ==
    LET kept == SelectSeq(tokens, LAMBDA t : ~Trivial(t) /\ t.type # "COMMA") IN [i \in DOMAIN kept |-> Plain(kept[i])]
InBrackets(open, tokens, close) == Sign(open) \o tokens \o Sign(close)
Path(path) == FlattenSeq([i \in DOMAIN path |-> (IF i = 1 THEN << >> ELSE Sign("DOT")) \o Word(path[i])])
Unless(text, tokens) == IF text = Absent \/ text = "" THEN << >> ELSE tokens

RECURSIVE Written(_), WrittenField(_)
WrittenFields(fields) == FlattenSeq([i \in DOMAIN fields |-> IF "kind" \in DOMAIN fields[i] THEN Written(fields[i]) ELSE WrittenField(fields[i])])
WrittenLevels(levels) ==
    FlattenSeq([i \in DOMAIN levels |-> Word(levels[i].level) \o Sign("COLON") \o Sign(levels[i].operator) \o Word(levels[i].value)])
WrittenObject(object) ==
    IF "short" \in DOMAIN object
    THEN Word(object.fields[1].value.text) \o Word("error") \o Sign("COLON")
         \o Unless(object.fields[2].value.text, Word(object.fields[2].value.text))
    ELSE InBrackets("LBRACE", WrittenFields(object.fields), "RBRACE")
Written(value) ==
    CASE value.kind = "String" -> IF "raw" \in DOMAIN value THEN Significant(value.raw) ELSE Word(value.text)
      [] value.kind = "Ident" -> Word(value.text)
      [] value.kind \in {"Number", "EnumValue"} -> Word(value.value)
      [] value.kind = "Boolean" -> Word(IF value.value THEN "true" ELSE "false")
      [] value.kind = "Object" -> WrittenObject(value)
      [] value.kind = "Array" -> InBrackets("LBRACKET", FlattenSeq([i \in DOMAIN value.items |-> Written(value.items[i])]), "RBRACKET")
      [] value.kind = "LinkShorthand" ->
             Word(value.verb) \o Sign("ARROW") \o Word(value.target)
             \o (IF value.modifiers = Absent THEN << >> ELSE InBrackets("LPAREN", WrittenFields(value.modifiers.fields), "RPAREN"))
      [] value.kind = "Arrow" -> Word(value.left) \o Sign("ARROW") \o Word(value.right)
      [] value.kind = "ParameterShorthand" ->
             Word(value.name) \o Unless(value.type, InBrackets("LPAREN", Word(value.type), "RPAREN"))
             \o Unless(value.description, Word(value.description))
      [] value.kind = "Reference" -> Path(value.path) \o Unless(value.alias, Word("as") \o Word(value.alias))
      [] value.kind = "Step" -> Word(value.name) \o InBrackets("LBRACE", WrittenFields(value.body), "RBRACE")
      [] value.kind = "Threshold" -> Word(value.metric) \o WrittenLevels(value.levels)
WrittenField(field) ==
    IF "inline" \in DOMAIN field THEN Written(field.value)
    ELSE IF "path" \in DOMAIN field
         THEN Sign(IF field.key = "override" THEN "OVERRIDE" ELSE IF field.key = "append" THEN "APPEND" ELSE "EXTEND")
              \o Path(field.path) \o Written(field.value)
         ELSE Word(field.key) \o Sign("COLON") \o Written(field.value)
WrittenDeclaration(ast) ==
    CASE ast.form = "atom" -> Word(ast.type) \o Word(ast.name)
      [] ast.form = "unit" -> Word("unit") \o Word(ast.name) \o Sign("COLON") \o Word(ast.type)
      [] ast.form = "prime" -> Word("prime") \o Word(ast.name) \o Unless(ast.type, Word("extends") \o Word(ast.type))
WrittenSource(ast) == WrittenDeclaration(ast) \o InBrackets("LBRACE", WrittenFields(ast.body), "RBRACE")

-----------------------------------------------------------------------------
\* A source without an error says nothing that is not in its declaration, up to the brace that closes
\* it and but for the end of a raw expression that is cut off.
Agree(source, written) ==
    /\ Len(source) = Len(written)
    /\ \A i \in DOMAIN source : source[i] = written[i] \/ (written[i].type = "CUT" /\ source[i].value = written[i].value)
NothingIsDropped(tokens, parsed) ==
    parsed.errors = 0 =>
        Agree(Significant(SubSeq(tokens, 1, parsed.end - 1)),
              FlattenSeq([i \in DOMAIN parsed.decorators |-> Word(parsed.decorators[i])]) \o WrittenSource(parsed.ast))

\* However wrong a line is, the field on the next one is still read, unless the line opens a bracket
\* or breaks off where a name has to follow.
AwaitsAName(line) ==
    LET at == SelectLastInSeq(line, LAMBDA t : ~Trivial(t)) IN at # 0 /\ line[at].type \in {"AS", "DOT", "APPEND", "EXTEND"}
Opens(token) == token.type \in {"LBRACE", "LBRACKET", "LPAREN", "RBRACE", "OVERRIDE"}
NextLineSurvives(line, field, parsed) ==
    (\A i \in DOMAIN line : ~Opens(line[i])) /\ ~AwaitsAName(line) => Contains(parsed.ast.body, field)

-----------------------------------------------------------------------------
\* Reading.
readerVars == <<given, pass, made>>

Characters == INSTANCE Lexer

TextGiven(chars) == [kind |-> "text", chars |-> chars]
LineGiven(opening, line, closing) == [kind |-> "line", tokens |-> opening \o line \o closing, line |-> line]
ReaderInit == /\ \/ \E texts \in Texts : given \in {TextGiven(chars) : chars \in texts}
                 \/ \E lines \in Bodies : given \in lines
              /\ pass = "read" /\ made = << >>
Lex ==
    /\ pass = "read" /\ given.kind = "text" /\ UNCHANGED given
    /\ pass' = "done" /\ made' = Characters!Tokenize(given.chars)
ParseTokens ==
    /\ pass = "read" /\ given.kind = "line" /\ UNCHANGED given
    /\ pass' = "done" /\ made' = Parse(given.tokens)
ReaderNext == Lex \/ ParseTokens
ReaderSpec == ReaderInit /\ [][ReaderNext]_readerVars

-----------------------------------------------------------------------------
\* The field that stands on a line of its own behind the line, if the case has one.
NextField == Field("b", String("t"))
ReadingIsFaithful ==
    /\ pass = "done" /\ given.kind = "text" =>
          /\ Characters!PlacesAreRight(given.chars, made)
          /\ Characters!LinesAreIndependent(given.chars, made)
          /\ Characters!TextsAreWritable(made)
    /\ pass = "done" /\ given.kind = "line" =>
          /\ NothingIsDropped(given.tokens, made)
          /\ made.errors <= MaxErrors + 1
          /\ Contains(Significant(given.tokens), [type |-> "word", value |-> "b"]) => NextLineSurvives(given.line, NextField, made)
=============================================================================
