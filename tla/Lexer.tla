------------------------------- MODULE Lexer --------------------------------
(* parser/src/lexer.ts: characters to tokens. A character is a string of its own, a tab or a carriage *)
(* return a blank; words of one letter stand for the keywords.                                        *)
EXTENDS Integers, SequencesExt

CONSTANTS
    Letters,    \* isIdentStart
    Digits,     \* isDigit
    Keywords    \* a word to the type of its token: the keywords, and the names every object inherits

Char(src, i) == IF i < Len(src) THEN src[i + 1] ELSE "end"
Text(src, i, j) == SubSeq(src, i + 1, j)
IsWordPart(c) == c \in Letters \cup Digits \cup {"-"}
\* The first place from i on where the characters stop being of the kind, or the end.
PlaceAfter(src, i, Continues(_)) ==
    IF i >= Len(src) THEN i ELSE CHOOSE j \in i..Len(src) : (\A k \in i..(j - 1) : Continues(k)) /\ (j = Len(src) \/ ~Continues(j))
Run(src, i, Belongs(_)) == PlaceAfter(src, i, LAMBDA k : Belongs(Char(src, k)))

\* A place in the source; walking past the end goes on counting.
Advance(src, p) ==
    IF Char(src, p.at) = "\n" THEN [at |-> p.at + 1, line |-> p.line + 1, column |-> 1]
    ELSE [p EXCEPT !.at = @ + 1, !.column = @ + 1]
RECURSIVE AdvanceTo(_, _, _)
AdvanceTo(src, p, i) == IF p.at >= i THEN p ELSE AdvanceTo(src, Advance(src, p), i)

MakeToken(type, value, p) == [type |-> type, value |-> value, line |-> p.line, column |-> p.column, offset |-> p.at]
Read(type, value, p, next) == [tokens |-> <<MakeToken(type, value, p)>>, next |-> next]
ReadRun(src, type, p, end) == Read(type, Text(src, p.at, end), p, AdvanceTo(src, p, end))

-----------------------------------------------------------------------------
\* Strings. An escape nobody knows stays as it is; at the end of the source it takes a character that
\* is not there.
Escapes == "n" :> "\n" @@ "\\" :> "\\" @@ "\"" :> "\""
Unescape(c) == IF c \in DOMAIN Escapes THEN <<Escapes[c]>> ELSE <<"\\", c>>
RECURSIVE StringBody(_, _, _)
StringBody(src, p, value) ==
    IF p.at >= Len(src) THEN [value |-> value, next |-> p]
    ELSE CASE Char(src, p.at) = "\"" -> [value |-> value, next |-> Advance(src, p)]
           [] Char(src, p.at) = "\\" -> StringBody(src, AdvanceTo(src, p, p.at + 2), value \o Unescape(Char(src, p.at + 1)))
           [] OTHER -> StringBody(src, Advance(src, p), Append(value, Char(src, p.at)))
Quotes(src, i) == Char(src, i) = "\"" /\ Char(src, i + 1) = "\"" /\ Char(src, i + 2) = "\""
ReadTriple(src, p) ==
    LET end == PlaceAfter(src, p.at + 3, LAMBDA i : ~Quotes(src, i))
        value == Text(src, p.at + 3, end)
    IN Read("STRING", IF value # << >> /\ Head(value) = "\n" THEN Tail(value) ELSE value, p,
            AdvanceTo(src, p, IF Quotes(src, end) THEN end + 3 ELSE end))
ReadString(src, p) ==
    IF Quotes(src, p.at) THEN ReadTriple(src, p)
    ELSE LET body == StringBody(src, Advance(src, p), << >>) IN Read("STRING", body.value, p, body.next)

\* A block scalar: the lines behind this one that are indented deeper. The rest of this line is dropped,
\* and the line that ends the block is read again.
IsBlank(c) == c = " "
LineStart(src, i) == CHOOSE j \in 0..i : (j = 0 \/ Char(src, j - 1) = "\n") /\ \A k \in j..(i - 1) : Char(src, k) # "\n"
Indent(src, i) == Run(src, i, IsBlank) - i
ParentIndent(src, i) == LET n == Indent(src, LineStart(src, i)) IN IF LineStart(src, i) + n > i THEN i - LineStart(src, i) ELSE n
LineEnd(src, i) == Run(src, i, LAMBDA c : c # "\n")
RECURSIVE BlockLines(_, _, _, _, _)
BlockLines(src, p, parent, indent, lines) ==
    LET ink == p.at + Indent(src, p.at)
        end == LineEnd(src, ink)
        next == AdvanceTo(src, p, IF end < Len(src) THEN end + 1 ELSE end)
    IN CASE ink >= Len(src) -> [lines |-> lines, next |-> AdvanceTo(src, p, ink)]
         [] ink < Len(src) /\ Char(src, ink) = "\n" ->
                BlockLines(src, next, parent, indent, IF indent = -1 THEN lines ELSE Append(lines, << >>))
         [] ink < Len(src) /\ Char(src, ink) # "\n" /\ ink - p.at < (IF indent = -1 THEN parent + 1 ELSE indent) ->
                [lines |-> lines, next |-> p]
         [] OTHER -> BlockLines(src, next, parent, IF indent = -1 THEN ink - p.at ELSE indent, Append(lines, Text(src, ink, end)))
Joined(lines) ==
    LET last == SelectLastInSeq(lines, LAMBDA line : line # << >>)
    IN FlattenSeq([i \in 1..last |-> IF i = 1 THEN lines[i] ELSE <<"\n">> \o lines[i]])
ReadBlockScalar(src, p) ==
    LET end == LineEnd(src, p.at)
        body == BlockLines(src, AdvanceTo(src, p, IF end < Len(src) THEN end + 1 ELSE end), ParentIndent(src, p.at), -1, << >>)
    IN Read("STRING", Joined(body.lines), p, body.next)

-----------------------------------------------------------------------------
ReadNumber(src, p) ==
    LET whole == Run(src, p.at, LAMBDA c : c \in Digits)
        end == IF Char(src, whole) = "." /\ Char(src, whole + 1) \in Digits THEN Run(src, whole + 1, LAMBDA c : c \in Digits) ELSE whole
    IN IF Char(src, end) = "%" THEN Read("PERCENT", Text(src, p.at, end), p, AdvanceTo(src, p, end + 1))
       ELSE ReadRun(src, "NUMBER", p, end)
TypeOfWord(word) == IF word \in DOMAIN Keywords THEN Keywords[word] ELSE "IDENT"
ReadWord(src, p) ==
    LET end == Run(src, p.at, IsWordPart) IN ReadRun(src, TypeOfWord(Text(src, p.at, end)), p, end)
\* @name, or the qualified name @name/name, which is text.
ReadDecorator(src, p) ==
    LET end == Run(src, p.at + 1, IsWordPart)
    IN IF Char(src, end) = "/" /\ Char(src, end + 1) \in Letters THEN ReadRun(src, "STRING", p, Run(src, end + 1, IsWordPart))
       ELSE ReadRun(src, "AT_DECORATOR", p, end)

Comment(p, next) == Read("COMMENT", << >>, p, next)
ReadLineComment(src, p) == Comment(p, AdvanceTo(src, p, LineEnd(src, p.at)))
Closes(src, i) == Char(src, i) = "*" /\ Char(src, i + 1) = "/"
ReadBlockComment(src, p) ==
    LET end == PlaceAfter(src, p.at + 2, LAMBDA i : ~Closes(src, i))
    IN Comment(p, AdvanceTo(src, p, IF Closes(src, end) THEN end + 2 ELSE end))

Symbols == "{" :> "LBRACE" @@ "}" :> "RBRACE" @@ "[" :> "LBRACKET" @@ "]" :> "RBRACKET" @@ "(" :> "LPAREN" @@ ")" :> "RPAREN"
           @@ ":" :> "COLON" @@ "," :> "COMMA" @@ "." :> "DOT" @@ "<" :> "LT" @@ ">" :> "GT" @@ "arrow" :> "ARROW" @@ "\n" :> "NEWLINE"
Pairs == <<"-", ">">> :> "ARROW" @@ <<"<", "=">> :> "LTE" @@ <<">", "=">> :> "GTE"

LastSignificantToken(tokens) ==
    LET at == SelectLastInSeq(tokens, LAMBDA t : t.type \notin {"NEWLINE", "COMMENT"}) IN IF at = 0 THEN "none" ELSE tokens[at].type

\* The token at p, which is not blank; a character that begins none is passed over.
ReadToken(src, p, tokens) ==
    LET c == Char(src, p.at)
        d == Char(src, p.at + 1)
    IN CASE c = "/" /\ d = "/" -> ReadLineComment(src, p)
         [] c = "/" /\ d = "*" -> ReadBlockComment(src, p)
         [] c = "\"" -> ReadString(src, p)
         [] c \in Digits -> ReadNumber(src, p)
         [] c = "@" /\ d \in Letters -> ReadDecorator(src, p)
         [] c = "|" /\ LastSignificantToken(tokens) = "COLON" -> ReadBlockScalar(src, p)
         [] c = "|" /\ LastSignificantToken(tokens) # "COLON" -> ReadRun(src, "IDENT", p, p.at + 1)
         [] c \in Letters -> ReadWord(src, p)
         [] <<c, d>> \in DOMAIN Pairs -> ReadRun(src, Pairs[<<c, d>>], p, p.at + 2)
         [] c \in DOMAIN Symbols /\ <<c, d>> \notin DOMAIN Pairs -> ReadRun(src, Symbols[c], p, p.at + 1)
         [] OTHER -> [tokens |-> << >>, next |-> Advance(src, p)]
RECURSIVE LexFrom(_, _, _)
LexFrom(src, p, tokens) ==
    LET q == AdvanceTo(src, p, Run(src, p.at, IsBlank))
    IN IF q.at >= Len(src) THEN Append(tokens, MakeToken("EOF", << >>, q))
       ELSE LET read == ReadToken(src, q, tokens) IN LexFrom(src, read.next, tokens \o read.tokens)
Tokenize(src) == LexFrom(src, [at |-> 0, line |-> 1, column |-> 1], << >>)

-----------------------------------------------------------------------------
\* Tokens come in the order of the source, each at the line and the column of its offset.
LineOf(src, i) == 1 + Len(SelectSeq(Text(src, 0, i), LAMBDA c : c = "\n"))
PlacesAreRight(src, tokens) ==
    /\ Last(tokens).type = "EOF"
    /\ \A i \in DOMAIN tokens : i > 1 => tokens[i - 1].offset < tokens[i].offset
    /\ \A i \in DOMAIN tokens : LET t == tokens[i] IN t.offset <= Len(src) =>
          t.line = LineOf(src, t.offset) /\ t.column = 1 + t.offset - LineStart(src, t.offset)

\* What stands behind a line break reads the same without what stands before it, unless it is a bar
\* that may belong to a colon.
Moved(tokens, by, lines) == [i \in DOMAIN tokens |-> [tokens[i] EXCEPT !.offset = @ + by, !.line = @ + lines]]
SameAs(src, alone, tokens) ==
    \/ Char(src, Head(SelectSeq(alone, LAMBDA t : t.type \notin {"NEWLINE", "COMMENT"})).offset) = "|"
    \/ alone = tokens
LinesAreIndependent(src, tokens) ==
    \A i \in DOMAIN tokens : tokens[i].type = "NEWLINE" =>
        SameAs(src, Moved(Tokenize(Text(src, tokens[i].offset + 1, Len(src))), tokens[i].offset + 1, tokens[i].line),
               SubSeq(tokens, i + 1, Len(tokens)))

\* Every text can be written as a string.
Quoted(value) ==
    <<"\"">> \o FlattenSeq([i \in DOMAIN value |->
        IF value[i] = "\n" THEN <<"\\", "n">> ELSE IF value[i] \in {"\\", "\""} THEN <<"\\", value[i]>> ELSE <<value[i]>>]) \o <<"\"">>
TextsAreWritable(tokens) ==
    \A i \in DOMAIN tokens : tokens[i].type = "STRING" => Head(Tokenize(Quoted(tokens[i].value))).value = tokens[i].value
=============================================================================
