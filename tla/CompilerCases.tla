---------------------------- MODULE CompilerCases ---------------------------
(* What the small instances of the compiler and of its parser are given: a model with a relation of   *)
(* each kind, graphs over three installed declarations, units that do and do not fit their types,     *)
(* small corpora, short texts and lines.                                                              *)
EXTENDS Declarations

Relation(names, selection, loadOrder, parentward) ==
    [names |-> names, selection |-> selection, loadOrder |-> loadOrder, parentward |-> parentward]
DeclaredRelations == <<Relation(<<"requires">>, "closure", "before", FALSE), Relation(<<"extends">>, "expand", "before", TRUE),
               Relation(<<"contradicts">>, "exclude", "none", FALSE), Relation(<<"enhances", "helps">>, "expand", "none", FALSE),
               Relation(<<"sees">>, "informational", "after", FALSE)>>
KebabOf(name) == IF name = "B" THEN "b" ELSE name
LowerOf(name) == IF name \in {"B", "REQUIRES"} THEN (IF name = "B" THEN "b" ELSE "requires") ELSE name

\* Graphs: the root, and what a, b and c depend on.
Atom(name, body) == Declaration("atom", name, "method", body)
Linked(name, links) == Atom(name, <<Field("links", List(links))>>)
Long(verb, to, required, direction) ==
    Object(<<Field("type", Ident(verb)), Field("to", String(to)), Field("required", Scalar("Boolean", required)), Field("direction", Ident(direction))>>)
RootLinks == {<<Link("requires", "a"), Link("requires", "b")>>, <<Link("helps", "b"), Link("extends", "c")>>,
              <<Link("contradicts", "b"), Link("enhances", "a")>>, <<Link("sees", "a"), Link("requires", "c"), Link("requires", "z")>>,
              <<Long("enhances", "a", TRUE, "before"), Link("enhances", "B")>>, <<Link("requires", "c"), Link("requires", "a")>>, << >>}
ALinks == {<<Link("requires", "b")>>, <<Link("contradicts", "b")>>, <<Link("requires", "r")>>, <<Link("requires", "c"), Link("requires", "c")>>}
BLinks == {<<Link("requires", "c")>>, <<Link("requires", "a")>>, <<Link("contradicts", "r")>>, << >>}
CLinks == {<<Link("requires", "b")>>, << >>}
OneOf(root, a, b, c) == "r" :> root @@ "a" :> Linked("a", a) @@ "b" :> Linked("b", b) @@ "c" :> Linked("c", c)
Source(ast, dirs, emit) == [ast |-> ast, dirs |-> dirs, emit |-> emit, bundle |-> TRUE, level |-> 3, corpus |-> "out"]
Graphs == {Source(Linked("r", root), <<OneOf(Linked("r", root), a, b, c)>>, "markdown") : root \in RootLinks, a \in ALinks, b \in BLinks, c \in CLinks}

ModuleOf(name) == IF name = "m1-r" THEN "M1" ELSE Absent
BareOf(name) == IF name = "m1-r" THEN "r" ELSE name

\* Names, versions, what a declaration must have, and what is found where.
Using(items) == Field("use", List(items))
ManyChecks ==
    {<<Field("name", String("r")), Field("version", String(v))>> : v \in {"1.0.0", "new"}}
    \cup {<<Field("name", String("Bad"))>>, <<Field("name", Ident("r"))>>, <<Using(<<Reference(<<"a", "1">>), Reference(<<"b", "2">>)>>)>>,
          <<Using(<<String("B"), String("nobody")>>)>>, <<Using(<<Reference(<<"a", "1">>), Reference(<<"a", "2">>)>>)>>,
          <<Field("steps", List(<<Step("s", <<String("go")>>), Step("t", <<[kind |-> "Field", key |-> "error", value |-> String("stop")]>>)>>))>>,
          <<Field("thresholds", List(<<Threshold("m", "block" :> 1 @@ "warn" :> 3 @@ "pass" :> 2)>>))>>}
Forms(body) == {Atom("r", body), Declaration("prime", "r", "a", body), Declaration("prime", "r", Absent, body)}
Heir(name, parent, uses) == Declaration("prime", name, parent, <<Using(uses)>>)
Nearer == "a" :> Heir("a", "b", <<Reference(<<"c", "1">>)>>) @@ "b" :> Absent @@ "r" :> Absent
Farther == "b" :> Heir("b", "c", <<Reference(<<"c", "2">>)>>) @@ "c" :> Heir("c", Absent, << >>) @@ "a" :> Absent
Longer == "b" :> Heir("b", "c", <<Reference(<<"c", "1">>)>>) @@ "c" :> Heir("c", "d", << >>) @@ "d" :> Heir("d", "a", << >>)
Checks == {Source(ast, <<Nearer, next>>, "markdown") : ast \in UNION {Forms(body) : body \in ManyChecks}, next \in {Farther, Longer}}
          \cup {Source(Absent, << >>, "markdown")}

\* Units: a type that rejects further fields, one that does not and whose group has sections, one with sections of its own.
TypeField(name, type, required) == [name |-> name, type |-> type, required |-> required]
UnitTypes == "fact" :> [rejects |-> FALSE, fields |-> <<TypeField("facts", "unknown", TRUE), TypeField("count", "integer", FALSE)>>]
             @@ "rule" :> [rejects |-> TRUE, fields |-> <<TypeField("about", "fact", TRUE), TypeField("sure", "boolean", FALSE)>>]
             @@ "note" :> [rejects |-> FALSE, fields |-> << >>]
Facts == Field("facts", List(<<Object(<<Field("statement", String("it is"))>>), String("else")>>))
Sections == <<"facts", "checks", "includes", "unprocessed-fields">>
Full == <<"sources", "examples", "relations", "notes", "full-categories", "unprocessed-fields">>
Group(name, types) == [name |-> name, types |-> types]
Rule(group, sections) == [type |-> "group", group |-> group, sections |-> sections, include |-> {<<"facts">>}, exclude |-> {}]
Projection(name, rules) ==
    [name |-> name, groups |-> <<Group("data", {"fact"}), Group("style", {"note"})>>, default |-> "style", rules |-> rules,
     byType |-> "fact" :> <<[verb |-> "array-object-field", field |-> "facts", key |-> "statement"]>>,
     fallback |-> <<[verb |-> "field", field |-> "statement", key |-> ""]>>, include |-> {<<"*">>, <<"meta", "id">>}, exclude |-> {<<"sure">>}]
UnitProjections == <<Projection("summary", << >>), Projection("core", <<Rule("data", Sections), Rule("style", Sections)>>),
                     Projection("full", <<Rule("data", Full), Rule("style", Full)>>)>>
Optional == {Field("count", Number(1, TRUE)), Field("count", Number(2, FALSE)), Field("mood", Ident("calm")), Field("notes", String("n")),
             Field("about", Reference(<<"fact", "x">>)), Field("about", Reference(<<"rule", "x">>)), Field("sure", Scalar("Boolean", TRUE)),
             Field("requires", List(<<String("a"), Reference(<<"b", "1">>), Number(3, TRUE)>>)), Field("source", String("s")), Facts,
             Field("_meta", Object(<<Field("by", String("me"))>>)), Field("_meta", String("me")), Field("examples", List(<<Link("helps", "a")>>)),
             Field("helps", Ident("c"))}
Bodies == {<<f>> : f \in Optional} \cup {<<f, g>> : f, g \in Optional} \cup {<<Facts, f, g>> : f \in Optional, g \in {Field("mood", Ident("calm"))}}
ManyUnits == {Source(Declaration("atom", "m1-r", type, body), << >>, "atom-dir") : type \in {"fact", "rule", "note", "what"}, body \in Bodies}
             \cup {Source(Declaration("prime", "r", Absent, << >>), << >>, "atom-dir"), Source(Declaration("unit", "r", "fact", <<Facts>>), << >>, "atom-dir")}

\* Corpora: up to three of a few declarations, in every order.
Names == <<"p", "q", "s">>
InOrder(a, b) == \E i, j \in DOMAIN Names : Names[i] = a /\ Names[j] = b /\ i < j
WordsOf(text) == CASE text = "one" -> {"x"} [] text = "both" -> {"x", "y"} [] text = "other" -> {"y"} [] OTHER -> {}
Tagged(name, kind, tags, text, more) ==
    Declaration("atom", name, kind, <<Field("tags", List([i \in DOMAIN tags |-> String(tags[i])])), Field("description", String(text))>> \o more)
Members == {Tagged("p", "fact", <<"a", "b">>, "both", << >>), Tagged("p", "rule", <<"a", "b">>, "one", <<Field("id", String("i"))>>),
            Tagged("q", "fact", <<"a", "b">>, "one", <<Field("requires", String("p"))>>), Tagged("q", "fact", <<"a", "B">>, "both", << >>),
            Tagged("s", "fact", <<"a", "b">>, "other", <<Field("extends", List(<<String("i"), String("z")>>))>>),
            Tagged("s", "fact", <<"a", "b">>, "both", <<Field("links", List(<<Link("contradicts", "q"), Link("likes", "p")>>)), Field("root", Scalar("Boolean", TRUE))>>),
            Tagged("s", "fact", <<"index">>, "both", << >>)}
Strictness(density, cap) == [density |-> density, rootTags |-> {"index"}, minTags |-> 2, duplicate |-> <<3, 4>>, overlap |-> <<1, 3>>, cap |-> cap]
Corpora == {[emit |-> "corpus", asts |-> asts, options |-> options] :
               asts \in UNION {[1..k -> Members] : k \in 0..3}, options \in {Strictness(<<1, 20>>, 200), Strictness(<<1, 2>>, 1)}}

AllSources == {Graphs, Checks, ManyUnits, Corpora}

-----------------------------------------------------------------------------
\* The parser: every short text over the characters that matter to a part of the lexer, and every line
\* of up to three tokens in each place a line may stand.
UpTo(S, n) == UNION {[1..k -> S] : k \in 0..n}
Behind(prefix, S, n) == {prefix \o s : s \in UpTo(S, n)}
SomeTexts ==
    {UpTo({"p", "1", "\"", "\\", "\n", " ", "|", ":", "/", "*", "@", "-", ">", "=", "%", ".", "{", "?"}, 2),
     UpTo({"\"", "\\", "n", "\n"}, 5),
     Behind(<<"p", ":", "|">>, {" ", "\n", "p", "}"}, 4),
     Behind(<<" ", "p", ":", "|", "\n">>, {" ", "\n", "p"}, 6),
     UpTo({"/", "*", "\n", "p"}, 4), UpTo({"1", ".", "%", "p"}, 4),
     UpTo({"@", "p", "/", "-", "1"}, 4), UpTo({"-", ">", "<", "="}, 3)}

Token(type, value) == [type |-> type, value |-> value]
Mark(type) == Token(type, "")
Some == Token("IDENT", "a")
Words == {Some, Token("IDENT", "block"), Token("IDENT", "|"), Token("IDENT", "error"), Token("STRING", "s"), Token("NUMBER", "1"),
          Token("AS", "as"), Token("UNIT", "unit"), Token("AT_DECORATOR", "@d")}
Marks == {Mark(type) : type \in {"COLON", "LBRACE", "RBRACE", "LBRACKET", "RBRACKET", "LPAREN", "RPAREN", "ARROW", "DOT", "COMMA",
                                 "NEWLINE", "LT"}}
Changes == {Mark(type) : type \in {"OVERRIDE", "APPEND", "EXTEND"}}
Opening == <<Token("IDENT", "fact"), Token("IDENT", "F"), Mark("LBRACE")>>
Closing == <<Mark("RBRACE"), Mark("EOF")>>
Next == <<Mark("NEWLINE"), Token("IDENT", "b"), Mark("COLON"), Token("STRING", "t")>>
Line(opening, line, closing) == [kind |-> "line", tokens |-> opening \o line \o closing, line |-> line]

\* Lines before a field, values, items of a list, entries of a step, heads of a declaration.
SomeBodies ==
    {{Line(Opening, line, Next \o Closing) : line \in UpTo(Words \cup Marks \cup Changes, 3)},
     {Line(Opening \o <<Some, Mark("COLON")>>, line, Closing) : line \in UpTo(Words \cup Marks, 3)},
     {Line(Opening \o <<Some, Mark("COLON"), Mark("LBRACKET")>>, line, <<Mark("RBRACKET")>> \o Closing) : line \in UpTo(Words \cup Marks, 3)},
     {Line(Opening \o <<opens, Some, Mark("LBRACE")>>, line, <<Mark("RBRACE")>> \o Closing) :
         opens \in {Some, Mark("OVERRIDE"), Mark("APPEND")}, line \in UpTo(Words \cup {Mark("COLON"), Mark("ARROW"), Mark("DOT"), Mark("LBRACE")}, 2)},
     {Line(<< >>, head, <<Mark("LBRACE"), Mark("RBRACE"), Mark("EOF")>>) :
         head \in Behind(<<Token("AT_DECORATOR", "@d")>>, {Some, Token("PRIME", "prime"), Token("EXTENDS", "extends"), Token("UNIT", "unit"),
                         Mark("COLON"), Token("STRING", "@q/r"), Token("STRING", "s")}, 4)}}
=============================================================================
