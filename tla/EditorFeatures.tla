---------------------------- MODULE EditorFeatures -----------------------------
(* language-server: what an editor is told of a declaration, and what it is offered where the cursor  *)
(* stands. The phases of the compiler run again up to the emitters; the model is asked apart from them. *)
EXTENDS CompilePipeline

\* compileStageDiagnostics: a form the compiler has no phases for is checked no further.
Stages(aborted, errors, warnings) == [aborted |-> aborted, errors |-> errors, warnings |-> warnings]
AfterResolve(graph, warnings) ==
    IF graph.faults # {} THEN Stages("resolve", graph.faults, warnings) ELSE Stages("nowhere", {}, warnings)
AfterCheck(findings, ast, installed) ==
    IF Rules(findings, "error") # {} THEN Stages("check", Rules(findings, "error"), Rules(findings, "warn"))
    ELSE AfterResolve(Resolve(ast, installed), Rules(findings, "warn"))
StagesOver(ast, installed) == AfterCheck(CheckL1(ast, installed), ast, installed)
CompileStageDiagnostics(ast, dirs) ==
    IF ast = Absent THEN Stages("parse", {"syntax"}, {})
    ELSE IF ast.form = "unit" THEN Stages("unit-form", {}, {}) ELSE StagesOver(ast, DiscoverInstalledPrimes(dirs))

\* ModelIndex.resolveType, and checkFields over the type: relations and _meta are fields to the editor.
ResolveType(model, name) == IF model \in {Absent, ModelName} /\ name \in DOMAIN Types THEN name ELSE Absent
UnknownFields(body, type) ==
    {Fault("UNKNOWN_FIELD", key) : key \in {key \in {f.key : f \in ToSet(body)} : type.rejects /\ ~Belongs(type, key)}}
MissingFields(body, type) ==
    {Fault("MISSING_REQUIRED_FIELD", f.name) : f \in {f \in ToSet(type.fields) : f.required /\ ~Declares(body, f.name)}}
CheckFields(body, type) == UnknownFields(body, type) \cup MissingFields(body, type)
ModelDiagnostics(ast) ==
    CASE ast = Absent \/ ast.form = "prime" -> {}
      [] ast # Absent /\ ast.form # "prime" /\ ResolveType(Absent, ast.type) = Absent -> {Fault("UNKNOWN_TYPE", Absent)}
      [] OTHER -> CheckFields(ast.body, Types[ast.type])

-----------------------------------------------------------------------------
\* Completion reads the tokens before the cursor. A text that is not closed runs to the cursor.
Token(type, value) == [type |-> type, value |-> value, closed |-> TRUE]
DepthOf(tokens) ==
    FoldLeft(LAMBDA depth, t : CASE t.type = "LBRACE" -> depth + 1
                                 [] t.type = "RBRACE" /\ depth > 0 -> depth - 1
                                 [] OTHER -> depth, 0, tokens)
\* enclosingTypeReference: behind the colon of a unit, or whatever stands first.
TypeInHeader(header) ==
    LET unit == SelectInSeq(header, LAMBDA t : t.type = "UNIT")
        colon == SelectInSubSeq(header, unit + 1, Len(header), LAMBDA t : t.type = "COLON")
    IN IF unit = 0 THEN (IF header = << >> \/ Head(header).type = "PRIME" THEN Absent ELSE Head(header).value)
       ELSE IF colon = 0 \/ colon = Len(header) THEN Absent ELSE header[colon + 1].value
Place(kind, of) == [kind |-> kind, of |-> of]
FieldPlace(reference) == IF reference = Absent THEN Place("unsupported", "unknown-declaration") ELSE Place("field-position", reference)
OpeningBrace(tokens) == Max({i \in DOMAIN tokens : tokens[i].type = "LBRACE" /\ DepthOf(SubSeq(tokens, 1, i - 1)) = 0})
CompletionContext(tokens) ==
    CASE DepthOf(tokens) = 0 -> Place("type-position", Absent)
      [] DepthOf(tokens) > 1 -> Place("unsupported", "nested-object")
      [] DepthOf(tokens) = 1 /\ (Last(tokens).type = "COLON" \/ ~Last(tokens).closed) -> Place("value-position", Absent)
      [] OTHER -> FieldPlace(TypeInHeader(SubSeq(tokens, 1, OpeningBrace(tokens) - 1)))

\* What is offered: the types there are, or the fields of the type the declaration has not.
TypeItems == DOMAIN Types
FieldItems(reference, body) ==
    IF ResolveType(Absent, reference) = Absent THEN {} ELSE {f.name : f \in {f \in ToSet(Types[reference].fields) : ~Declares(body, f.name)}}

-----------------------------------------------------------------------------
\* A declaration as it is written, each token with the place a cursor behind it is in. A list is one
\* token, an object shows its fields.
Mark(token, after) == [token |-> token, after |-> after]
FieldMarks(field, key, colon, value) ==
    <<Mark(Token("IDENT", field.key), key), Mark(Token("COLON", ":"), colon)>> \o value
ValueToken(value) == Token(IF value.kind = "String" THEN "STRING" ELSE "IDENT", value.kind)
WithinObject == Place("unsupported", "nested-object")
NestedMarks(field) == FieldMarks(field, WithinObject, WithinObject, <<Mark(ValueToken(field.value), WithinObject)>>)
ValueMarks(value, place) ==
    IF value.kind # "Object" THEN <<Mark(ValueToken(value), place)>>
    ELSE <<Mark(Token("LBRACE", "{"), WithinObject)>> \o FlattenSeq([i \in DOMAIN value.fields |-> NestedMarks(value.fields[i])])
         \o <<Mark(Token("RBRACE", "}"), place)>>
Outside == Place("type-position", Absent)
HeaderTokens(ast) ==
    CASE ast.form = "unit" -> <<Token("UNIT", "unit"), Token("IDENT", ast.name), Token("COLON", ":"), Token("IDENT", ast.type)>>
      [] ast.form = "atom" -> <<Token("IDENT", ast.type), Token("IDENT", ast.name)>>
      [] ast.form = "prime" -> <<Token("PRIME", "prime"), Token("IDENT", ast.name)>>
Inside(ast) == IF ast.form = "prime" THEN Place("unsupported", "unknown-declaration") ELSE Place("field-position", ast.type)
MarkedAs(tokens, place) == [i \in DOMAIN tokens |-> Mark(tokens[i], place)]
BodyMarks(body, inside) ==
    FlattenSeq([i \in DOMAIN body |-> FieldMarks(body[i], inside, Place("value-position", Absent), ValueMarks(body[i].value, inside))])
TypedOut(ast, decorators) ==
    MarkedAs(decorators \o HeaderTokens(ast), Outside) \o <<Mark(Token("LBRACE", "{"), Inside(ast))>>
    \o BodyMarks(ast.body, Inside(ast)) \o <<Mark(Token("RBRACE", "}"), Outside)>>

\* Behind every token the cursor is in the place the grammar says, and the fields offered are those of
\* the type the declaration is checked as. (Behind a decorator only the unit form is recognised.)
Unclosed == [Token("STRING", "") EXCEPT !.closed = FALSE]
IsPlaced(tokens, after) ==
    /\ CompletionContext(tokens) = after
    /\ after.kind = "value-position" => CompletionContext(Append(tokens, Unclosed)) = after
IsCompleted(marks) == \A k \in DOMAIN marks : IsPlaced([i \in 1..k |-> marks[i].token], marks[k].after)
Decorator == <<Token("AT_DECORATOR", "sealed")>>
PlacesAreKnown(ast) == IsCompleted(TypedOut(ast, << >>)) /\ (ast.form = "unit" => IsCompleted(TypedOut(ast, Decorator)))
\* Who takes what is offered has one complaint of the model less, and none more.
Taking(ast, name) == [ast EXCEPT !.body = Append(@, Field(name, Ident("v")))]
OffersHelp(ast) ==
    ast.form # "prime" =>
        /\ \A name \in FieldItems(ast.type, ast.body) :
              ModelDiagnostics(Taking(ast, name)) = ModelDiagnostics(ast) \ {Fault("MISSING_REQUIRED_FIELD", name)}
        /\ \A type \in TypeItems : ResolveType(Absent, type) = type

\* An editor is told what the compiler finds, phase for phase.
ToldLikeCompiled(stages) ==
    /\ (made.graph # Absent) = (stages.aborted = "nowhere")
    /\ stages.aborted \in {"parse", "check", "resolve"} => stages.aborted = made.failed /\ stages.errors = made.errors
    /\ stages.aborted \in {"check", "resolve", "nowhere"} => stages.warnings = made.warnings
    /\ stages.aborted = "unit-form" => made.failed = "thrown"
\* What the editor says of a unit by its model keeps the compiler from emitting it, relations and _meta
\* aside; and of names the compiler has nothing to say that the editor was not told.
IsOwnField(key) == key # "_meta" /\ ~IsRelation(key)
Complaints(told, code) == {f \in told : f.code = code /\ (f.field = Absent \/ IsOwnField(f.field))}
ToldLikeNormalized(told) ==
    /\ \A code \in {"UNKNOWN_TYPE", "UNKNOWN_FIELD"} : (code \in made.errors) = (Complaints(told, code) # {})
    /\ Complaints(told, "MISSING_REQUIRED_FIELD") # {} => "MISSING_REQUIRED_FIELD" \in made.errors
    /\ made.errors = {"MISSING_REQUIRED_FIELD"} => Complaints(told, "MISSING_REQUIRED_FIELD") # {}

EditorAgrees ==
    /\ pass = "parse" /\ given.emit # "corpus" /\ given.ast # Absent => PlacesAreKnown(given.ast) /\ OffersHelp(given.ast)
    /\ pass \in {"done", "failed"} /\ given.emit # "corpus" =>
          /\ ToldLikeCompiled(CompileStageDiagnostics(given.ast, given.dirs))
          /\ made.graph # Absent /\ given.emit = "atom-dir" /\ given.ast.form = "atom" => ToldLikeNormalized(ModelDiagnostics(given.ast))
=============================================================================
