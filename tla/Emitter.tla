------------------------------ MODULE Emitter -------------------------------
(* compiler/src/chunker.ts, generic-unit.ts and emitter.ts: what a checked declaration is compiled to: *)
(* its layers, its projections, its bundle, its entry in the index and its part of the graph.           *)
EXTENDS Declarations, FiniteSets

CONSTANTS
    Projections,   \* the projections of the model, in order
    RelationKeys,  \* every spelling of its relations, in order
    Unsafe         \* names that cannot be file names

-----------------------------------------------------------------------------
\* chunker.ts: the layers of a declaration, each the one before and the sections the model names for
\* it. A layer is the sequence of what it shows: <<section, field, item>>, item 0 for a heading or a
\* whole field.

\* buildChunkProjectionRules: types belong to groups, a layer has sections for a group. What is
\* declared later wins.
DeriveKind(ast) ==
    IF ast.form = "prime" /\ NonEmpty(WordOf(Value(ast.body, "kind"))) THEN WordOf(Value(ast.body, "kind"))
    ELSE Else(ast.type, "knowledge")
AllGroups == FlattenSeq([i \in DOMAIN Projections |-> Projections[i].groups])
DefaultGroup ==
    LET at == SelectLastInSeq(Projections, LAMBDA p : p.default # Absent) IN IF at = 0 THEN "" ELSE Projections[at].default
GroupOf(kind) ==
    LET at == SelectLastInSeq(AllGroups, LAMBDA g : kind \in g.types) IN IF at = 0 THEN DefaultGroup ELSE AllGroups[at].name
RulesFor(layer, group) ==
    FlattenSeq([i \in DOMAIN Projections |->
        IF Projections[i].name = layer THEN SelectSeq(Projections[i].rules, LAMBDA r : r.group = group) ELSE << >>])
SectionsFor(layer, kind) == IF RulesFor(layer, GroupOf(kind)) = << >> THEN << >> ELSE Last(RulesFor(layer, GroupOf(kind))).sections

EngineSections ==
    {"facts", "definitions", "categories", "checks", "steps", "signature", "predicate", "effect", "includes", "severity_combination",
     "constraint-values", "sources", "examples", "relations", "notes", "rationale", "provenance", "full-categories", "unprocessed-fields"}
UsesSectionVocabulary(ast) ==
    \E i \in DOMAIN Projections : ToSet(SectionsFor(Projections[i].name, DeriveKind(ast))) \cap EngineSections # {}

-----------------------------------------------------------------------------
\* Sections. Most have a heading when their list has items, and show the items of a certain make.
Says(fields, keys) == \E key \in keys : NonEmpty(WordOf(Value(fields, key)))
Tells(item, keys) == item.kind = "Object" /\ Says(item.fields, keys)
Word(section, ast, key) == IF Says(ast.body, {key}) THEN <<<<section, key, 0>>>> ELSE << >>
Rows(section, ast, key, Shows(_)) ==
    LET items == Items(ast, key)
        shown == SelectSeq([i \in DOMAIN items |-> i], LAMBDA i : Shows(items[i]))
    IN [i \in DOMAIN shown |-> <<section, key, shown[i]>>]
Headed(section, ast, key, Shows(_)) ==
    IF Items(ast, key) = << >> THEN << >> ELSE <<<<section, key, 0>>>> \o Rows(section, ast, key, Shows)
AnyOf(section, ast, key, Shows(_)) ==
    LET rows == Rows(section, ast, key, Shows) IN IF rows = << >> THEN << >> ELSE <<<<section, key, 0>>>> \o rows
IsText(item) == item.kind = "String"
IsWord(item) == item.kind \in {"String", "Ident"}

AppendFacts(ast) == Headed("facts", ast, "facts", LAMBDA i : Tells(i, {"statement"}))
AppendDefinitions(ast) == Headed("definitions", ast, "definitions", LAMBDA i : Tells(i, {"term"}))
AppendCategories(ast) ==
    SelectSeq(Headed("categories", ast, "categories", LAMBDA i : IsText(i) \/ Tells(i, {"name"})), LAMBDA row : row[3] <= 3)
BuildCategoriesFull(ast) ==
    AnyOf("full-categories", ast, "categories",
          LAMBDA i : Tells(i, {"name"}) \/ (i.kind = "Object" /\ OfKind(Items([body |-> i.fields], "items"), "String") # << >>))
AppendChecks(ast) ==
    LET checks == Headed("checks", ast, "checks", LAMBDA i : i.kind \in {"Object", "String"})
    IN IF checks = << >> THEN << >> ELSE checks \o AnyOf("checks", ast, "thresholds", LAMBDA i : i.kind = "Threshold")
AppendSteps(ast) ==
    LET steps == AnyOf("steps", ast, "steps", LAMBDA i : i.kind = "Step")
    IN IF steps = << >> THEN << >> ELSE steps \o Rows("steps", ast, "warnings", LAMBDA i : i.kind = "Arrow")
BuildSignature(ast) ==
    IF Says(ast.body, {"signature"}) THEN Word("signature", ast, "signature")
    ELSE SelectSeq(<<<<"signature", "input", 0>>, <<"signature", "output", 0>>>>, LAMBDA row : Declares(ast.body, row[2]))
AppendIncludes(ast) ==
    LET included == Headed("includes", ast, "includes", LAMBDA i : IsWord(i) \/ i.kind = "Reference")
    IN IF included = << >> THEN << >> ELSE included \o Word("includes", ast, "orchestration")
AppendConstraintValues(ast) == AnyOf("constraint-values", ast, "values", IsText)
AppendSources(ast) ==
    (IF Declares(ast.body, "source") \/ Declares(ast.body, "sources") THEN <<<<"sources", "sources", 0>>>> ELSE << >>)
    \o (IF Tells(Value(ast.body, "source"), {"url", "file", "repo"}) THEN <<<<"sources", "source", 0>>>> ELSE << >>)
    \o Rows("sources", ast, "sources", LAMBDA i : Tells(i, {"url", "file"})) \o Word("sources", ast, "attributed_to")
AppendExamples(ast) ==
    LET examples == Headed("examples", ast, "examples", LAMBDA i : IsText(i) \/ Tells(i, {"title", "name"}))
    IN IF examples = << >> THEN << >> ELSE examples \o Rows("examples", ast, "applies_to", IsText)
AppendRelations(ast) ==
    LET told(key) == \/ Says(ast.body, {key})
                     \/ SelectSeq(Items(ast, key), LAMBDA i : IsWord(i) /\ i.text # "") # << >>
        keys == SelectSeq(RelationKeys, told)
    IN [i \in DOMAIN keys |-> <<"relations", keys[i], 0>>]
AppendProvenance(ast) ==
    IF Tells(Value(ast.body, "provenance"), {"extracted_by", "extracted_at"}) THEN <<<<"provenance", "provenance", 0>>>> ELSE << >>

\* The rest. A layer before the last leaves out what belongs to the last; the last one shows it, and
\* everything again unless the type is of the default group.
ProcessedKeys ==
    {"id", "version", "name", "kind", "tags", "description", "domain", "claim", "statement", "facts", "definitions", "categories",
     "checks", "steps", "signature", "predicate", "effect", "parameters", "includes", "severity_combination",
     "sources", "examples", "related", "notes", "rationale", "provenance"}
CoreExcludedKeys ==
    {"sources", "source", "examples", "applies_to", "notes", "rationale", "provenance", "lifecycle", "attributed_to"} \cup ToSet(RelationKeys)
Unprocessed(ast, kept) ==
    LET fields == SelectSeq(ast.body, LAMBDA f : f.key \in kept \ ProcessedKeys)
    IN [i \in DOMAIN fields |-> <<"unprocessed-fields", fields[i].key, 0>>]
KeysOf(ast) == {field.key : field \in ToSet(ast.body)}
AppendCoreUnprocessedFields(ast) == Unprocessed(ast, KeysOf(ast) \ CoreExcludedKeys)
AppendUnprocessedFields(ast) ==
    Unprocessed(ast, IF GroupOf(DeriveKind(ast)) = DefaultGroup THEN CoreExcludedKeys ELSE KeysOf(ast))

AppendSection(section, ast, last) ==
    CASE section = "facts" -> AppendFacts(ast)
      [] section = "definitions" -> AppendDefinitions(ast)
      [] section = "categories" -> AppendCategories(ast)
      [] section = "full-categories" -> BuildCategoriesFull(ast)
      [] section = "checks" -> AppendChecks(ast)
      [] section = "steps" -> AppendSteps(ast)
      [] section = "signature" -> BuildSignature(ast)
      [] section = "includes" -> AppendIncludes(ast)
      [] section = "constraint-values" -> AppendConstraintValues(ast)
      [] section = "sources" -> AppendSources(ast)
      [] section = "examples" -> AppendExamples(ast)
      [] section = "relations" -> AppendRelations(ast)
      [] section = "provenance" -> AppendProvenance(ast)
      [] section \in {"predicate", "effect", "severity_combination", "notes", "rationale"} -> Word(section, ast, section)
      [] section = "unprocessed-fields" -> IF last THEN AppendUnprocessedFields(ast) ELSE AppendCoreUnprocessedFields(ast)
      [] OTHER -> << >>

-----------------------------------------------------------------------------
\* The base layer: name, description, tags, domain, and one line of what the declaration says, the first
\* of the strategies of its kind, then of every kind, that finds one.
RunOneLinerStrategy(ast, strategy) ==
    CASE strategy.verb = "field" -> Says(ast.body, {strategy.field})
      [] strategy.verb = "array-object-field" -> \E i \in ToSet(Items(ast, strategy.field)) : Tells(i, {strategy.key})
      [] strategy.verb = "step-array" -> \E i \in ToSet(OfKind(Items(ast, strategy.field), "Step")) : OfKind(i.body, "String") # << >>
      [] OTHER -> FALSE
LastDeclared(Test(_), Of(_)) == LET at == SelectLastInSeq(Projections, Test) IN IF at = 0 THEN << >> ELSE Of(Projections[at])
Strategies(kind) ==
    LastDeclared(LAMBDA p : kind \in DOMAIN p.byType, LAMBDA p : p.byType[kind]) \o LastDeclared(LAMBDA p : p.fallback # << >>, LAMBDA p : p.fallback)
OneLiner(ast, kind) ==
    LET at == SelectInSeq(Strategies(kind), LAMBDA s : RunOneLinerStrategy(ast, s))
    IN IF at = 0 THEN << >> ELSE <<<<"one-liner", Strategies(kind)[at].field, 0>>>>
BuildSummary(ast, kind) ==
    <<<<"summary", "name", 0>>>> \o Word("summary", ast, "description")
    \o SelectSeq(OneLiner(ast, kind),
                 LAMBDA row : ~(Says(ast.body, {"description"}) /\ WordOf(Value(ast.body, row[2])) = WordOf(Value(ast.body, "description"))))
    \o AnyOf("summary", ast, "tags", IsText) \o Word("summary", ast, "domain")

AddLayer(layers, ast, kind, order, k) ==
    Append(layers, Last(layers) \o FlattenSeq([i \in DOMAIN SectionsFor(order[k], kind) |->
                                                  AppendSection(SectionsFor(order[k], kind)[i], ast, k = Len(order))]))
ChunkNamedLayers(ast, order) ==
    IF order = << >> THEN << >>
    ELSE FoldLeft(LAMBDA layers, k : AddLayer(layers, ast, DeriveKind(ast), order, k), <<BuildSummary(ast, DeriveKind(ast))>>,
                  [i \in 1..(Len(order) - 1) |-> i + 1])

-----------------------------------------------------------------------------
\* generic-unit.ts: a normalised unit in the projections of its model. Where the model names sections for
\* its type every projection is a layer; otherwise it shows the fields its selectors match. Names and
\* selectors are paths: <<"meta", "id">>, <<"title">>, <<"*">>.

MetaFields ==
    {"id", "version", "digest", "corpus", "typeRef", "implements", "citations", "policyLabels", "lifecycle", "visibility"}

\* What was requested, or all the model has: each known, once, and fit to name a file.
Requested(names) == IF names = Absent THEN [i \in DOMAIN Projections |-> Projections[i].name] ELSE names
ProjectionOf(name) == Projections[SelectInSeq(Projections, LAMBDA p : p.name = name)]
IsProjection(name) == SelectInSeq(Projections, LAMBDA p : p.name = name) # 0
SelectionFaults(names) ==
    {"DUPLICATE_PROJECTION" : i \in {i \in DOMAIN names : \E j \in 1..(i - 1) : names[j] = names[i]}}
    \cup {"UNKNOWN_PROJECTION" : i \in {i \in DOMAIN names : ~IsProjection(names[i])}}
    \cup {"UNSAFE_PROJECTION_NAME" : i \in {i \in DOMAIN names : IsProjection(names[i]) /\ names[i] \in Unsafe}}
    \cup (IF names = << >> THEN {"NO_PROJECTIONS"} ELSE {})

\* A selector ends in a star or is the path; a plain field is also selected under "fields" or "meta".
Match(selector, path) ==
    \/ selector \in {path, <<"meta">> \o path, <<"fields">> \o path}
    \/ selector # << >> /\ Last(selector) = "*" /\ IsPrefix(Front(selector), path)
RuleApplies(rule, projection, type) ==
    \/ rule.type \in {Absent, "*", type}
    \/ \E i \in DOMAIN projection.groups : projection.groups[i].name = rule.group /\ type \in projection.groups[i].types
Selectors(projection, type) ==
    projection.include \cup UNION {r.include : r \in {r \in ToSet(projection.rules) : RuleApplies(r, projection, type)}}
Exclusions(projection, type) ==
    projection.exclude \cup UNION {r.exclude : r \in {r \in ToSet(projection.rules) : RuleApplies(r, projection, type)}}
Matched(selectors, path) == \E s \in selectors : Match(s, path)
RenderSelectedFields(unit, projection) ==
    LET selectors == Selectors(projection, unit.type)
        excluded == Exclusions(projection, unit.type)
        visible == {key \in DOMAIN unit.fields : (selectors = {} \/ Matched(selectors, <<key>>)) /\ ~Matched(excluded, <<key>>)}
        meta == {key \in MetaFields : Matched(selectors, <<"meta", key>>) /\ ~Matched(excluded, <<"meta", key>>)}
    IN [meta |-> meta, fields |-> [key \in visible |-> unit.fields[key]]]

Layer(ast, name) ==
    LET order == [i \in DOMAIN Projections |-> Projections[i].name]
        at == SelectLastInSeq(order, LAMBDA n : n = name)
    IN ChunkNamedLayers(ast, order)[at]
Rendered(unit, ast, name) ==
    IF UsesSectionVocabulary(ast) THEN Layer(ast, name) ELSE RenderSelectedFields(unit, ProjectionOf(name))

\* The digest of a unit covers what it is and what is rendered of it, not where it was read.
ContentDigest(unit, artifacts) == <<unit, artifacts>>
CompiledUnit(unit, artifacts) == [ok |-> TRUE, unit |-> unit, artifacts |-> artifacts, digest |-> ContentDigest(unit, artifacts)]
CompileNormalizedUnit(unit, ast, requested) ==
    IF SelectionFaults(Requested(requested)) # {} THEN [ok |-> FALSE, faults |-> SelectionFaults(Requested(requested))]
    ELSE CompiledUnit(unit, [name \in ToSet(Requested(requested)) |-> Rendered(unit, ast, name)])

-----------------------------------------------------------------------------
\* emitter.ts: what a compiled declaration, its bundle, its index entry and its graph say, as sequences
\* of <<what, of whom>>; layout and wording are left out.

Spoken(ast, key) == Else(WordOf(Value(ast.body, key)), "")
NameIn(ast) == IF Spoken(ast, "name") # "" THEN Spoken(ast, "name") ELSE ast.name
BaseClass(ast) == IF ast.form = "prime" THEN Else(ast.type, "unknown") ELSE "unknown"

\* Parameters, required names and used names: what of a list has a text.
Parameters(ast, key) ==
    SelectSeq(Items(ast, key), LAMBDA i : i.kind = "ParameterShorthand" \/ (i.kind \in {"String", "Ident"} /\ i.text # ""))
GetRequire(ast) == SelectSeq(Items(ast, "require"), LAMBDA i : i.kind = "String" /\ i.text # "")
GetUseNames(ast) == SelectSeq(Items(ast, "use"), LAMBDA i : i.kind = "Reference" \/ (i.kind = "String" /\ i.text # ""))

-----------------------------------------------------------------------------
\* The body of a declaration: a section per field, in this order, and the items of it that say enough.
Holds(item, key) == item.kind = "Object" /\ NonEmpty(TextOf(Value(item.fields, key)))
Shows(section, item) ==
    CASE section = "steps" -> item.kind = "Step"
      [] section \in {"warnings", "branches"} -> item.kind = "Arrow"
      [] section = "checks" -> item.kind \in {"Object", "String"}
      [] section = "thresholds" -> item.kind = "Threshold"
      [] section = "definitions" -> Holds(item, "term")
      [] section = "categories" -> item.kind = "String" \/ Holds(item, "name")
      [] section = "facts" -> Holds(item, "statement")
      [] section = "relationships" -> Holds(item, "from") /\ Holds(item, "to")
Section(section, ast) ==
    LET items == Items(ast, section)
        shown == SelectSeq([i \in DOMAIN items |-> i], LAMBDA i : Shows(section, items[i]))
    IN [i \in DOMAIN shown |-> <<section, shown[i]>>]
Loop(ast) == IF Value(ast.body, "loop").kind = "Object" THEN <<<<"loop", 0>>>> ELSE << >>
Lists(ast) ==
    FlattenSeq([i \in 1..8 |->
        Section(<<"warnings", "branches", "checks", "thresholds", "definitions", "categories", "facts", "relationships">>[i], ast)])
Whole(what, items) == IF items = << >> THEN << >> ELSE <<<<what, 0>>>>

EmitMarkdown(ast) ==
    <<<<"prime", NameIn(ast)>>>> \o Whole("in", Parameters(ast, "input")) \o Whole("out", Parameters(ast, "output"))
    \o Whole("require", GetRequire(ast)) \o Whole("use", GetUseNames(ast)) \o <<<<"title", 0>>>>
    \o Section("steps", ast) \o Loop(ast) \o Lists(ast)

-----------------------------------------------------------------------------
\* emitBundle: what is loaded before, without the declaration itself, then the declaration. The root is
\* recognised by its name.
EmitBundle(ast, graph) ==
    LET others == SelectSeq(graph.loadOrder, LAMBDA id : id # NameIn(ast) /\ Contains(graph.nodes, id))
    IN <<<<"dependencies", Len(graph.nodes) - 1>>>> \o [i \in DOMAIN others |-> <<"dep", others[i]>>]
       \o <<<<"main", NameIn(ast)>>>> \o Tail(EmitMarkdown(ast))

EmitIndex(ast, graph) ==
    [name |-> NameIn(ast), type |-> BaseClass(ast), takes |-> Len(Parameters(ast, "input")), gives |-> Len(Parameters(ast, "output")),
     dependencies |-> SelectSeq(graph.nodes, LAMBDA id : id # NameIn(ast)),
     links |-> {[type |-> e.type, to |-> e.to] : e \in {e \in ToSet(graph.edges) : e.from = NameIn(ast)}}]

EmitGraph(graph) == [nodes |-> graph.nodes, edges |-> graph.edges]
=============================================================================
