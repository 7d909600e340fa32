-------------------------- MODULE CompilePipeline ---------------------------
(* compiler/src/index.ts: a source file is parsed, checked, resolved against what is installed around *)
(* it, and emitted, either as text with an index and a graph or as the directory of a unit. The first *)
(* phase that finds an error is the last, and then nothing is written.                                *)
EXTENDS Checker, Normalizer, Emitter

CONSTANT Sources  \* sets of what is compiled: a declaration, the directories searched, and the options

VARIABLES
    given,  \* the source
    pass,   \* the phase that comes next, "done" or "failed"
    made    \* what the phases found and wrote

pipelineVars == <<given, pass, made>>

\* discoverInstalledPrimes: by file name, the first directory in which the file can be parsed.
NamesIn(dirs) == UNION {{name \in DOMAIN dirs[i] : dirs[i][name] # Absent} : i \in DOMAIN dirs}
FirstWith(dirs, name) == CHOOSE i \in DOMAIN dirs : /\ name \in DOMAIN dirs[i] /\ dirs[i][name] # Absent
                                                   /\ \A j \in 1..(i - 1) : name \notin DOMAIN dirs[j] \/ dirs[j][name] = Absent
DiscoverInstalledPrimes(dirs) ==
    [name \in NamesIn(dirs) |-> [ast |-> dirs[FirstWith(dirs, name)][name], links |-> << >>, decorators |-> {}]]

Skipped(level) == (IF level >= 2 THEN {"L2:logic"} ELSE {}) \cup (IF level >= 3 THEN {"L3:domain"} ELSE {})
NothingMade == [failed |-> Absent, errors |-> {}, warnings |-> {}, skipped |-> {}, graph |-> Absent, files |-> << >>, unit |-> Absent, findings |-> {}]
Fail(phase, errors) == pass' = "failed" /\ made' = [made EXCEPT !.failed = phase, !.errors = errors]
Rules(findings, level) == {f.rule : f \in {f \in findings : f.level = level}}

PipelineInit == (\E some \in Sources : given \in some) /\ pass = "parse" /\ made = NothingMade

\* parseLegacy throws at a unit of the generic form, which no phase behind it knows.
Parse ==
    /\ pass = "parse" /\ given.emit # "corpus" /\ UNCHANGED given
    /\ CASE given.ast = Absent -> Fail("parse", {"syntax"})
         [] given.ast # Absent /\ given.ast.form = "unit" -> Fail("thrown", {"unit"})
         [] OTHER -> pass' = "check" /\ UNCHANGED made

Checked(findings) ==
    IF Rules(findings, "error") # {}
    THEN /\ pass' = "failed"
         /\ made' = [made EXCEPT !.failed = "check", !.errors = Rules(findings, "error"), !.warnings = Rules(findings, "warn"),
                                 !.skipped = Skipped(given.level)]
    ELSE /\ pass' = "resolve"
         /\ made' = [made EXCEPT !.warnings = Rules(findings, "warn"), !.skipped = Skipped(given.level)]
Check ==
    /\ pass = "check" /\ UNCHANGED given
    /\ Checked(CheckL1(given.ast, DiscoverInstalledPrimes(given.dirs)))

Continued(graph) ==
    IF graph.faults # {} THEN Fail("resolve", graph.faults)
    ELSE pass' = "emit" /\ made' = [made EXCEPT !.graph = graph]
ResolveDependencies ==
    /\ pass = "resolve" /\ UNCHANGED given
    /\ Continued(Resolve(given.ast, DiscoverInstalledPrimes(given.dirs)))

\* A unit directory: only a declaration of the kind form has a model type to be read against.
Written(normalized, compiled) ==
    IF ~compiled.ok THEN Fail("check", compiled.faults)
    ELSE /\ pass' = "done"
         /\ made' = [made EXCEPT !.files = compiled.artifacts, !.unit = compiled.unit]
EmitNormalized(normalized) ==
    IF ~normalized.ok THEN Fail("check", {f.code : f \in normalized.faults})
    ELSE Written(normalized, CompileNormalizedUnit(normalized.value, given.ast, Absent))
Context == [corpus |-> given.corpus, version |-> Else(StringField(given.ast, "version"), "1.0.0"), digest |-> "digest",
            id |-> DeriveV1AtomId(given.ast), resolves |-> Absent]
EmitUnitDirectory ==
    /\ pass = "emit" /\ given.emit = "atom-dir" /\ UNCHANGED given
    /\ IF given.ast.form = "prime" THEN Fail("check", {"form"}) ELSE EmitNormalized(NormalizePrimeV1Atom(given.ast, Context))

\* Text: the declaration, its index entry, its graph and, when asked for, the bundle.
EmitText ==
    /\ pass = "emit" /\ given.emit = "markdown" /\ UNCHANGED given
    /\ pass' = "done"
    /\ made' = [made EXCEPT !.files =
                    "md" :> EmitMarkdown(given.ast) @@ "index" :> EmitIndex(given.ast, made.graph) @@ "graph" :> EmitGraph(made.graph)
                    @@ (IF given.bundle THEN "bundle" :> EmitBundle(given.ast, made.graph) ELSE << >>)]

\* checkL3Cross, over the declarations of a corpus instead of one.
CrossCheck ==
    /\ pass = "parse" /\ given.emit = "corpus" /\ UNCHANGED given
    /\ pass' = "done"
    /\ made' = [made EXCEPT !.findings = CheckL3Cross(given.asts, given.options)]

PipelineNext == CrossCheck \/ Parse \/ Check \/ ResolveDependencies \/ EmitUnitDirectory \/ EmitText
PipelineSpec == PipelineInit /\ [][PipelineNext]_pipelineVars

-----------------------------------------------------------------------------
\* What a declaration depends on, by name: the root's own, or that of the file installed under it.
DepsOf(id, ast, library) ==
    IF id = RootName(ast) THEN ToSet(ExtractDependencies(ast))
    ELSE IF id \in DOMAIN library THEN ToSet(Extracted(library[id])) ELSE {}
AllDeps(nodes, ast, library) == [id \in nodes |-> DepsOf(id, ast, library)]
OrderingPairs(nodes, deps) ==
    {pair \in nodes \X nodes : \E d \in deps[pair[1]] : d.to = pair[2] /\ d.direction = "before" /\ ~Excludes(d.type)}
\* Nodes behind a cycle: on it, or needed by one that is.
Needs(pairs, ids) == {p[2] : p \in {p \in pairs : p[1] \in ids}}
NeedsOf(pairs, id) == FoldLeft(LAMBDA seen, k : seen \cup Needs(pairs, seen), Needs(pairs, {id}), SetToSeq(pairs))
BehindACycle(pairs) == {p[2] : p \in {p \in pairs : p[1] \in NeedsOf(pairs, p[1])}} \cup UNION {NeedsOf(pairs, p[1]) : p \in {p \in pairs : p[1] \in NeedsOf(pairs, p[1])}}

\* A graph that is accepted is closed under what is installed, has every node once in its load order,
\* behind what it must be loaded after (unless that is behind a cycle the root does not see), holds no
\* two nodes of which one excludes the other, and no node in two versions.
Ordered(loadOrder, root, pairs) ==
    /\ \A i, j \in DOMAIN loadOrder : i < j /\ <<loadOrder[i], loadOrder[j]>> \in pairs => loadOrder[j] \in BehindACycle(pairs)
    /\ \A id \in NeedsOf(pairs, root) \cup {root} : id \notin NeedsOf(pairs, id)
GraphIsSound(graph, root, installed, nodes, deps) ==
    /\ \A id \in nodes : \A d \in deps[id] :
          /\ d.to \in installed => d.to \in nodes /\ ~Excludes(d.type)
          /\ Excludes(d.type) => d.to \notin nodes
    /\ Len(graph.loadOrder) = Cardinality(nodes) /\ ToSet(graph.loadOrder) = nodes
    /\ Ordered(graph.loadOrder, root, OrderingPairs(nodes, deps))
    /\ \A a, b \in nodes : \A d \in deps[a], e \in deps[b] :
          d.to = e.to /\ d.to \in nodes /\ d.version # Absent /\ e.version # Absent => d.version = e.version

\* What the text of a compilation says of its dependencies is the graph, the declaration itself aside.
\* (The emitters know the root by its name as text, the resolver only by a name in quotes.)
TextAgrees(files, graph, ast) ==
    (Value(ast.body, "name").kind # "Ident" /\ RootName(ast) # "")
    => /\ ToSet(files["index"].dependencies) = ToSet(graph.nodes) \ {RootName(ast)}
       /\ files["index"].links = {[type |-> d.type, to |-> d.to] : d \in ToSet(ExtractDependencies(ast))}
       /\ "bundle" \in DOMAIN files =>
             /\ {row[2] : row \in {r \in ToSet(files["bundle"]) : r[1] = "dep"}} = ToSet(graph.nodes) \ {RootName(ast)}
             /\ files["bundle"][1][2] = Len(files["index"].dependencies)

\* A unit that is emitted has all that was written: every field is in it with the type of its model, or
\* is a relation with its edges, or is the protocol's; and what its type requires is there.
UnitIsComplete(unit, ast) ==
    /\ \A i \in DOMAIN ast.body :
          LET f == ast.body[i]
          IN \/ f.key = "_meta" /\ unit.meta = f.value
             \/ IsRelation(f.key) /\ \A raw \in Targets(f.value) \ Nobody : [relation |-> Canonical(f.key), to |-> raw] \in unit.relations
             \/ f.key \in DOMAIN unit.fields /\ unit.fields[f.key] = f.value
    /\ \A f \in ToSet(Types[unit.type].fields) : f.required => f.name \in DOMAIN unit.fields
    /\ \A key \in DOMAIN unit.fields : FieldType(Types[unit.type], key) \notin ScalarTypes \cup {"unknown"}
                                        => unit.fields[key].path[1] \in DOMAIN Types

\* Where the model names sections, each layer begins with the one before it; the last shows every field
\* the sections do not know, and no other layer shows one that belongs to the last.
LayersAreComplete(ast, layers) ==
    /\ \A k \in 2..Len(layers) : IsPrefix(layers[k - 1], layers[k])
    /\ \A i \in DOMAIN ast.body : ast.body[i].key \notin ProcessedKeys =>
          \E row \in ToSet(Last(layers)) : row = <<"unprocessed-fields", ast.body[i].key, 0>>
    /\ \A row \in ToSet(layers[Len(layers) - 1]) : row[1] = "unprocessed-fields" => row[2] \notin CoreExcludedKeys

\* What is found in a corpus does not depend on the order of its declarations, where their names tell
\* them apart, and one declaration more only finds links of its own to nobody.
Ruled(findings, rule) == {f \in findings : f.rule = rule}
Rotated(asts) == Tail(asts) \o <<Head(asts)>>
IsCheckedLike(found, others, asts, findings) ==
    IF others = Front(asts) THEN \A f \in Ruled(findings, "C2") \ found : f.about[1] = NameOf(Last(asts))
    ELSE IsInjective([i \in DOMAIN asts |-> NameOf(asts[i])]) => found = findings
CorpusIsChecked(asts, options, findings) ==
    asts # << >> =>
        \A others \in {Reverse(asts), Rotated(asts), Front(asts)} :
            IsCheckedLike(CheckL3Cross(others, options), others, asts, findings)

CompilationIsSound ==
    /\ pass = "done" /\ given.emit = "corpus" => CorpusIsChecked(given.asts, given.options, made.findings)
    /\ (pass = "failed") = (made.errors # {})
    /\ pass # "done" => made.files = << >>
    /\ made.graph # Absent =>
          /\ GraphIsSound(made.graph, RootName(given.ast), NamesIn(given.dirs), ToSet(made.graph.nodes),
                          AllDeps(ToSet(made.graph.nodes), given.ast, DiscoverInstalledPrimes(given.dirs)))
          /\ pass = "done" /\ given.emit = "markdown" => TextAgrees(made.files, made.graph, given.ast)
    /\ made.unit # Absent =>
          /\ UnitIsComplete(made.unit, given.ast)
          /\ UsesSectionVocabulary(given.ast) =>
                LayersAreComplete(given.ast, ChunkNamedLayers(given.ast, [i \in DOMAIN Projections |-> Projections[i].name]))
=============================================================================
