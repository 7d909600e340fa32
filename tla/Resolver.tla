------------------------------ MODULE Resolver ------------------------------
(* compiler/src/relation-semantics.ts and resolver.ts: what the relations of a model mean, and the   *)
(* graph of what a declaration depends on, with its load order and what is wrong with it.             *)
EXTENDS Declarations, FiniteSets

CONSTANT Definitions  \* the relations of the model, in order: names, selection, loadOrder, parentward

-----------------------------------------------------------------------------
\* Relations. A later definition of a spelling wins; an unknown verb has no meaning and keeps its name.
NoDefinition == [names |-> << >>, selection |-> "none", loadOrder |-> "none", parentward |-> FALSE]
Definition(verb) ==
    LET at == SelectLastInSeq(Definitions, LAMBDA d : Contains(d.names, verb))
    IN IF at = 0 THEN NoDefinition ELSE Definitions[at]
IsRelation(verb) == Definition(verb) # NoDefinition
Canonical(verb) == IF IsRelation(verb) THEN Head(Definition(verb).names) ELSE verb
Direction(verb) == IF Definition(verb).loadOrder \in {"before", "after"} THEN Definition(verb).loadOrder ELSE "any"
Excludes(verb) == Definition(verb).selection = "exclude"
Required(verb) == Definition(verb).selection = "closure"
Expands(verb) == Definition(verb).selection = "expand"
Parentward(verb) == Definition(verb).parentward

\* use[] has no verb: it means the closure relation, if there is exactly one.
Closures == SelectSeq(Definitions, LAMBDA d : d.selection = "closure")
ClosureRelation == IF Len(Closures) = 1 THEN Head(Closures[1].names) ELSE Absent

-----------------------------------------------------------------------------
\* Dependencies of a declaration, in order: use[] first, then links[].
Dependency(to, verb, required, direction, version) ==
    [to |-> to, type |-> Canonical(verb), required |-> required, direction |-> direction, version |-> version]
Meant(to, verb, version) == Dependency(to, verb, Required(verb), Direction(verb), version)

UnresolvableUse(ast) == Value(ast.body, "use").kind = "Array" /\ ClosureRelation = Absent
UseDependencies(ast) ==
    IF ClosureRelation = Absent THEN << >>
    ELSE FlattenSeq([i \in DOMAIN Items(ast, "use") |->
             LET item == Items(ast, "use")[i]
             IN CASE item.kind = "Reference" -> <<Meant(item.path[1], ClosureRelation, IF Len(item.path) > 1 THEN item.path[2] ELSE Absent)>>
                  [] item.kind = "String" -> <<Meant(item.text, ClosureRelation, Absent)>>
                  [] OTHER -> << >>])

\* A long link may say that it is required, and its direction, against its relation.
LongLink(fields) ==
    LET verb == Else(WordOf(Value(fields, "type")), "")
        required == Value(fields, "required")
        direction == Value(fields, "direction")
    IN Dependency(Else(TextOf(Value(fields, "to")), ""), verb,
                  IF required.kind = "Boolean" THEN required.value ELSE Required(verb),
                  IF direction.kind = "Ident" /\ direction.text \in {"before", "after", "during", "any"}
                  THEN direction.text ELSE Direction(verb),
                  Absent)
LinkDependencies(ast) ==
    FlattenSeq([i \in DOMAIN Items(ast, "links") |->
        LET item == Items(ast, "links")[i]
        IN CASE item.kind = "LinkShorthand" -> <<Meant(item.target, item.verb, Absent)>>
             [] item.kind = "Object" /\ Declares(item.fields, "type") /\ Declares(item.fields, "to") -> <<LongLink(item.fields)>>
             [] OTHER -> << >>])
ExtractDependencies(ast) == UseDependencies(ast) \o LinkDependencies(ast)

\* What an installed prime depends on: its own declaration, or the links it is registered with.
Extracted(installed) ==
    IF installed.ast # Absent THEN ExtractDependencies(installed.ast)
    ELSE [i \in DOMAIN installed.links |-> Meant(installed.links[i].to, installed.links[i].type, Absent)]
Faulty(installed) == IF installed.ast # Absent /\ UnresolvableUse(installed.ast) THEN {"unresolvable use"} ELSE {}

-----------------------------------------------------------------------------
\* The walk is breadth first. Every dependency is an edge; one that is installed is a node, and the
\* walk goes on from it the first time, unless the relation excludes it.
RootName(ast) == Else(StringField(ast, "name"), ast.name)
StartAt(ast) ==
    [queue |-> <<[name |-> RootName(ast), deps |-> ExtractDependencies(ast)]>>, visited |-> {RootName(ast)},
     nodes |-> <<RootName(ast)>>, edges |-> << >>, excluded |-> {}, versions |-> << >>, before |-> << >>,
     faults |-> IF UnresolvableUse(ast) THEN {"unresolvable use"} ELSE {}]

Disagrees(versions, dep) == dep.to \in DOMAIN versions /\ versions[dep.to] # dep.version
NoteVersion(walk, dep) ==
    IF dep.version = Absent THEN walk
    ELSE IF Disagrees(walk.versions, dep) THEN [walk EXCEPT !.faults = @ \cup {"version"}]
    ELSE [walk EXCEPT !.versions = (dep.to :> dep.version) @@ @]
NoteOrder(walk, from, dep) ==
    IF dep.direction = "before" /\ ~Excludes(dep.type) THEN [walk EXCEPT !.before = Append(@, <<from, dep.to>>)] ELSE walk
Enter(walk, dep, installed) ==
    IF dep.to \in walk.visited \/ Excludes(dep.type) THEN walk
    ELSE [walk EXCEPT !.visited = @ \cup {dep.to}, !.faults = @ \cup Faulty(installed),
                      !.queue = Append(@, [name |-> dep.to, deps |-> Extracted(installed)])]
NoteEdge(walk, from, dep) ==
    [walk EXCEPT !.edges = Append(@, [from |-> from, to |-> dep.to, type |-> dep.type, required |-> dep.required, direction |-> dep.direction]),
                 !.excluded = IF Excludes(dep.type) THEN @ \cup {{from, dep.to}} ELSE @]
NoteNode(walk, id) == IF Contains(walk.nodes, id) THEN walk ELSE [walk EXCEPT !.nodes = Append(@, id)]
Follow(walk, from, dep, library) ==
    IF dep.to \notin DOMAIN library THEN NoteEdge(walk, from, dep)
    ELSE Enter(NoteOrder(NoteVersion(NoteNode(NoteEdge(walk, from, dep), dep.to), dep), from, dep), dep, library[dep.to])
VisitNext(walk, library) ==
    IF walk.queue = << >> THEN walk
    ELSE FoldLeft(LAMBDA w, dep : Follow(w, Head(walk.queue).name, dep, library),
                  [walk EXCEPT !.queue = Tail(@)], Head(walk.queue).deps)
Walk(ast, library) ==
    FoldLeft(LAMBDA w, k : VisitNext(w, library), StartAt(ast), [k \in 0..Cardinality(DOMAIN library) |-> k])

-----------------------------------------------------------------------------
\* detectCycle: a search from the root over what must be loaded before. It sees what it reaches.
Onward(before, from) == {pair[2] : pair \in {p \in ToSet(before) : p[1] \in from}}
Beyond(before, from) == FoldLeft(LAMBDA seen, k : seen \cup Onward(before, seen), Onward(before, from), before)
CycleFrom(before, root) == \E u \in Beyond(before, {root}) \cup {root} : u \in Beyond(before, {u})

\* topologicalSort: dependants first, in the order they get free; each pair counts as often as it is there.
Dependants(before, id) == Len(SelectSeq(before, LAMBDA p : p[2] = id))
Release(sort, before, id) ==
    FoldLeft(LAMBDA s, to : [s EXCEPT !.degree[to] = @ - 1, !.free = IF s.degree[to] = 1 THEN Append(@, to) ELSE @],
             [sort EXCEPT !.free = Tail(@), !.sorted = Append(@, id)],
             [i \in DOMAIN SelectSeq(before, LAMBDA p : p[1] = id) |-> SelectSeq(before, LAMBDA p : p[1] = id)[i][2]])
TopologicalSort(nodes, before) ==
    FoldLeft(LAMBDA s, k : IF s.free = << >> THEN s ELSE Release(s, before, Head(s.free)),
             [degree |-> [id \in ToSet(nodes) |-> Dependants(before, id)],
              free |-> SelectSeq(nodes, LAMBDA id : Dependants(before, id) = 0), sorted |-> << >>],
             nodes).sorted

\* Mutated: the order of the sort, dependants first.
LoadOrderForward(nodes, before, cyclic) == IF cyclic THEN nodes ELSE TopologicalSort(nodes, before)
\* What the sort leaves out, the nodes behind a cycle, is loaded last.
LoadOrder(nodes, before, cyclic) ==
    IF cyclic THEN nodes
    ELSE LET sorted == Reverse(TopologicalSort(nodes, before))
         IN sorted \o SelectSeq(nodes, LAMBDA id : ~Contains(sorted, id))

Conflicts(walk) == {pair \in walk.excluded : pair \subseteq ToSet(walk.nodes)}
Resolved(walk, cyclic) ==
    [nodes |-> walk.nodes, edges |-> walk.edges, loadOrder |-> LoadOrder(walk.nodes, walk.before, cyclic),
     faults |-> walk.faults \cup (IF cyclic THEN {"cycle"} ELSE {}) \cup (IF Conflicts(walk) # {} THEN {"conflict"} ELSE {})]
ResolveWalk(walk, root) == Resolved(walk, CycleFrom(walk.before, root))
Resolve(ast, library) == ResolveWalk(Walk(ast, library), RootName(ast))
=============================================================================
