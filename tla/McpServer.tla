------------------------------ MODULE McpServer ------------------------------
(* The MCP server: mcp-server-core/src. A process is started on a bundle, builds a graph of it, and  *)
(* answers aoe_query, aoe_plan and aoe_resource; a client keeps the resource names it was given and  *)
(* may present them to a later process, which another bundle, tenant or principal may have.          *)
EXTENDS Projection

CONSTANTS
    Catalog,    \* projection definitions of the model; a level may have another name than its definition
    Primary,    \* the projection of the first profile
    Deployed,   \* bundles a process may be started on
    Tenants,
    Principals, \* principal -> the visibilities it is admitted to
    Queries,    \* arguments of aoe_query: [scope, id, kind, level, limit, signal]
    MaxStarts

VARIABLES
    process,  \* the running process: [bundle, tenant, principal, graph], or Unset
    names,    \* results of the last answer that had any: [uri, shows, level]
    answer,   \* the last answer
    starts

mcpVars == <<process, names, answer, starts>>

-----------------------------------------------------------------------------
\* model-lock.ts: the model that is loaded is the one the bundle was compiled against. A bundle without
\* a lock is served unverified; a lock of several models does not bind the manifest's schema digest.
LockedParts == {"version", "protocol", "schema", "files", "manifest"}
LockHolds(bundle) ==
    LET model == bundle.model
        lock == bundle.lock
    IN lock # Unset =>
       /\ lock.parses
       /\ model.name \in DOMAIN lock.models
       /\ \A part \in LockedParts : lock.models[model.name][part] = model[part]
       /\ bundle.declares # Unset => bundle.declares.models[model.name] = model.version
       /\ bundle.declares # Unset /\ Cardinality(DOMAIN lock.models) = 1 => bundle.declares.schema = model.schema

\* corpus-graph.ts: a unit whose metadata cannot be read is left out, and so is an edge to a unit that is
\* not in the graph (each leaves a diagnostic).
GraphOf(bundle) ==
    LET readable == SelectSeq(bundle.units, LAMBDA u : u.readable)
        ids == {readable[i].id : i \in DOMAIN readable}
    IN [units |-> [i \in DOMAIN readable |->
                      [readable[i] EXCEPT !.relations = SelectSeq(@, LAMBDA edge : edge.to \in ids)]]]

\* index.ts: a release is loaded whole or not at all (CorpusRegistry!LoadError), then its model.
Loads(bundle) == bundle.intact /\ LockHolds(bundle)

Start(bundle, tenant, principal) ==
    /\ process = Unset /\ starts < MaxStarts
    /\ Loads(bundle)
    /\ process' = [bundle |-> bundle, tenant |-> tenant, principal |-> principal, graph |-> GraphOf(bundle)]
    /\ starts' = starts + 1 /\ answer' = Unset
    /\ UNCHANGED names

Stop == process # Unset /\ process' = Unset /\ answer' = Unset /\ UNCHANGED <<names, starts>>

-----------------------------------------------------------------------------
\* serve.ts. Everything is read through the admitted graph: what the principal may see.
Admitted(p) == SelectSeq(p.graph.units, LAMBDA u : u.visibility \in Principals[p.principal])
UnitOf(units, id) == SelectInSeq(units, LAMBDA u : u.id = id)

ScopeOf(p) == [tenant |-> p.tenant, corpus |-> p.bundle.corpus, release |-> p.bundle.release]
\* levelFor: a level is looked for by the name of its definition, in whatever profile.
LevelNamed(ref) == {d \in Catalog : d.name = ref}

\* project: the richest level that applies, no richer than the one asked for, of the same profile. What
\* leaves is the file, its text or its name, which stand for the same text; the text is kept here.
Delivered(p, unit, ref, transport) ==
    IF LevelNamed(ref) = {} THEN << >>
    ELSE LET level == CHOOSE d \in LevelNamed(ref) : TRUE
             request == [max |-> 1000, policies |-> {},
                         consumer |-> [transports |-> <<transport>>, ceiling |-> level.tokens, renderers |-> {}]]
         IN Project(Catalog, <<level.profile>>, {}, <<unit>>, request, ScopeOf(p), << >>).units
Result(p, served) == [uri |-> Uri(ScopeOf(p), served.unit, served.level), shows |-> served.payload.shows, level |-> served.level]
Results(p, unit, ref) == FoldLeft(LAMBDA results, served : Append(results, Result(p, served)), << >>, Delivered(p, unit, ref, "inline"))

\* query-response.ts: results come with the total of the index, which counts every unit of the bundle, and
\* those of a plan with the number of units that were withheld. Here a unit counts one.
Outcome(error, results, total, withheld) ==
    [error |-> error, results |-> results, total |-> total, withheld |-> withheld]
Fails(error) == Outcome(error, << >>, 0, 0)
NotFound == Fails("Atom not found")
Found(p, results) == Outcome(Unset, results, Len(p.bundle.units), 0)
Planned(p, results) == Outcome(Unset, results, Len(p.bundle.units), Len(p.graph.units) - Len(Admitted(p)))

RefOf(args) == IF args.level = Unset THEN Primary ELSE args.level
Fits(args, unit) == args.kind = Unset \/ unit.type = args.kind
Limit(args, default) == IF args.limit = Unset THEN default ELSE args.limit

\* Without a signal: every admitted unit, until there are as many results as asked for.
Enumerated(p, args) ==
    LET fitting == SelectSeq(Admitted(p), LAMBDA u : Fits(args, u))
    IN FoldLeft(LAMBDA results, u : IF Len(results) >= Limit(args, Len(fitting)) THEN results
                                    ELSE results \o Results(p, u, RefOf(args)), << >>, fitting)

\* relatedOf: the admitted targets of the subject's edges, each once, until the limit, which is at least
\* one, is reached.
Tried(state, id, limit, results) == [seen |-> state.seen \cup {id}, results |-> results, full |-> Len(results) >= limit]
Try(p, args, units, state, id, at) ==
    IF state.full \/ id \in state.seen \/ at = 0 THEN state
    ELSE IF ~Fits(args, units[at]) THEN [state EXCEPT !.seen = @ \cup {id}]
    ELSE Tried(state, id, Limit(args, 10), state.results \o Results(p, units[at], RefOf(args)))
RelatedIn(p, args, subject, units) ==
    FoldLeft(LAMBDA state, edge : Try(p, args, units, state, edge.to, UnitOf(units, edge.to)),
             [seen |-> {subject.id}, results |-> << >>, full |-> FALSE], subject.relations).results
Related(p, args, subject) == RelatedIn(p, args, subject, Admitted(p))

\* planAtoms: planSelection (QueryEngine) gives loads over the admitted graph, of the primary projection
\* or a cheaper one; here any plan it might give.
Cheaper2(ref) == {d.name : d \in {e \in Catalog : \E f \in LevelNamed(ref) : e.tokens < f.tokens}}
Plans(p, args) ==
    LET able == {i \in DOMAIN Admitted(p) : Fits(args, Admitted(p)[i])}
    IN UNION {[chosen -> {RefOf(args)} \cup Cheaper2(RefOf(args))] : chosen \in SUBSET able}
Loaded(p, plan) ==
    LET ids == SetToSortSeq(DOMAIN plan, LAMBDA i, j : i < j)
    IN FoldLeft(LAMBDA results, i : results \o Results(p, Admitted(p)[i], plan[i]), << >>, ids)

Answered(p, args, plan) ==
    IF args.scope = "atoms" THEN IF args.signal THEN Planned(p, Loaded(p, plan)) ELSE Found(p, Enumerated(p, args))
    ELSE IF args.id = Unset THEN Fails("requires id")
    ELSE LET at == UnitOf(Admitted(p), args.id)
         IN IF at = 0 THEN NotFound
            ELSE Found(p, IF args.scope = "show" THEN Results(p, Admitted(p)[at], RefOf(args))
                          ELSE Related(p, args, Admitted(p)[at]))

AnswerQuery(args, plan) ==
    LET outcome == Answered(process, args, plan)
    IN /\ answer' = [args |-> args, plan |-> plan, outcome |-> outcome]
       /\ names' = IF outcome.results = << >> THEN names ELSE Range(outcome.results)
       /\ UNCHANGED <<process, starts>>
\* Calls leave nothing behind in the process, so one query for each start is enough.
Query ==
    /\ process # Unset /\ answer = Unset
    /\ \E args \in Queries : \E plan \in IF args.signal THEN Plans(process, args) ELSE {<< >>} : AnswerQuery(args, plan)

\* resolveAoeUri: another tenant's, another corpus' and an unseen unit are all not found; neither the
\* release nor the profile the name carries is compared, and the name of its level is looked for as that
\* of a definition. The answer is a text, with the unit and the name of the level.
Text(result) == [id |-> result.uri.id, level |-> result.level.level, shows |-> result.shows]
Content(results) ==
    IF results = << >> THEN Fails("Projection not available") ELSE Outcome(Unset, <<Text(results[1])>>, 0, 0)
ResolvedBy(p, uri) ==
    LET at == UnitOf(Admitted(p), uri.id)
    IN IF uri.tenant # p.tenant \/ uri.corpus # p.bundle.corpus \/ at = 0 THEN NotFound
       ELSE Content(Results(p, Admitted(p)[at], uri.level))
ResolvedUnchecked(p, uri) ==  \* mutant: the unit is looked for among all units of the graph
    LET at == UnitOf(p.graph.units, uri.id)
    IN IF uri.tenant # p.tenant \/ uri.corpus # p.bundle.corpus \/ at = 0 THEN NotFound
       ELSE Content(Results(p, p.graph.units[at], uri.level))
Resolved(p, uri) == ResolvedBy(p, uri)

Resource ==
    /\ process # Unset
    /\ \E name \in names :
         answer' = [args |-> name, plan |-> << >>, outcome |-> Resolved(process, name.uri)]
    /\ UNCHANGED <<process, names, starts>>

McpInit == process = Unset /\ names = {} /\ answer = Unset /\ starts = 0
McpNext ==
    \/ \E bundle \in Deployed, tenant \in Tenants, principal \in DOMAIN Principals : Start(bundle, tenant, principal)
    \/ Stop \/ Query \/ Resource
McpSpec == McpInit /\ [][McpNext]_mcpVars

-----------------------------------------------------------------------------
\* Of a unit the principal may not see, an answer tells that it counts and nothing else: the error and
\* the results are those a bundle without it gives, whether it is asked for by id, by a relation, by
\* enumeration, or by a name given out earlier to someone else (serve.ts executeAoeQuery, relatedOf,
\* resolveAoeUri). What counts it is the total of the index (query-response.ts:95) and, with a plan, the
\* number withheld (engine.ts:242).
Without(p) ==
    LET seen == SelectSeq(p.bundle.units, LAMBDA u : u.visibility \in Principals[p.principal])
    IN [p EXCEPT !.bundle.units = seen, !.graph = GraphOf([p.bundle EXCEPT !.units = seen])]
IsName(args) == "uri" \in DOMAIN args
Told(outcome) == [error |-> outcome.error, results |-> outcome.results]
HiddenIsAbsent ==
    answer # Unset =>
        Told(answer.outcome) = Told(IF IsName(answer.args) THEN Resolved(Without(process), answer.args.uri)
                                    ELSE Answered(Without(process), answer.args, answer.plan))

\* A name given out stands for what was served under it: where it is resolved to something, by a process
\* on the same release, this is the same unit at the same level, with the same content. That takes that
\* no other definition is named as its level is; otherwise the name stands for that one's content.
NamesHold ==
    answer # Unset /\ IsName(answer.args) /\ answer.outcome.results # << >>
        /\ answer.args.uri.release = process.bundle.release
        /\ LevelNamed(answer.args.uri.level) \subseteq {answer.args.level} =>
        answer.outcome.results = <<Text(answer.args)>>

\* What a plan loads is delivered, at the level it planned where that applies to the unit, and only what
\* has no artifact is missing (serve.ts planAtoms, project).
PlansAreDelivered ==
    answer # Unset /\ ~IsName(answer.args) =>
        \A i \in DOMAIN answer.plan :
            LET unit == Admitted(process)[i]
                level == CHOOSE d \in LevelNamed(answer.plan[i]) : TRUE
            IN Applies(level, unit) /\ level.level \in DOMAIN unit.artifacts /\ ~Refused(unit.artifacts[level.level]) =>
               \E j \in DOMAIN answer.outcome.results :
                  LET result == answer.outcome.results[j]
                  IN result.uri.id = unit.id /\ result.level = level

ServesTheAdmitted == HiddenIsAbsent /\ NamesHold /\ PlansAreDelivered
=============================================================================
