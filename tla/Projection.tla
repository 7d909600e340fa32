----------------------------- MODULE Projection -----------------------------
(* What of a unit leaves the system, and in which form: projection-engine/src as operators. A level  *)
(* is a selector program with a token target, a field is named by its path, and the text of an       *)
(* artifact is the set of field values it shows.                                                     *)
EXTENDS Integers, SequencesExt

CONSTANT Unset  \* an optional part that is not there

\* profile.ts: the levels of a profile, cheapest first. Names give their order by a rank.
Cheaper(a, b) == a.tokens < b.tokens \/ (a.tokens = b.tokens /\ a.rank < b.rank)
LevelsOf(catalog, profile) == {d \in catalog : d.profile = profile}
CheapestFirst(levels) ==
    [i \in 1..Cardinality(levels) |-> CHOOSE d \in levels : Cardinality({e \in levels : Cheaper(e, d)}) = i - 1]

\* resolveProfile: the first routed profile that exists.
ResolveProfile(catalog, routed) == SelectInSeq(routed, LAMBDA p : \E d \in catalog : d.profile = p)
Offered(catalog, routed) ==
    LET at == ResolveProfile(catalog, routed) IN IF at = 0 THEN {} ELSE LevelsOf(catalog, routed[at])

\* levelAppliesToUnit: type groups, if there are any, decide; otherwise the types of the rules, if any.
Applies(level, unit) ==
    IF level.groups # {} THEN level.groups \cap unit.types # {}
    ELSE level.rules # {} => level.rules \cap unit.types # {}

Candidates(levels, unit, consumer) ==
    CheapestFirst({l \in levels : /\ Applies(l, unit)
                                  /\ consumer.ceiling = Unset \/ l.tokens <= consumer.ceiling
                                  /\ l.renderer = Unset \/ l.renderer \in consumer.renderers})

-----------------------------------------------------------------------------
\* budget.ts. A row is a unit with the levels that apply and the one it has; the first row has the
\* highest priority. One unit at a time gives up a level, the one that frees the most.
TokensOf(row) == row.levels[row.at].tokens
SumOf(f) == LET sum[n \in 0..Len(f)] == IF n = 0 THEN 0 ELSE sum[n - 1] + f[n] IN sum[Len(f)]
Total(rows) == SumOf([i \in DOMAIN rows |-> TokensOf(rows[i])])
Saving(row) == IF row.at = 1 THEN 0 ELSE TokensOf(row) - row.levels[row.at - 1].tokens
MostSaved(rows) == CHOOSE n \in {Saving(rows[i]) : i \in DOMAIN rows} : \A i \in DOMAIN rows : Saving(rows[i]) <= n

\* The last row that saves this much gives up a level; none does when there is nothing to save.
LastSaving(rows, most) == CHOOSE i \in DOMAIN rows : Saving(rows[i]) = most /\ \A j \in (i + 1)..Len(rows) : Saving(rows[j]) < most
Moved(rows, i, by) == [rows EXCEPT ![i] = [rows[i] EXCEPT !.at = rows[i].at + by]]
Lowered(rows, most) == IF most = 0 THEN rows ELSE Moved(rows, LastSaving(rows, most), -1)
Degrade(rows, max) == IF Total(rows) <= max THEN rows ELSE Lowered(rows, MostSaved(rows))
Downgrades(rows) == SumOf([i \in DOMAIN rows |-> rows[i].at])
Degraded(rows, max) ==
    LET after[n \in 0..Downgrades(rows)] == IF n = 0 THEN rows ELSE Degrade(after[n - 1], max) IN after[Downgrades(rows)]

\* Then the units of lowest priority go, until the rest fits.
Kept(rows, max) ==
    SubSeq(rows, 1, CHOOSE n \in 0..Len(rows) : /\ Total(SubSeq(rows, 1, n)) <= max
                                                /\ \A k \in (n + 1)..Len(rows) : Total(SubSeq(rows, 1, k)) > max)

\* A unit none of whose levels apply has no row; the others start at their richest level.
RowOf(unit) == IF unit.levels = << >> THEN << >> ELSE <<[id |-> unit.id, levels |-> unit.levels, at |-> Len(unit.levels)]>>
Richest(units) == LET rows[n \in 0..Len(units)] == IF n = 0 THEN << >> ELSE rows[n - 1] \o RowOf(units[n]) IN rows[Len(units)]
SolveBudget(units, max) == Kept(Degraded(Richest(units), max), max)

-----------------------------------------------------------------------------
\* redact.ts: a rule is in force on the units that carry its label; it names a field, with all below
\* it, or everything. In a text, what the removed fields say is replaced wherever it occurs.
Everything == <<"*">>
InForce(policy, unit) == {rule \in policy : rule.label \in unit.labels}
Removed(policy, unit) ==
    {path \in DOMAIN unit.fields :
        \E rule \in InForce(policy, unit) : rule.field = Everything \/ IsPrefix(rule.field, path)}
Literals(policy, unit) == {unit.fields[path] : path \in Removed(policy, unit)}

\* paths.ts: what may be wrong with a path, in the order it is looked for.
PathChecks == <<"nul", "empty", "absolute", "traversal", "no root", "not found", "escapes", "not a file">>
Refused(path) == \E i \in DOMAIN PathChecks : PathChecks[i] \in path.faults

\* deliver (transport.ts): the file, its content, or the name under which it can be fetched; a file
\* cannot be handed out in place of a redacted text.
Payload(transport, path, shown, uri) ==
    [transport |-> transport, uri |-> IF transport = "uri" THEN uri ELSE Unset,
     shows |-> IF transport = "uri" THEN {} ELSE shown]
Deliverable(transport, path, redacted) == ~Refused(path) /\ (transport = "path" => ~redacted)

\* cache.ts: what an entry is kept under.
CacheKey(scope, request, unit, level) ==
    [scope |-> scope, policies |-> request.policies, id |-> unit.id, version |-> unit.version, digest |-> unit.digest,
     profile |-> level.profile, level |-> level.level, levelVersion |-> level.version,
     transport |-> request.consumer.transports[1]]
KeyWithoutPolicies(scope, request, unit, level) ==  \* mutant: policies are not part of the key
    [CacheKey(scope, request, unit, level) EXCEPT !.policies = {}]
EntryKey(scope, request, unit, level) == CacheKey(scope, request, unit, level)

-----------------------------------------------------------------------------
\* ProjectionEngine.project, for one assigned unit: an artifact that is missing, unreadable or not
\* deliverable leaves a diagnostic and no entry.
Uri(scope, unit, level) ==
    [tenant |-> scope.tenant, corpus |-> scope.corpus, release |-> scope.release,
     id |-> unit.id, profile |-> level.profile, level |-> level.level]
FreshOf(transport, path, removed, literals, uri) ==
    IF Deliverable(transport, path, removed # {}) THEN <<Payload(transport, path, path.shows \ literals, uri)>> ELSE << >>
Fresh(policy, scope, request, unit, level) ==
    IF level.level \notin DOMAIN unit.artifacts THEN << >>
    ELSE FreshOf(request.consumer.transports[1], unit.artifacts[level.level], Removed(policy, unit),
                 Literals(policy, unit), Uri(scope, unit, level))

Served(unit, level, payload, removed, hit) ==
    [unit |-> unit, level |-> level, payload |-> payload, removed |-> removed, hit |-> hit]
Hit(done, unit, level, payload) ==
    [units |-> Append(done.units, Served(unit, level, payload, {}, TRUE)), cache |-> done.cache]
Fill(done, unit, level, removed, key, fresh) ==
    IF fresh = << >> THEN done
    ELSE [units |-> Append(done.units, Served(unit, level, fresh[1], removed, FALSE)),
          cache |-> [k \in DOMAIN done.cache \cup {key} |-> IF k = key THEN fresh[1] ELSE done.cache[k]]]
HitOrFill(policy, scope, request, done, unit, level, key) ==
    IF level.level \notin DOMAIN unit.artifacts THEN done
    ELSE IF key \in DOMAIN done.cache THEN Hit(done, unit, level, done.cache[key])
    ELSE Fill(done, unit, level, Removed(policy, unit), key, Fresh(policy, scope, request, unit, level))
ProjectOne(policy, scope, request, done, unit, level) ==
    HitOrFill(policy, scope, request, done, unit, level, EntryKey(scope, request, unit, level))

\* Everything a request gets: its rows after the budget, and the units projected along the way.
RowsOf(levels, units, request) ==
    SolveBudget([i \in DOMAIN units |-> [id |-> i, levels |-> Candidates(levels, units[i], request.consumer)]], request.max)
Rows(catalog, routed, units, request) == RowsOf(Offered(catalog, routed), units, request)
ProjectRows(policy, units, request, scope, cache, rows) ==
    LET done[n \in 0..Len(rows)] ==
            IF n = 0 THEN [units |-> << >>, cache |-> cache]
            ELSE ProjectOne(policy, scope, request, done[n - 1], units[rows[n].id], rows[n].levels[rows[n].at])
    IN done[Len(rows)]
Project(catalog, routed, policy, units, request, scope, cache) ==
    ProjectRows(policy, units, request, scope, cache, Rows(catalog, routed, units, request))
=============================================================================
