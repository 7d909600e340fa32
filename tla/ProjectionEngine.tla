-------------------------- MODULE ProjectionEngine --------------------------
(* Engines that share one cache (projection-engine/src/engine.ts). An engine projects the units of one *)
(* scope, the bundle of a release, and redacts by the rules it was built with; the policy references   *)
(* of a request only name rules, and nothing makes two engines mean the same ones by a name.           *)
EXTENDS Projection

CONSTANTS
    Catalog,       \* levels of the model
    Routing,       \* purpose -> profiles, in order
    Engines,       \* [scope, rules]: options.redaction, and where its units are from
    Holdings,      \* scope -> units of its bundle, in order of priority
    Projections,   \* what may be asked: [purpose, max, consumer, policies]
    MaxProjections

VARIABLES
    cache,     \* key -> payload
    projected, \* the last answer: [engine, request, rows, units]
    asked,     \* requests so far
    meant      \* history: by which rules an engine redacted, in what scope, under what references

projectionVars == <<cache, projected, asked, meant>>

NothingYet == [rows |-> << >>, units |-> << >>]

EngineInit == cache = << >> /\ projected = NothingYet /\ asked = 0 /\ meant = {}

Intended(engine, request) == [scope |-> engine.scope, policies |-> request.policies, rules |-> engine.rules]

Ask(engine, request) ==
    /\ asked < MaxProjections
    /\ asked' = asked + 1
    /\ meant' = meant \cup {Intended(engine, request)}
    /\ LET routed == Routing[request.purpose]
           units == Holdings[engine.scope]
           done == Project(Catalog, routed, engine.rules, units, request, engine.scope, cache)
       IN /\ cache' = done.cache
          /\ projected' = [engine |-> engine, request |-> request, units |-> done.units,
                           rows |-> Rows(Catalog, routed, units, request)]

EngineNext == \E engine \in Engines, request \in Projections : Ask(engine, request)

EngineSpec == EngineInit /\ [][EngineNext]_projectionVars

-----------------------------------------------------------------------------
\* The rules some engine had for a request of these references, in this scope.
RulesMeant(scope, policies) == {m.rules : m \in {n \in meant : n.scope = scope /\ n.policies = policies}}

\* A served text is the one the rules of some engine leave, which was asked in this very scope under
\* these very references: never another tenant's, another release's or another policy's. A text that
\* was not found in the cache follows the engine's own rules; and when all engines meant the same rules
\* by the references, so does every text, and nothing these remove is in it. When they did not, the
\* cache hands out what another one's rules left in (cache.ts projectionCacheKey, engine.ts 150-218).
FreshBy(rules, served) ==
    <<served.payload>> = Fresh(rules, projected.engine.scope, projected.request, served.unit, served.level)
HitsAreFresh ==
    \A i \in DOMAIN projected.units :
        LET served == projected.units[i]
            own == projected.engine.rules
            under == RulesMeant(projected.engine.scope, projected.request.policies)
        IN /\ \E rules \in under : FreshBy(rules, served)
           /\ ~served.hit \/ under = {own} =>
                  FreshBy(own, served) /\ served.payload.shows \cap Literals(own, served.unit) = {}

\* The budget is kept; what was dropped has the lowest priority, while no unit had a step down left that
\* frees anything, and the best of it could not have been kept as it was; what was degraded could not
\* all have stayed as it was (budget.ts solveBudget). Of levels with distinct targets the one without
\* such a step is the cheapest; where two cost the same, a unit stays above them and may be dropped
\* although its cheapest level would fit.
Spent(levelsOf, rows, max) ==
    LET kept == {rows[i].id : i \in DOMAIN rows}
        dropped == {i \in DOMAIN levelsOf : levelsOf[i] # << >>} \ kept
        poorer == {i \in DOMAIN rows : rows[i].at < Len(rows[i].levels)}
    IN /\ Total(rows) <= max
       /\ \A d \in dropped, k \in kept : k < d
       /\ dropped # {} =>
          /\ \A i \in DOMAIN rows : Saving(rows[i]) = 0
          /\ LET next == CHOOSE d \in dropped : \A e \in dropped : d <= e
             IN \E at \in DOMAIN levelsOf[next] :
                    LET row == [levels |-> levelsOf[next], at |-> at]
                    IN Saving(row) = 0 /\ Total(rows) + TokensOf(row) > max
       /\ dropped = {} /\ poorer # {} => \E i \in poorer : Total(Moved(rows, i, 1)) > max
BudgetIsUsed ==
    projected # NothingYet =>
        LET units == Holdings[projected.engine.scope]
            levels == Offered(Catalog, Routing[projected.request.purpose])
            levelsOf == [i \in DOMAIN units |-> Candidates(levels, units[i], projected.request.consumer)]
        IN Spent(levelsOf, projected.rows, projected.request.max)

ProjectionIsLawful == HitsAreFresh /\ BudgetIsUsed

\* What that takes: engines have bundles, a bundle has no two units of one name, a profile no two levels
\* of one name and target, and a budget is a number (the code refuses another one).
WellStocked ==
    /\ IsFiniteSet(Catalog) /\ \A d \in Catalog : d.tokens \in Nat /\ d.rank \in Nat
    /\ \A d, e \in Catalog : d.profile = e.profile /\ d.tokens = e.tokens /\ d.rank = e.rank => d = e
    /\ \A engine \in Engines : engine.scope \in DOMAIN Holdings
    /\ \A scope \in DOMAIN Holdings :
         /\ Len(Holdings[scope]) \in Nat /\ DOMAIN Holdings[scope] = 1..Len(Holdings[scope])
         /\ \A i, j \in DOMAIN Holdings[scope] : Holdings[scope][i].id = Holdings[scope][j].id => i = j
    /\ \A request \in Projections : request.max \in Nat
=============================================================================
