--------------------------- MODULE ConstrainedPlan ---------------------------
(***************************************************************************)
(* packages/query-engine/src: planWithConstraints().  Retrieval ranks, the *)
(* constraint solver decides what is loaded, at the cost of the last       *)
(* projection of the chain, and degrade.ts chooses each unit's projection: *)
(* the first tier the whole selection fits, then better ones unit by unit. *)
(***************************************************************************)
EXTENDS Retrieval

CONSTANT Ids  \* unit ids

VARIABLES
    query,    \* the query being planned
    request, phase, selected, consumed, arrived, decided, rejected, core, untried, order,  \* the solver
    tier,     \* unit -> projection tier, 1 the richest
    tokens,   \* what the tiers cost
    verdict   \* of the budget: "", "within", "degraded", "exceeded"

solverVars == <<request, phase, selected, consumed, arrived, decided, rejected, core, untried, order>>
vars == <<query, solverVars, tier, tokens, verdict>>

-----------------------------------------------------------------------------
\* solver-bridge.ts: seeds are mandatory, candidates are preferences weighted by their score, and a unit
\* costs what its cheapest projection does.

RequestOf(q) ==
    [units |-> Admitted(q), edges |-> InOrder(Edges(q)), mandatory |-> q.seeds \cap Admitted(q),
     prefer |-> Scores(q), label |-> q.label, undeclared |-> q.undeclared,
     cost |-> [u \in Admitted(q) |-> Last(q.cost[u])], budget |-> q.max]

Solver == INSTANCE ConstraintSolver WITH Relations <- Model, Requests <- {}

-----------------------------------------------------------------------------
\* degrade.ts

Tiers(q) == 1..q.tiers
TotalAt(q, units, t) == FoldLeft(LAMBDA n, u : n + q.cost[u][t], 0, units)
Fitting(q, units) == {t \in Tiers(q) : TotalAt(q, units, t) <= q.max}
Base(q, units) == IF Fitting(q, units) = {} THEN q.tiers
                  ELSE CHOOSE t \in Fitting(q, units) : \A s \in Fitting(q, units) : t <= s

\* Mutant: what is spent is compared before the upgrade is added.
Overspend(q, placed, u, t) == placed.tokens <= q.max
Affords(q, placed, u, t) ==
    LET delta == q.cost[u][t] - q.cost[u][placed.tier[u]]
    IN delta <= 0 \/ placed.tokens + delta <= q.max

\* The next unit in load order takes the richest tier above the base that what is left pays for.
Upgrade(q, base, placed, u) ==
    LET richer == {t \in 1..(base - 1) : Affords(q, placed, u, t)}
        t == CHOOSE x \in richer : \A y \in richer : x <= y
    IN IF richer = {} THEN placed
       ELSE [tier |-> [placed.tier EXCEPT ![u] = t],
             tokens |-> placed.tokens + q.cost[u][t] - q.cost[u][placed.tier[u]]]

Placed(q, units) ==
    LET base == Base(q, units)
        uniform == [tier |-> [u \in ToSet(units) |-> base], tokens |-> TotalAt(q, units, base)]
    IN IF Fitting(q, units) = {} THEN uniform
       ELSE FoldLeft(LAMBDA placed, u : Upgrade(q, base, placed, u), uniform, units)

-----------------------------------------------------------------------------
Ask(q) ==
    /\ query = q
    /\ Solver!Begin(RequestOf(q))
    /\ tier = << >> /\ tokens = 0 /\ verdict = ""

Init == \E q \in Queries : Ask(q)

Solve == Solver!SolverNext /\ UNCHANGED <<query, tier, tokens, verdict>>

\* degradeToFit(): no unit of a plan is dropped, whatever it costs.
Degrade ==
    /\ phase = "planned" /\ verdict = ""
    /\ tier' = Placed(query, order).tier
    /\ tokens' = Placed(query, order).tokens
    /\ verdict' = IF order # << >> /\ Fitting(query, order) = {} THEN "exceeded"
                  ELSE IF \E u \in ToSet(order) : tier'[u] # 1 THEN "degraded" ELSE "within"
    /\ UNCHANGED <<query, solverVars>>

Next == Solve \/ Degrade

Spec == Init /\ [][Next]_vars

-----------------------------------------------------------------------------
\* Properties

TypeOK ==
    /\ Solver!SolverTypeOK
    /\ \A u \in DOMAIN tier : u \in Ids /\ tier[u] \in Tiers(query)
    /\ tokens \in Nat
    /\ verdict \in {"", "within", "degraded", "exceeded"}

\* A unit the constraints demand is rendered more cheaply and never dropped for the budget (degrade.ts,
\* "this module never drops a unit"), the tokens reported are those of the tiers, and a plan goes over the
\* budget only when what is mandatory alone does, at the last projection: then no preference was taken.
\* Nothing in it is hidden from the principal.
BudgetNeverDrops ==
    verdict # "" =>
        /\ DOMAIN tier = selected /\ selected \subseteq Admitted(query)
        /\ tokens = FoldLeft(LAMBDA n, u : n + query.cost[u][tier[u]], 0, order)
        /\ tokens <= query.max <=> verdict # "exceeded"
        /\ verdict = "exceeded" =>
              /\ \A u \in selected : tier[u] = query.tiers
              /\ selected = Solver!Evaluation(request.mandatory, Solver!Refs).included
=============================================================================
