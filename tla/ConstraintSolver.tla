-------------------------- MODULE ConstraintSolver --------------------------
(***************************************************************************)
(* packages/constraint-solver/src: derive.ts turns a graph into            *)
(* constraints by the semantics of its relations, order.ts orders units,   *)
(* and solve.ts decides what is loaded: the closure of what is mandatory,  *)
(* then soft preferences one at a time, or, when the mandatory part is     *)
(* blocked, a minimal core of constraints, found by deletion.              *)
(*                                                                         *)
(* Unit ids and relation names are numbers, from 1, in the order the code  *)
(* gives their strings, and a constraint is named <<kind, i>>: the class,  *)
(* in the order of the ref's prefix, and the edge, or the unit, it stands  *)
(* for.  A policy label is "open" when the principal satisfies its         *)
(* declared requirement, "closed" when it does not, "undeclared" when none *)
(* is declared.                                                            *)
(* Not modelled: the explanation a plan carries (expansions, features,     *)
(* wording), duplicate edge ids, weights that are not finite.              *)
(***************************************************************************)
EXTENDS Integers, Sequences, FiniteSets, FiniteSetsExt

CONSTANTS
    Ids,        \* unit ids an edge may name
    Relations,  \* the model: relation -> semantics
    Requests    \* what may be asked

VARIABLES
    request,    \* the request being solved
    phase,      \* "start", "core", "prefer", or "invalid", "unsat", "planned"
    selected,   \* units in the plan
    consumed,   \* their cost
    arrived,    \* arrivedVia: <<unit, relation>> by which preferences selected
    decided,    \* preferences already looked at
    rejected,   \* preferences refused, with the reason
    core,       \* the candidate core
    untried,    \* refs of the core whose deletion has not been tried
    order       \* the load order of the plan

solverVars == <<request, phase, selected, consumed, arrived, decided, rejected, core, untried, order>>

Nil == "none"
NoRel == 0
Least(S) == CHOOSE x \in S : \A y \in S : x <= y
Lex(p, q) == p[1] < q[1] \/ (p[1] = q[1] /\ p[2] <= q[2])
First(S) == CHOOSE p \in S : \A q \in S : Lex(p, q)

-----------------------------------------------------------------------------
\* derive.ts: the constraints of a request.

HP == 1  HR == 2  ORD == 3  RP == 4

Edge(i) == request.edges[i]
Edges == DOMAIN request.edges
Semantics(i) == Relations[Edge(i).rel]

Requirements == {i \in Edges : Semantics(i).selection = "closure" /\ Semantics(i).traversal # "none"}
Prohibitions == {i \in Edges : Semantics(i).selection = "exclude" /\ Semantics(i).conflict = "error"}
Orderings == {i \in Edges : Semantics(i).loadOrder # "none"}
Before(i) == IF Semantics(i).loadOrder = "before" THEN Edge(i).to ELSE Edge(i).from
After(i) == IF Semantics(i).loadOrder = "before" THEN Edge(i).from ELSE Edge(i).to
Policies == {u \in request.units : request.label[u] \in {"open", "closed"}
                \/ (request.label[u] = "undeclared" /\ request.undeclared = "deny")}

\* Soft preferences: an "expand" edge, or the caller's own for a unit, which needs no subject.
EdgePreferences ==
    {[ref |-> i, subject |-> {Edge(i).from}, target |-> Edge(i).to, weight |-> Edge(i).weight, rel |-> Edge(i).rel] :
        i \in {j \in Edges : Semantics(j).selection = "expand" /\ Semantics(j).traversal # "none"}}
RequestPreferences ==
    {[ref |-> 1000 + u, subject |-> {}, target |-> u, weight |-> request.prefer[u], rel |-> NoRel] :
        u \in DOMAIN request.prefer}
Preferences == EdgePreferences \cup RequestPreferences

Refs == ({HP} \X Prohibitions) \cup ({HR} \X Requirements) \cup ({ORD} \X Orderings) \cup ({RP} \X Policies)

DeriveFails == \E i \in Edges : Edge(i).rel \notin DOMAIN Relations
MissingSeeds == request.mandatory \ request.units

-----------------------------------------------------------------------------
\* solve.ts: the closure of a set of units under the requirements in refs.

\* A unit reached by a relation does not hop by it again unless it is transitive.
MayHop(i, via) == Semantics(i).traversal = "transitive" \/ via[Edge(i).from].rel # Edge(i).rel

\* One round of the loop: every unit of the frontier fires its requirements, in order of <<subject, ref>>.
Grown(c, refs) ==
    LET fires == {<<Edge(i).from, i>> : i \in {j \in Requirements :
                    <<HR, j>> \in refs /\ Edge(j).from \in c.front /\ MayHop(j, c.via)}}
        missing == {f \in fires : Edge(f[2]).to \notin request.units}
        found == {Edge(f[2]).to : f \in fires} \ DOMAIN c.via
        by(u) == First({f \in fires : Edge(f[2]).to = u})
        chain(f) == c.via[f[1]].chain \cup {<<HR, f[2]>>}
    IN IF missing # {}
       THEN [c EXCEPT !.front = {}, !.blocked = "missing-target", !.refs = chain(First(missing))]
       ELSE [c EXCEPT !.front = found,
                      !.via = [u \in DOMAIN c.via \cup found |->
                                 IF u \in DOMAIN c.via THEN c.via[u]
                                 ELSE [rel |-> Edge(by(u)[2]).rel, chain |-> chain(by(u))]]]

Closure(seeds, refs) ==
    LET round[n \in Nat] ==
          IF n = 0
          THEN [front |-> seeds, via |-> [u \in seeds |-> [rel |-> NoRel, chain |-> {}]], blocked |-> Nil, refs |-> {}]
          ELSE LET c == round[n - 1] IN IF c.front = {} THEN c ELSE Grown(c, refs)
    IN round[Cardinality(Ids) + 1]

-----------------------------------------------------------------------------
\* order.ts: strongly connected components, what their cycles mean, and the order of the rest.

Arcs(nodes, refs) ==
    {i \in Orderings : <<ORD, i>> \in refs /\ Before(i) \in nodes /\ After(i) \in nodes}

\* The components of nodes: units that come before one another.
Components(nodes, arcs) ==
    LET paths[n \in Nat] ==
          IF n = 0 THEN {<<Before(i), After(i)>> : i \in arcs}
          ELSE LET p == paths[n - 1]
               IN p \cup {<<g[1][1], g[2][2]>> : g \in {h \in p \X p : h[1][2] = h[2][1]}}
        linked == paths[Cardinality(nodes)]
    IN {{b \in nodes : a = b \/ (<<a, b>> \in linked /\ <<b, a>> \in linked)} : a \in nodes}

Within(C, arcs) == {i \in arcs : Before(i) \in C /\ After(i) \in C}
\* The most conservative policy of the edges inside a component wins.
CyclePolicy(C, arcs) ==
    LET policies == {Semantics(i).cycle : i \in Within(C, arcs)}
    IN IF "reject" \in policies THEN "reject" ELSE IF "collapse" \in policies THEN "collapse" ELSE "allow"
RejectedCycles(nodes, arcs) == {C \in Components(nodes, arcs) : CyclePolicy(C, arcs) = "reject"}

Sorted(C) == [k \in 1..Cardinality(C) |-> CHOOSE u \in C : Cardinality({v \in C : v <= u}) = k]

\* Of the components all of whose predecessors are placed, the one with the least key is next.
LoadOrder(nodes, arcs) ==
    LET components == Components(nodes, arcs)
        placed[n \in Nat] ==
          IF n = 0 THEN [units |-> {}, order |-> << >>]
          ELSE LET p == placed[n - 1]
                   ready == {C \in components : C \cap p.units = {}
                               /\ \A i \in arcs : After(i) \in C => Before(i) \in C \cup p.units}
                   next == CHOOSE C \in ready : \A D \in ready : Least(C) <= Least(D)
               IN IF ready = {} THEN p
                  ELSE [units |-> p.units \cup next, order |-> p.order \o Sorted(next)]
    IN placed[Cardinality(nodes)].order

-----------------------------------------------------------------------------
\* solve.ts: one evaluation of the mandatory half under the constraints in refs.

Blocked(included, kind, by) == [included |-> included, blocked |-> kind, refs |-> by]

Verdict(c, refs) ==
    LET included == DOMAIN c.via
        chain(u) == c.via[u].chain
        hits == {i \in Prohibitions : <<HP, i>> \in refs /\ {Edge(i).from, Edge(i).to} \subseteq included}
        denials == {u \in Policies : <<RP, u>> \in refs /\ u \in included /\ request.label[u] # "open"}
        arcs == Arcs(included, refs)
        cycles == RejectedCycles(included, arcs)
    IN  IF c.blocked # Nil THEN Blocked(included, c.blocked, c.refs)
        ELSE IF hits # {}
        THEN LET i == Least(hits)
             IN Blocked(included, "hard-prohibition", {<<HP, i>>} \cup chain(Edge(i).from) \cup chain(Edge(i).to))
        ELSE IF denials # {}
        THEN LET u == Least(denials) IN Blocked(included, "runtime-policy", {<<RP, u>>} \cup chain(u))
        ELSE IF cycles # {}
        THEN LET C == CHOOSE D \in cycles : \A F \in cycles : Least(D) <= Least(F)
             IN Blocked(included, "cycle", ({ORD} \X Within(C, arcs)) \cup UNION {chain(u) : u \in C})
        ELSE Blocked(included, Nil, {})

Evaluation(seeds, refs) == Verdict(Closure(seeds, refs), refs)

Unsat(refs) == Evaluation(request.mandatory, refs).blocked # Nil
Cost(S) == MapThenSumSet(LAMBDA u : request.cost[u], S)

-----------------------------------------------------------------------------
\* solve(): what is invalid, the mandatory closure, then deletion or preferences.

Begin(asked) ==
    /\ request = asked
    /\ phase = "start"
    /\ selected = {} /\ consumed = 0 /\ arrived = {} /\ decided = {} /\ rejected = {}
    /\ core = {} /\ untried = {}
    /\ order = << >>

SolverInit == \E asked \in Requests : Begin(asked)

Reject ==
    /\ phase = "start"
    /\ DeriveFails \/ MissingSeeds # {}
    /\ phase' = "invalid"
    /\ UNCHANGED <<request, selected, consumed, arrived, decided, rejected, core, untried, order>>

\* The mandatory closure holds: it is selected whatever it costs.
Admit ==
    /\ phase = "start"
    /\ ~DeriveFails /\ MissingSeeds = {}
    /\ LET e == Evaluation(request.mandatory, Refs)
       IN /\ e.blocked = Nil
          /\ selected' = e.included
          /\ consumed' = Cost(e.included)
    /\ phase' = "prefer"
    /\ UNCHANGED <<request, arrived, decided, rejected, core, untried, order>>

\* The mandatory closure is blocked: the core starts from the blocker and its chains, or from everything.
Block ==
    /\ phase = "start"
    /\ ~DeriveFails /\ MissingSeeds = {}
    /\ LET e == Evaluation(request.mandatory, Refs)
       IN /\ e.blocked # Nil
          /\ core' = IF Unsat(e.refs) THEN e.refs ELSE Refs
    /\ untried' = core'
    /\ phase' = "core"
    /\ UNCHANGED <<request, selected, consumed, arrived, decided, rejected, order>>

\* Mutant: every ref is tried against the candidate as it was.
TryCandidate ==
    /\ phase = "core"
    /\ untried # {}
    /\ LET ref == First(untried)
       IN /\ untried' = untried \ {ref}
          /\ core' = IF Unsat(Evaluation(request.mandatory, Refs).refs \ {ref}) THEN core \ {ref} ELSE core
    /\ UNCHANGED <<request, phase, selected, consumed, arrived, decided, rejected, order>>

\* minimiseCore: the next ref is dropped if the rest still blocks.
Delete ==
    /\ phase = "core"
    /\ untried # {}
    /\ LET ref == First(untried)
       IN /\ untried' = untried \ {ref}
          /\ core' = IF Unsat(core \ {ref}) THEN core \ {ref} ELSE core
    /\ UNCHANGED <<request, phase, selected, consumed, arrived, decided, rejected, order>>

Refute ==
    /\ phase = "core"
    /\ untried = {}
    /\ phase' = "unsat"
    /\ UNCHANGED <<request, selected, consumed, arrived, decided, rejected, core, untried, order>>

Available(p) ==
    \A u \in p.subject :
        /\ u \in selected
        /\ Relations[p.rel].traversal = "transitive" \/ <<u, p.rel>> \notin arrived

\* The pool is in order of falling weight, then target, then ref.
Heavier(p, q) ==
    \/ p.weight > q.weight
    \/ p.weight = q.weight /\ Lex(<<p.target, p.ref>>, <<q.target, q.ref>>)

Pool == {p \in Preferences : p.ref \notin decided /\ Available(p)}
Preferred == CHOOSE p \in Pool : \A q \in Pool : Heavier(p, q)

Refuse(p, reason) ==
    /\ rejected' = rejected \cup {[unit |-> p.target, weight |-> p.weight, reason |-> reason]}
    /\ UNCHANGED <<selected, consumed, arrived>>

\* The preference p, when e is what the selection and its target evaluate to.
Settle(p, e) ==
    LET additions == e.included \ selected
    IN \/ /\ p.target \in selected
          /\ UNCHANGED <<selected, consumed, arrived, rejected>>
       \/ /\ p.target \notin selected /\ e.blocked # Nil
          /\ Refuse(p, e.blocked)
       \/ /\ p.target \notin selected /\ e.blocked = Nil
          /\ consumed + Cost(additions) > request.budget
          /\ Refuse(p, "budget-exhausted")
       \/ /\ p.target \notin selected /\ e.blocked = Nil
          /\ consumed + Cost(additions) <= request.budget
          /\ selected' = selected \cup additions
          /\ consumed' = consumed + Cost(additions)
          /\ arrived' = arrived \cup (IF p.rel = NoRel THEN {} ELSE {<<p.target, p.rel>>})
          /\ UNCHANGED rejected

\* One turn of the loop over soft preferences.
Prefer ==
    /\ phase = "prefer"
    /\ Pool # {}
    /\ Settle(Preferred, Evaluation(selected \cup {Preferred.target}, Refs))
    /\ decided' = decided \cup {Preferred.ref}
    /\ UNCHANGED <<request, phase, core, untried, order>>

Plan ==
    /\ phase = "prefer"
    /\ Pool = {}
    /\ order' = LoadOrder(selected, Arcs(selected, Refs))
    /\ phase' = "planned"
    /\ UNCHANGED <<request, selected, consumed, arrived, decided, rejected, core, untried>>

SolverNext == Reject \/ Admit \/ Block \/ Delete \/ Refute \/ Prefer \/ Plan

SolverSpec == SolverInit /\ [][SolverNext]_solverVars

-----------------------------------------------------------------------------
\* Properties

SolverTypeOK ==
    /\ phase \in {"start", "core", "prefer", "invalid", "unsat", "planned"}
    /\ selected \subseteq Ids
    /\ consumed \in Nat
    /\ core \cup untried \subseteq IF DeriveFails THEN {} ELSE Refs

\* Units that may not be loaded together, and units the principal may not load, by the declared model.
Unlawful(S) ==
    \/ \E i \in Prohibitions : {Edge(i).from, Edge(i).to} \subseteq S
    \/ \E u \in Policies \cap S : request.label[u] # "open"

\* No weight admits what a hard constraint forbids, whatever else was taken first (constraints.ts, "no
\* weight can override them"): what is selected holds no excluded pair and no denied
\* unit, holds what is mandatory and all that its units require transitively, and costs no more than
\* the budget unless the mandatory closure alone does.
SelectionIsLawful ==
    phase \in {"prefer", "planned"} =>
        /\ ~Unlawful(selected)
        /\ request.mandatory \subseteq selected
        /\ \A i \in Requirements :
              Edge(i).from \in selected /\ Semantics(i).traversal = "transitive" => Edge(i).to \in selected
        /\ consumed = Cost(selected)
        /\ consumed <= request.budget \/ selected = Evaluation(request.mandatory, Refs).included

\* The load order has every selected unit once, and a unit comes after what it is ordered after unless
\* the two are in one cycle, which the model then tolerates.
OrderIsRespected ==
    phase = "planned" =>
        /\ Len(order) = Cardinality(selected)
        /\ {order[k] : k \in DOMAIN order} = selected
        /\ \A j, k \in DOMAIN order, i \in Arcs(selected, Refs) :
              Before(i) = order[j] /\ After(i) = order[k] /\ j >= k =>
                \E C \in Components(selected, Arcs(selected, Refs)) :
                    {order[j], order[k]} \subseteq C /\ CyclePolicy(C, Arcs(selected, Refs)) # "reject"

\* The core returned with an unsatisfiable plan blocks by itself, and would not without any one of its
\* refs (minimiseCore: "every ref left in the core is load-bearing").
CoreIsMinimal ==
    phase = "unsat" => Unsat(core) /\ \A r \in core : ~Unsat(core \ {r})

\* What solve() answers is sound: what it selects is lawful, the order it gives is respected, and the core
\* of a refusal is minimal.
SolutionIsSound == SelectionIsLawful /\ OrderIsRespected /\ CoreIsMinimal

\* "`one-hop` cannot become transitive by chaining" (closeOver): a unit nobody asked for by name is
\* required by a selected unit that may hop to it, having been asked for or reached by another relation.
AskedFor == request.mandatory \cup {p.target : p \in Preferences}
OneHopIsNotChained ==
    phase = "planned" =>
        \A u \in selected \ AskedFor : \E i \in Requirements :
            /\ Edge(i).to = u /\ Edge(i).from \in selected
            /\ \/ Semantics(i).traversal = "transitive"
               \/ Edge(i).from \in AskedFor
               \/ \E j \in Requirements : Edge(j).to = Edge(i).from /\ Edge(j).rel # Edge(i).rel
=============================================================================
