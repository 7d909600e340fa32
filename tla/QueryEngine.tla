----------------------------- MODULE QueryEngine -----------------------------
(***************************************************************************)
(* packages/query-engine/src: planSelection().  Of the ranked candidates a *)
(* cutoff keeps the best, relations pull in more, exclusions drop the      *)
(* weaker of a pair, and what survives is loaded in order as far as the    *)
(* budget goes.                                                            *)
(*                                                                         *)
(* Not modelled: diagnostics (cycles included) but for the number of units *)
(* withheld, spans, the echo of the request.                               *)
(***************************************************************************)
EXTENDS Retrieval

VARIABLES
    query,    \* the query being planned
    stage,    \* "retrieve", "rerank", "expand", "load", or "planned", "failed"
    scores,   \* candidate -> score
    ranking,  \* the candidates, best first
    pulled,   \* units that relations added to those that made the cut
    before,   \* <<u, v>>: u is to be loaded before v
    loaded,   \* the selection in load order, each with its projection tier
    spent,    \* tokens it consumes
    rejections, \* <<unit, reason>>
    withheld    \* the units the principal may not see, which the plan tells by their number

vars == <<query, stage, scores, ranking, pulled, before, loaded, spent, rejections, withheld>>

-----------------------------------------------------------------------------
\* expansion.ts: each relation from each unit that made the cut.

Cut(q, ranks) == SubSeq(ranks, 1, IF q.limit < Len(ranks) THEN q.limit ELSE Len(ranks))
BelowCut(q, ranks) == SubSeq(ranks, q.limit + 1, Len(ranks))

Pulls(r) == Model[r].traversal # "none" /\ Model[r].selection \in {"closure", "expand"}
Neighbours(q, r, u) ==
    {e.to : e \in {f \in Declared(q) : f.rel = r /\ f.from = u}}
    \cup IF Model[r].directional THEN {} ELSE {e.from : e \in {f \in Declared(q) : f.rel = r /\ f.to = u}}

\* A closure takes all within its traversal, an expansion only the next hop.
Found(q, r, origin) ==
    LET within[n \in Nat] ==
          IF n = 0 THEN {origin}
          ELSE LET w == within[n - 1] IN w \cup UNION {Neighbours(q, r, u) : u \in w}
        hops == IF Model[r].traversal = "transitive" /\ Model[r].selection = "closure" THEN MaxDepth ELSE 1
    IN within[hops] \ {origin}

Origins(q, ranks) == {<<r, ranks[i]>> : r \in {s \in DOMAIN Model : Pulls(s)}, i \in DOMAIN Cut(q, ranks)}
Discovered(q, ranks) == UNION {Found(q, o[1], o[2]) : o \in Origins(q, ranks)} \ ToSet(Cut(q, ranks))

Constraints(q, ranks) ==
    UNION {{<<u, o[2]>> : u \in Found(q, o[1], o[2])} : o \in {p \in Origins(q, ranks) : Model[p[1]].loadOrder = "before"}}
    \cup UNION {{<<o[2], u>> : u \in Found(q, o[1], o[2])} : o \in {p \in Origins(q, ranks) : Model[p[1]].loadOrder = "after"}}

\* The weaker side of each pair that may not be loaded together, among the units present.
Exclusions(q) == {e \in Declared(q) : /\ Semantics(e).selection = "exclude" /\ Semantics(e).traversal # "none"
                                      /\ Semantics(e).conflict = "error"}
Loser(points, e) == IF Outranks(points, e.from, e.to) THEN e.to ELSE e.from
Losers(q, points, present) == {Loser(points, e) : e \in {f \in Exclusions(q) : {f.from, f.to} \subseteq present}}

\* The position that counts for a unit that comes twice is the later one.
Place(units, u) == SelectLastInSeq(units, LAMBDA v : v = u)

\* What survives, in the order of the ranking, with what was only pulled in after it.
Survivors(q, points, ranks, added) ==
    LET present == ToSet(Cut(q, ranks)) \cup added
        kept == present \ Losers(q, points, present)
        earlier(u, v) == IF {u, v} \subseteq ToSet(ranks) THEN Place(ranks, u) < Place(ranks, v)
                         ELSE u \in ToSet(ranks) \/ (v \notin ToSet(ranks) /\ Outranks(points, u, v))
    IN SortSeq(SelectSeq(Cut(q, ranks), LAMBDA u : u \in kept) \o SetToSeq(kept \ ToSet(Cut(q, ranks))), earlier)

-----------------------------------------------------------------------------
\* loadorder.ts and budget.ts.

\* The best unit whose predecessors are placed is next; what waits for ever comes last, by id.
LoadOrder(units, pairs) ==
    LET among == {p \in pairs : p[1] # p[2] /\ {p[1], p[2]} \subseteq ToSet(units)}
        earlier(u, v) == Place(units, u) < Place(units, v)
        First == LET waits == [u \in ToSet(units) |-> Cardinality({p \in among : p[2] = u})]
                 IN [order |-> << >>, waits |-> waits, ready |-> SelectSeq(units, LAMBDA u : waits[u] = 0)]
        Next1(kahn) ==
          LET u == Head(kahn.ready)
              waits == [v \in ToSet(units) |-> kahn.waits[v] - (IF <<u, v>> \in among THEN 1 ELSE 0)]
              freed == {v \in ToSet(units) : <<u, v>> \in among /\ waits[v] = 0}
          IN [order |-> Append(kahn.order, u), waits |-> waits,
              ready |-> SortSeq(Tail(kahn.ready) \o SetToSeq(freed), earlier)]
        kahn[n \in Nat] == IF n = 0 THEN First
                           ELSE LET k == kahn[n - 1] IN IF k.ready = << >> THEN k ELSE Next1(k)
        placed == kahn[Len(units)].order
    IN placed \o SortSeq(SelectSeq(units, LAMBDA u : u \notin ToSet(placed)), <)

\* The first tier of the chain that fits, unit after unit; a unit that fits none is passed over.
Loads(q, units) ==
    LET Next1(b, u) ==
          LET fits == {t \in DOMAIN q.cost[u] : q.cost[u][t] <= q.max - b.spent}
              tier == CHOOSE t \in fits : \A s \in fits : t <= s
          IN IF fits = {} THEN [b EXCEPT !.over = @ \cup {u}]
             ELSE [b EXCEPT !.loaded = Append(@, [unit |-> u, tier |-> tier]), !.spent = @ + q.cost[u][tier]]
    IN FoldLeft(Next1, [loaded |-> << >>, spent |-> 0, over |-> {}], units)

-----------------------------------------------------------------------------
\* planSelection().

Ask(q) ==
    /\ query = q
    /\ stage = "retrieve"
    /\ scores = << >> /\ ranking = << >> /\ pulled = {} /\ before = {}
    /\ loaded = << >> /\ spent = 0 /\ rejections = {} /\ withheld = 0

Init == \E q \in Queries : Ask(q)

Refuse ==
    /\ stage = "retrieve"
    /\ query.max <= 0
    /\ stage' = "failed"
    /\ UNCHANGED <<query, scores, ranking, pulled, before, loaded, spent, rejections, withheld>>

\* Admission, generation and scoring; what a request-side filter took is rejected by name, and
\* what the principal may not see is counted.
Retrieve ==
    /\ stage = "retrieve"
    /\ query.max > 0
    /\ scores' = Scores(query)
    /\ ranking' = Ranked(scores', DOMAIN scores')
    /\ rejections' = {<<u, "filtered">> : u \in Visible(query) \cap query.unwanted}
    /\ withheld' = Cardinality(query.units \cap query.denied)
    /\ stage' = IF query.reranker = "own" THEN "rerank" ELSE "expand"
    /\ UNCHANGED <<query, pulled, before, loaded, spent>>

\* The host's reranker answers with as many candidates, all of them candidates: applyReranker() does not
\* see that one comes twice and another not at all.
Rerank ==
    /\ stage = "rerank"
    /\ ranking' \in [DOMAIN ranking -> ToSet(ranking)]
    /\ stage' = "expand"
    /\ UNCHANGED <<query, scores, pulled, before, loaded, spent, rejections, withheld>>

\* Another number of them, or a unit it was not given, fails the query.
RerankFails ==
    /\ stage = "rerank"
    /\ stage' = "failed"
    /\ UNCHANGED <<query, scores, ranking, pulled, before, loaded, spent, rejections, withheld>>

\* The cutoff, relaxed for units a relation pulls in.
Expand ==
    /\ stage = "expand"
    /\ pulled' = Discovered(query, ranking)
    /\ before' = Constraints(query, ranking)
    /\ rejections' = rejections \cup
         {<<u, "cutoff">> : u \in ToSet(BelowCut(query, ranking)) \ pulled'}
    /\ stage' = "load"
    /\ UNCHANGED <<query, scores, ranking, loaded, spent, withheld>>

\* A unit the reranker dropped has no score left when a relation pulls it in.
Points == Restrict(scores, ToSet(ranking))
Present == ToSet(Cut(query, ranking)) \cup pulled
Ordered == LoadOrder(Survivors(query, Points, ranking, pulled), before)

\* Exclusion, load order and budget.
Load ==
    /\ stage = "load"
    /\ LET plan == Loads(query, Ordered)
       IN /\ loaded' = plan.loaded
          /\ spent' = plan.spent
          /\ rejections' = rejections
               \cup {<<u, "excluded">> : u \in Losers(query, Points, Present)}
               \cup {<<u, "budget">> : u \in plan.over}
    /\ stage' = "planned"
    /\ UNCHANGED <<query, scores, ranking, pulled, before, withheld>>

Next == Refuse \/ Retrieve \/ Rerank \/ RerankFails \/ Expand \/ Load

Spec == Init /\ [][Next]_vars

-----------------------------------------------------------------------------
\* Properties

TypeOK ==
    /\ stage \in {"retrieve", "rerank", "expand", "load", "planned", "failed"}
    /\ DOMAIN scores \cup ToSet(ranking) \cup pulled \subseteq query.units
    /\ \A u \in DOMAIN scores : scores[u] \in Nat
    /\ before \subseteq query.units \X query.units
    /\ \A l \in ToSet(loaded) : l.unit \in query.units /\ l.tier \in DOMAIN query.cost[l.unit]
    /\ spent \in Nat /\ withheld \in Nat
    /\ rejections \subseteq query.units \X {"filtered", "cutoff", "excluded", "budget"}

Selection == {l.unit : l \in ToSet(loaded)}

\* Every unit the engine considered is selected or rejected, and none of them is hidden from the principal.
Considered == ToSet(ranking) \cup pulled \cup (Visible(query) \cap query.unwanted)
EachUnitAnswered == /\ Selection \cup {r[1] : r \in rejections} = Considered
                    /\ Considered \cap query.denied = {}
\* Every candidate is considered, and each unit selected or rejected, once and for one reason.
EachUnitOnce ==
    /\ DOMAIN scores \subseteq Considered
    /\ Selection \cap {r[1] : r \in rejections} = {}
    /\ Len(loaded) = Cardinality(Selection)
    /\ Cardinality({r[1] : r \in rejections}) = Cardinality(rejections)

WithinBudget ==
    /\ spent <= query.max
    /\ spent = FoldLeft(LAMBDA n, l : n + query.cost[l.unit][l.tier], 0, loaded)

\* Two units exclude each other through any relation the model gives that meaning.
NoExcludedPair ==
    \A e \in query.edges : e.rel \in DOMAIN Model /\ {e.from, e.to} \subseteq Selection =>
        ~(Semantics(e).selection = "exclude" /\ Semantics(e).traversal # "none" /\ Semantics(e).conflict = "error")

\* A unit is loaded after what it is ordered after, unless following the order leads back to it or
\* it waits for units that do.
Waits(u) ==
    LET on[n \in Nat] == IF n = 0 THEN {u}
                         ELSE LET o == on[n - 1] IN o \cup {p[1] : p \in {p \in before : p[2] \in o}}
    IN {v \in on[Cardinality(query.units)] : \E p \in before : p[1] # p[2] /\ p[1] = v}
OnCycle(u) == \E p \in before : p[1] = u /\ p[1] # p[2] /\ p[2] \in Waits(u)
OrderKept ==
    \A i, j \in DOMAIN loaded :
        <<loaded[i].unit, loaded[j].unit>> \in before /\ i > j => \E v \in Waits(loaded[j].unit) : OnCycle(v)

\* The plan that is returned answers for every unit it considered and keeps the budget and the exclusions,
\* whatever the host's reranker did.  When that was to permute, the plan considers every candidate, selects or
\* rejects it once, and loads in the order the relations ask for; after a reranker that names one candidate
\* twice, against "a permutation, or nothing" (reranker.ts:215), a candidate may be missing from it, and one
\* may be both selected and rejected, or loaded before what it is ordered after.
PlanIsAccounted ==
    stage = "planned" => /\ EachUnitAnswered /\ WithinBudget /\ NoExcludedPair
                         /\ IsInjective(ranking) => EachUnitOnce /\ OrderKept

\* What the principal may not see leaves no trace in the plan (engine.test.ts, "an ACL-denied unit does
\* not shift the lexical scores of the units that remain") but the number of units withheld, which the plan
\* reports: all else is what the graph without those units gives.
Seen == [query EXCEPT !.units = Visible(query), !.denied = {},
                      !.edges = {e \in query.edges : {e.from, e.to} \subseteq Visible(query)}]
PlanIgnoresTheUnseen ==
    /\ stage \in {"rerank", "expand", "load", "planned"} =>
          scores = Scores(Seen) /\ withheld = Cardinality(query.units) - Cardinality(Seen.units)
    /\ stage \in {"load", "planned"} => pulled = Discovered(Seen, ranking) /\ before = Constraints(Seen, ranking)
    /\ stage = "planned" =>
          LET plan == Loads(Seen, LoadOrder(Survivors(Seen, Points, ranking, pulled), before))
          IN loaded = plan.loaded /\ spent = plan.spent
=============================================================================
