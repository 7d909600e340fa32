------------------------------ MODULE Retrieval ------------------------------
(***************************************************************************)
(* packages/query-engine/src: what both kinds of plan start from.          *)
(* Admission hides what the principal may not see, and generators and the  *)
(* profile's weights rank what is left.                                    *)
(*                                                                         *)
(* Unit ids and relation names are numbers in their string order.  BM25 is *)
(* the parameter Lexical: a score of a unit that may depend on every unit  *)
(* the generator is given.  Not modelled: facets, which score a unit by    *)
(* itself, axes written by two generators, and diagnostics.                *)
(***************************************************************************)
EXTENDS Integers, Sequences, SequencesExt, FiniteSets, TLC

CONSTANTS
    Model,          \* relation -> semantics, in the order of their names
    Lexical(_, _),  \* units, unit -> text score of the unit among the units, 0 without a match
    One,            \* the feature value 1: values are multiples of 1/One
    Profile,        \* weights of the two axes, "lexical" and "graph"
    MaxDepth,       \* hop ceiling of generators and expansion
    Queries         \* what may be asked

-----------------------------------------------------------------------------
\* admission.ts: units the principal may see and the request wants, and the edges between them.

Visible(q) == q.units \ q.denied
Admitted(q) == Visible(q) \ q.unwanted
\* Mutant: the graph is not scrubbed of the units that were denied.
AllEdges(q) == q.edges
Edges(q) == {e \in q.edges : {e.from, e.to} \subseteq Admitted(q)}

Semantics(e) == Model[e.rel]
Declared(q) == {e \in Edges(q) : e.rel \in DOMAIN Model}

-----------------------------------------------------------------------------
\* generators and scoring.ts: distance from the seeds, text, and their weighted sum.

EdgeOrder(e, f) == \/ e.rel < f.rel
                   \/ e.rel = f.rel /\ (e.from < f.from \/ (e.from = f.from /\ e.to < f.to))
InOrder(edges) == SetToSortSeq(edges, EdgeOrder)
Walkable(q, u) == InOrder({e \in Declared(q) : e.from = u}) \o InOrder({e \in Declared(q) : e.to = u})

\* One edge from the unit at the head of the queue.  A relation that is not transitive reaches its
\* target but does not queue it, and what is reached once is not queued by a later edge.
Follow(walk, e) ==
    LET u == Head(walk.queue)
        neighbour == IF e.to = u THEN e.from ELSE e.to
        depth == walk.depth[u] + 1
    IN IF \/ Semantics(e).traversal = "none"
          \/ e.to = u /\ Semantics(e).directional
          \/ neighbour \in DOMAIN walk.depth
       THEN walk
       ELSE [depth |-> (neighbour :> depth) @@ walk.depth,
             queue |-> IF Semantics(e).traversal = "transitive" /\ depth < MaxDepth
                       THEN Append(walk.queue, neighbour) ELSE walk.queue]

\* unit -> hops from the nearest seed.
Reached(q) ==
    LET seeds == q.seeds \cap Admitted(q)
        walk[n \in Nat] ==
          IF n = 0 THEN [depth |-> [u \in seeds |-> 0], queue |-> SetToSortSeq(seeds, <)]
          ELSE LET w == walk[n - 1]
               IN IF w.queue = << >> THEN w
                  ELSE LET f == FoldLeft(Follow, w, Walkable(q, Head(w.queue)))
                       IN [f EXCEPT !.queue = Tail(@)]
    IN walk[Cardinality(q.units) + 1].depth

Matches(q) == {u \in Admitted(q) : Lexical(Admitted(q), u) > 0}
Best(q) == LET m == CHOOSE u \in Matches(q) : \A v \in Matches(q) : Lexical(Admitted(q), u) >= Lexical(Admitted(q), v)
           IN Lexical(Admitted(q), m)

\* unit -> score, of the units some generator found.
Scores(q) ==
    LET text == [u \in Matches(q) |-> (One * Lexical(Admitted(q), u)) \div Best(q)]
        graph == [u \in DOMAIN Reached(q) |-> One \div (1 + Reached(q)[u])]
    IN [u \in DOMAIN text \cup DOMAIN graph |->
           (IF u \in DOMAIN text THEN Profile.lexical * text[u] ELSE 0)
           + (IF u \in DOMAIN graph THEN Profile.graph * graph[u] ELSE 0)]

\* compareByScoreThenId; a unit that only a relation asked for has no score.
Of(scores, u) == IF u \in DOMAIN scores THEN scores[u] ELSE 0
Outranks(scores, u, v) == Of(scores, u) > Of(scores, v) \/ (Of(scores, u) = Of(scores, v) /\ u < v)
Ranked(scores, units) == SetToSortSeq(units, LAMBDA u, v : Outranks(scores, u, v))
=============================================================================
