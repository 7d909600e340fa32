----------------------- MODULE ConstraintSolverProofs -----------------------
(***************************************************************************)
(* Proofs about ConstraintSolver, for every model and every request that   *)
(* is well posed: that what is selected is lawful, that the load order is  *)
(* respected, and that the core of a refusal is minimal.  The closure, the *)
(* cost, the components and the order are computed by recursion on         *)
(* numbers, for which see InductionTheorems.                               *)
(***************************************************************************)
EXTENDS ConstraintSolver, InductionTheorems, FiniteSetTheorems, SequenceTheorems, TLAPS

-----------------------------------------------------------------------------
(* What a set of units costs *)

Sum(cost, S) == MapThenSumSet(LAMBDA u : cost[u], S)
AnyOf(s) == CHOOSE x \in s : TRUE
Added(cost, h, s) == IF s = {} THEN 0 ELSE cost[AnyOf(s)] + h[s \ {AnyOf(s)}]
Sums(cost, U, h) == \A s \in SUBSET U : h[s] = Added(cost, h, s)
IsSum(cost, S, h) == h = [s \in SUBSET S |-> Added(cost, h, s)]

LEMMA SumIsIterated == \A cost, S : Sum(cost, S) = (CHOOSE h : IsSum(cost, S, h))[S]
BY DEF Sum, IsSum, Added, AnyOf, MapThenSumSet, MapThenFoldSet

\* One element less.
LEMMA Smaller ==
    ASSUME NEW U, IsFiniteSet(U), NEW s \in SUBSET U, NEW x \in s, NEW n \in Nat, Cardinality(s) <= n + 1
    PROVE  s \ {x} \in SUBSET U /\ Cardinality(s \ {x}) <= n
<1>1. IsFiniteSet(s) /\ Cardinality(s) \in Nat
  BY FS_Subset, FS_CardinalityType
<1>2. Cardinality(s \ {x}) = Cardinality(s) - 1
  BY <1>1, FS_RemoveElement
<1> QED BY <1>1, <1>2

LEMMA SumIsUnique ==
    ASSUME NEW U, IsFiniteSet(U), NEW cost, NEW g, NEW h, Sums(cost, U, g), Sums(cost, U, h)
    PROVE  g[U] = h[U]
<1> DEFINE T == {n \in Nat : \A s \in SUBSET U : Cardinality(s) <= n => g[s] = h[s]}
<1>1. \A s \in SUBSET U : s = {} => g[s] = h[s]
  BY DEF Added, Sums
<1>2. \A s \in SUBSET U : s # {} => AnyOf(s) \in s
  BY DEF AnyOf
<1>3. \A s \in SUBSET U : Cardinality(s) \in Nat /\ (Cardinality(s) = 0 => s = {})
  BY FS_Subset, FS_CardinalityType, FS_EmptySet
<1>4. 0 \in T
  BY <1>1, <1>3
<1>5. ASSUME NEW n \in Nat, n \in T PROVE n + 1 \in T
  <2>1. ASSUME NEW s \in SUBSET U, Cardinality(s) <= n + 1, s # {} PROVE g[s] = h[s]
    <3>1. s \ {AnyOf(s)} \in SUBSET U /\ Cardinality(s \ {AnyOf(s)}) <= n
      BY <1>2, <2>1, Smaller
    <3>2. g[s \ {AnyOf(s)}] = h[s \ {AnyOf(s)}]
      BY <1>5, <3>1
    <3> QED BY <2>1, <3>2 DEF Added, Sums
  <2> QED BY <1>1, <2>1
<1> HIDE DEF T
<1>6. Cardinality(U) \in Nat /\ Cardinality(U) \in T
  BY <1>4, <1>5, FS_CardinalityType, Induction
<1> QED BY <1>6 DEF T

LEMMA SumExists ==
    ASSUME NEW U, IsFiniteSet(U), NEW cost \in [U -> Nat]
    PROVE  \E h \in [SUBSET U -> Nat] : Sums(cost, U, h)
<1> DEFINE P == SUBSET U
           V == [P -> Nat]
           G == [h \in V |-> [s \in P |-> Added(cost, h, s)]]
           zero == [s \in P |-> 0]
<1>1. \A s \in P : s # {} => AnyOf(s) \in s /\ AnyOf(s) \in U /\ s \ {AnyOf(s)} \in P
  BY DEF AnyOf
<1>2. G \in [V -> V]
  BY <1>1 DEF Added
<1>3. zero \in V
  OBVIOUS
<1>4. PICK f : Iterates(f, V, zero, G)
  <2> HIDE DEF V, G, zero
  <2> QED BY <1>2, <1>3, Recursion
<1>5. \A n \in Nat : f[n] \in V /\ f[n + 1] = G[f[n]]
  <2> HIDE DEF V, G, zero
  <2> QED BY <1>4 DEF Iterates
<1>6. ASSUME NEW n \in Nat, NEW s \in P PROVE f[n + 1][s] = Added(cost, f[n], s)
  <2>1. f[n] \in V /\ f[n + 1] = G[f[n]]
    BY <1>5
  <2>2. G[f[n]] = [t \in P |-> Added(cost, f[n], t)]
    <3> HIDE DEF V
    <3> QED BY <2>1
  <2> QED BY <2>1, <2>2
<1> DEFINE T == {n \in Nat : \A s \in P : Cardinality(s) <= n => f[n + 1][s] = f[n][s]}
<1>7. \A s \in P : Cardinality(s) \in Nat /\ (Cardinality(s) = 0 => s = {})
  BY FS_Subset, FS_CardinalityType, FS_EmptySet
<1>8. 0 \in T
  <2>1. f[0 + 1][{}] = 0
    BY <1>6 DEF Added
  <2>2. f[0] = zero
    <3> HIDE DEF zero
    <3> QED BY <1>4 DEF Iterates
  <2>3. f[0][{}] = 0
    BY <2>2
  <2>4. \A s \in P : Cardinality(s) <= 0 => s = {}
    BY <1>7
  <2> QED BY <2>1, <2>3, <2>4
<1>9. ASSUME NEW n \in Nat, n \in T PROVE n + 1 \in T
  <2>1. ASSUME NEW s \in P, Cardinality(s) <= n + 1 PROVE f[n + 1 + 1][s] = f[n + 1][s]
    <3>1. f[n + 1 + 1][s] = Added(cost, f[n + 1], s) /\ f[n + 1][s] = Added(cost, f[n], s)
      BY <1>6
    <3>2. ASSUME s # {} PROVE f[n + 1][s \ {AnyOf(s)}] = f[n][s \ {AnyOf(s)}]
      <4>1. s \ {AnyOf(s)} \in P /\ Cardinality(s \ {AnyOf(s)}) <= n
        BY <1>1, <2>1, <3>2, Smaller
      <4> QED BY <1>9, <4>1
    <3> QED BY <3>1, <3>2 DEF Added
  <2> QED BY <2>1
<1> DEFINE N == Cardinality(U)
<1> HIDE DEF T, G, V
<1>10. N \in Nat /\ N \in T
  BY <1>8, <1>9, FS_CardinalityType, Induction
<1>11. \A s \in P : Cardinality(s) <= N
  BY FS_Subset
<1>12. \A s \in P : f[N][s] = Added(cost, f[N], s)
  BY <1>6, <1>10, <1>11 DEF T
<1>13. f[N] \in [P -> Nat]
  BY <1>5, <1>10 DEF V
<1> QED BY <1>12, <1>13 DEF Sums

\* The sums of the subsets of U, each by way of any of its elements.
SumsOf(cost, U, h) ==
    /\ h \in [SUBSET U -> Nat] /\ h[{}] = 0
    /\ \A s \in SUBSET U : h[s] = Sum(cost, s) /\ \A x \in s : h[s] = cost[x] + h[s \ {x}]

LEMMA SumsOfSubsets ==
    ASSUME NEW U, IsFiniteSet(U), NEW cost \in [U -> Nat]
    PROVE  \E h : SumsOf(cost, U, h)
<1>1. PICK h \in [SUBSET U -> Nat] : Sums(cost, U, h)
  BY SumExists
<1>2. ASSUME NEW S \in SUBSET U PROVE h[S] = Sum(cost, S)
  <2> DEFINE k == [s \in SUBSET S |-> h[s]]
             g == CHOOSE g : IsSum(cost, S, g)
  <2>1. IsSum(cost, S, k)
    <3>1. \A s \in SUBSET S : s # {} => s \ {AnyOf(s)} \in SUBSET S
      OBVIOUS
    <3>2. \A s \in SUBSET S : Added(cost, h, s) = Added(cost, k, s)
      BY <3>1 DEF Added
    <3> QED BY <1>1, <3>2 DEF IsSum, Sums
  <2>2. IsSum(cost, S, g)
    BY <2>1
  <2> HIDE DEF g
  <2>3. Sums(cost, S, g)
    BY <2>2 DEF IsSum, Sums
  <2>4. Sums(cost, S, h)
    BY <1>1 DEF Sums
  <2>5. IsFiniteSet(S)
    BY FS_Subset
  <2>6. g[S] = h[S]
    BY <2>3, <2>4, <2>5, SumIsUnique
  <2> QED BY <2>6, SumIsIterated DEF g
<1>3. h[{}] = 0
  BY <1>1 DEF Added, Sums
<1> DEFINE T == {n \in Nat : \A s \in SUBSET U : Cardinality(s) <= n => \A x \in s : h[s] = cost[x] + h[s \ {x}]}
<1>4. \A s \in SUBSET U : Cardinality(s) \in Nat /\ (Cardinality(s) = 0 => s = {})
  BY FS_Subset, FS_CardinalityType, FS_EmptySet
<1>5. 0 \in T
  BY <1>4
<1>6. ASSUME NEW n \in Nat, n \in T PROVE n + 1 \in T
  <2>1. ASSUME NEW s \in SUBSET U, Cardinality(s) <= n + 1, NEW x \in s PROVE h[s] = cost[x] + h[s \ {x}]
    <3> DEFINE y == AnyOf(s)
               r == (s \ {x}) \ {y}
    <3>1. y \in s /\ h[s] = cost[y] + h[s \ {y}]
      BY <1>1 DEF Added, AnyOf, Sums
    <3> HIDE DEF y
    <3>2. ASSUME x # y PROVE h[s \ {y}] = cost[x] + h[r] /\ h[s \ {x}] = cost[y] + h[r]
      <4>1. /\ s \ {y} \in SUBSET U /\ Cardinality(s \ {y}) <= n
            /\ s \ {x} \in SUBSET U /\ Cardinality(s \ {x}) <= n
        BY <2>1, <3>1, Smaller
      <4>2. x \in s \ {y} /\ y \in s \ {x} /\ (s \ {y}) \ {x} = r
        BY <3>1, <3>2
      <4>3. h[s \ {y}] = cost[x] + h[(s \ {y}) \ {x}]
        BY <1>6, <4>1, <4>2
      <4>4. h[s \ {x}] = cost[y] + h[(s \ {x}) \ {y}]
        BY <1>6, <4>1, <4>2
      <4> QED BY <4>2, <4>3, <4>4
    <3>3. cost[x] \in Nat /\ cost[y] \in Nat /\ r \in SUBSET U /\ h[r] \in Nat
      BY <3>1
    <3> HIDE DEF r
    <3>4. cost[x] + (cost[y] + h[r]) = cost[y] + (cost[x] + h[r])
      BY <3>3
    <3> QED BY <3>1, <3>2, <3>4
  <2> QED BY <2>1
<1> HIDE DEF T
<1>7. Cardinality(U) \in Nat /\ Cardinality(U) \in T
  BY <1>5, <1>6, FS_CardinalityType, Induction
<1>8. ASSUME NEW s \in SUBSET U, NEW x \in s PROVE h[s] = cost[x] + h[s \ {x}]
  BY <1>7, FS_Subset DEF T
<1> QED BY <1>2, <1>3, <1>8 DEF SumsOf

\* Units that are added cost what they cost by themselves.
LEMMA SumOfUnion ==
    ASSUME NEW U, IsFiniteSet(U), NEW cost \in [U -> Nat],
           NEW A \in SUBSET U, NEW B \in SUBSET U, A \cap B = {}
    PROVE  Sum(cost, A \cup B) = Sum(cost, A) + Sum(cost, B) /\ Sum(cost, A) \in Nat
<1>0. PICK h : SumsOf(cost, U, h)
  BY SumsOfSubsets
<1>1. /\ h \in [SUBSET U -> Nat] /\ h[{}] = 0
      /\ \A s \in SUBSET U : h[s] = Sum(cost, s) /\ \A x \in s : h[s] = cost[x] + h[s \ {x}]
  BY <1>0 DEF SumsOf
<1> DEFINE T == {n \in Nat : \A s \in SUBSET U : Cardinality(s) <= n /\ A \cap s = {} => h[A \cup s] = h[A] + h[s]}
<1>2. \A s \in SUBSET U : Cardinality(s) \in Nat /\ (Cardinality(s) = 0 => s = {})
  BY FS_Subset, FS_CardinalityType, FS_EmptySet
<1>3. h[A \cup {}] = h[A] + h[{}]
  <2>1. A \cup {} = A /\ h[A] \in Nat
    BY <1>1
  <2> QED BY <1>1, <2>1
<1>4. 0 \in T
  BY <1>2, <1>3
<1>5. ASSUME NEW n \in Nat, n \in T PROVE n + 1 \in T
  <2>1. ASSUME NEW s \in SUBSET U, Cardinality(s) <= n + 1, A \cap s = {}, NEW x \in s
        PROVE  h[A \cup s] = h[A] + h[s]
    <3> DEFINE r == s \ {x}
    <3>1. r \in SUBSET U /\ Cardinality(r) <= n
      BY <2>1, Smaller
    <3>2. A \cap r = {} /\ (A \cup s) \ {x} = A \cup r /\ A \cup s \in SUBSET U /\ A \cup r \in SUBSET U /\ x \in A \cup s
      BY <2>1
    <3>3. h[A \cup s] = cost[x] + h[A \cup r] /\ h[s] = cost[x] + h[r]
      BY <1>1, <3>2
    <3> HIDE DEF r
    <3>4. h[A \cup r] = h[A] + h[r]
      BY <1>5, <3>1, <3>2
    <3>5. cost[x] \in Nat /\ h[A] \in Nat /\ h[r] \in Nat
      BY <1>1, <3>1
    <3> QED BY <3>3, <3>4, <3>5
  <2>2. h[A \cup {}] = h[A] + h[{}]
    BY <1>3
  <2>3. ASSUME NEW s \in SUBSET U, Cardinality(s) <= n + 1, A \cap s = {} PROVE h[A \cup s] = h[A] + h[s]
    <3>1. CASE s = {}
      BY <2>2, <3>1
    <3>2. CASE s # {}
      <4>1. PICK x \in s : TRUE
        BY <3>2
      <4> QED BY <2>1, <2>3, <4>1
    <3> QED BY <3>1, <3>2
  <2> QED BY <2>3
<1> HIDE DEF T
<1>6. Cardinality(B) \in Nat /\ Cardinality(B) \in T
  BY <1>2, <1>4, <1>5, Induction
<1>7. h[A \cup B] = h[A] + h[B]
  <2>1. Cardinality(B) <= Cardinality(B) /\ A \cap B = {} /\ B \in SUBSET U
    BY <1>6
  <2> QED BY <1>6, <2>1 DEF T
<1>8. A \cup B \in SUBSET U /\ h[A] \in Nat
  BY <1>1
<1> QED BY <1>1, <1>7, <1>8

-----------------------------------------------------------------------------
(* The closure of what must be loaded *)

\* What derive.ts and solve.ts take for granted of a request: its edges and preferences name
\* units, weights are finite, and every unit has a cost.
WellPosed(r) ==
    /\ r.units \subseteq Ids
    /\ \E n \in Nat : r.edges \in [1..n -> [rel : Nat, from : Ids, to : Ids, weight : Int]]
    /\ \E D \in SUBSET Ids : r.prefer \in [D -> Int]
    /\ r.cost \in [Ids -> Nat]
Solvable == Ids \subseteq Nat /\ IsFiniteSet(Ids) /\ \A r \in Requests : WellPosed(r)
Posed == Ids \subseteq Nat /\ IsFiniteSet(Ids) /\ WellPosed(request)

LEMMA EdgesAreEdges ==
    ASSUME Posed
    PROVE  /\ IsFiniteSet(Edges) /\ Edges \subseteq Nat
           /\ \A i \in Edges : /\ Edge(i) \in [rel : Nat, from : Ids, to : Ids, weight : Int]
                               /\ Edge(i).from \in Ids /\ Edge(i).to \in Ids /\ Edge(i).rel \in Nat /\ Edge(i).weight \in Int
<1>1. PICK n \in Nat : request.edges \in [1..n -> [rel : Nat, from : Ids, to : Ids, weight : Int]]
  BY DEF Posed, WellPosed
<1>2. Edges = 1..n
  BY <1>1 DEF Edges
<1>3. IsFiniteSet(1..n) /\ 1..n \subseteq Nat
  BY FS_Interval
<1>4. \A i \in Edges : Edge(i) \in [rel : Nat, from : Ids, to : Ids, weight : Int]
  BY <1>1, <1>2 DEF Edge
<1> QED BY <1>2, <1>3, <1>4

\* Of pairs of numbers one comes first.
LEMMA FirstOfPairs ==
    ASSUME NEW S, S \subseteq Nat \X Nat, S # {}
    PROVE  First(S) \in S
<1> DEFINE A == {p[1] : p \in S}
<1>1. A \subseteq Nat /\ A # {}
  OBVIOUS
<1>2. PICK a \in A : \A x \in A : a <= x
  <2> HIDE DEF A
  <2> QED BY <1>1, LeastNat
<1> DEFINE B == {p[2] : p \in {q \in S : q[1] = a}}
<1>3. B \subseteq Nat /\ B # {}
  BY <1>2
<1>4. PICK b \in B : \A x \in B : b <= x
  <2> HIDE DEF B
  <2> QED BY <1>3, LeastNat
<1>5. PICK p \in S : p[1] = a /\ p[2] = b
  BY <1>4
<1>6. ASSUME NEW q \in S PROVE Lex(p, q)
  <2>1. q[1] \in A /\ (q[1] = a => q[2] \in B) /\ q[1] \in Nat /\ p[1] \in Nat
    OBVIOUS
  <2>2. p[1] <= q[1] /\ (q[1] = p[1] => p[2] <= q[2])
    BY <1>2, <1>4, <1>5, <2>1
  <2> QED BY <2>1, <2>2 DEF Lex
<1> QED BY <1>5, <1>6 DEF First

\* The parts of Grown.
Fires(c, refs) ==
    {<<Edge(i).from, i>> : i \in {j \in Requirements :
        <<HR, j>> \in refs /\ Edge(j).from \in c.front /\ MayHop(j, c.via)}}
Missing(c, refs) == {f \in Fires(c, refs) : Edge(f[2]).to \notin request.units}
Found(c, refs) == {Edge(f[2]).to : f \in Fires(c, refs)} \ DOMAIN c.via
By(c, refs, u) == First({f \in Fires(c, refs) : Edge(f[2]).to = u})
ChainTo(c, f) == c.via[f[1]].chain \cup {<<HR, f[2]>>}
ViaFor(c, refs, u) == [rel |-> Edge(By(c, refs, u)[2]).rel, chain |-> ChainTo(c, By(c, refs, u))]

LEMMA GrownIs == \A c, refs :
    Grown(c, refs) =
       IF Missing(c, refs) # {}
       THEN [c EXCEPT !.front = {}, !.blocked = "missing-target", !.refs = ChainTo(c, First(Missing(c, refs)))]
       ELSE [c EXCEPT !.front = Found(c, refs),
                      !.via = [u \in DOMAIN c.via \cup Found(c, refs) |->
                                 IF u \in DOMAIN c.via THEN c.via[u] ELSE ViaFor(c, refs, u)]]
BY DEF Grown, Fires, Missing, Found, By, ChainTo, ViaFor

Round(seeds) == [front |-> seeds, via |-> [u \in seeds |-> [rel |-> NoRel, chain |-> {}]], blocked |-> Nil, refs |-> {}]
NextRound(c, refs) == IF c.front = {} THEN c ELSE Grown(c, refs)
AreRounds(round, seeds, refs) ==
    round = [n \in Nat |-> IF n = 0 THEN Round(seeds) ELSE NextRound(round[n - 1], refs)]

LEMMA ClosureIs == \A seeds, refs :
    Closure(seeds, refs) = (CHOOSE round : AreRounds(round, seeds, refs))[Cardinality(Ids) + 1]
BY DEF Closure, AreRounds, Round, NextRound

\* What the rounds pass on.
Vias(refs) == UNION {[D -> [rel : Nat, chain : SUBSET refs]] : D \in SUBSET Ids}
Rounds(refs) ==
    {c \in [front : SUBSET Ids, via : Vias(refs), blocked : {Nil, "missing-target"}, refs : SUBSET refs] :
        c.front \subseteq DOMAIN c.via}

LEMMA ViasAre == \A refs, via : via \in Vias(refs) =>
    /\ DOMAIN via \in SUBSET Ids /\ via \in [DOMAIN via -> [rel : Nat, chain : SUBSET refs]]
    /\ \A u \in DOMAIN via : via[u] \in [rel : Nat, chain : SUBSET refs] /\ via[u].chain \subseteq refs
BY DEF Vias

\* What fires is a requirement of the constraints, from the frontier.
LEMMA FiresAre ==
    ASSUME Posed, NEW c, NEW refs
    PROVE  /\ Fires(c, refs) \subseteq Nat \X Nat
           /\ \A f \in Fires(c, refs) :
                 /\ f[2] \in Requirements /\ f[2] \in Edges /\ <<HR, f[2]>> \in refs
                 /\ f[1] = Edge(f[2]).from /\ f[1] \in c.front /\ MayHop(f[2], c.via)
                 /\ Edge(f[2]).to \in Ids
<1>1. Requirements \subseteq Edges
  BY DEF Requirements
<1>2. ASSUME NEW f \in Fires(c, refs)
      PROVE  \E i \in Requirements : f = <<Edge(i).from, i>> /\ <<HR, i>> \in refs /\ Edge(i).from \in c.front /\ MayHop(i, c.via)
  BY DEF Fires
<1>3. ASSUME NEW f \in Fires(c, refs)
      PROVE  /\ f \in Nat \X Nat /\ f[2] \in Requirements /\ f[2] \in Edges /\ <<HR, f[2]>> \in refs
             /\ f[1] = Edge(f[2]).from /\ f[1] \in c.front /\ MayHop(f[2], c.via)
             /\ Edge(f[2]).to \in Ids
  <2>1. PICK i \in Requirements : f = <<Edge(i).from, i>> /\ <<HR, i>> \in refs /\ Edge(i).from \in c.front /\ MayHop(i, c.via)
    BY <1>2
  <2>2. f[1] = Edge(i).from /\ f[2] = i /\ i \in Edges
    BY <1>1, <2>1
  <2>3. Edge(i).from \in Ids /\ Edge(i).to \in Ids /\ i \in Nat /\ Ids \subseteq Nat
    BY <2>2, EdgesAreEdges DEF Posed
  <2> QED BY <2>1, <2>2, <2>3
<1> QED BY <1>3

LEMMA RoundStep ==
    ASSUME Posed, NEW refs, NEW c \in Rounds(refs)
    PROVE  /\ NextRound(c, refs) \in Rounds(refs)
           /\ c.front = {} => NextRound(c, refs) = c
           /\ c.front # {} /\ Missing(c, refs) # {} =>
                NextRound(c, refs) = [front |-> {}, via |-> c.via, blocked |-> "missing-target",
                                      refs |-> ChainTo(c, First(Missing(c, refs)))]
           /\ c.front # {} /\ Missing(c, refs) = {} =>
                NextRound(c, refs) = [front |-> Found(c, refs),
                                      via |-> [u \in DOMAIN c.via \cup Found(c, refs) |->
                                                 IF u \in DOMAIN c.via THEN c.via[u] ELSE ViaFor(c, refs, u)],
                                      blocked |-> c.blocked, refs |-> c.refs]
<1> DEFINE via == [u \in DOMAIN c.via \cup Found(c, refs) |-> IF u \in DOMAIN c.via THEN c.via[u] ELSE ViaFor(c, refs, u)]
<1>1. /\ c = [front |-> c.front, via |-> c.via, blocked |-> c.blocked, refs |-> c.refs]
      /\ c.front \in SUBSET Ids /\ c.via \in Vias(refs) /\ c.blocked \in {Nil, "missing-target"} /\ c.refs \in SUBSET refs
      /\ c.front \subseteq DOMAIN c.via
  BY DEF Rounds
<1>2. CASE c.front = {}
  BY <1>2 DEF NextRound
<1>3. ASSUME NEW f \in Fires(c, refs) PROVE ChainTo(c, f) \in SUBSET refs
  <2>1. <<HR, f[2]>> \in refs /\ f[1] \in DOMAIN c.via
    BY <1>1, FiresAre
  <2>2. c.via[f[1]].chain \subseteq refs
    BY <1>1, <2>1, ViasAre
  <2> QED BY <2>1, <2>2 DEF ChainTo
<1>4. CASE c.front # {} /\ Missing(c, refs) # {}
  <2> DEFINE chain == ChainTo(c, First(Missing(c, refs)))
             d == [front |-> {}, via |-> c.via, blocked |-> "missing-target", refs |-> chain]
  <2>1. Missing(c, refs) \subseteq Fires(c, refs)
    BY DEF Missing
  <2>2. First(Missing(c, refs)) \in Missing(c, refs)
    BY <1>4, <2>1, FiresAre, FirstOfPairs
  <2>3. chain \in SUBSET refs
    BY <1>3, <2>1, <2>2
  <2> HIDE DEF chain
  <2>4. Grown(c, refs) = [c EXCEPT !.front = {}, !.blocked = "missing-target", !.refs = chain]
    BY <1>4, GrownIs DEF chain
  <2>5. Grown(c, refs) = d
    BY <1>1, <2>4
  <2>6. d \in Rounds(refs)
    BY <1>1, <2>3 DEF Rounds
  <2> QED BY <1>4, <2>5, <2>6 DEF NextRound, chain
<1>5. CASE c.front # {} /\ Missing(c, refs) = {}
  <2> DEFINE d == [front |-> Found(c, refs), via |-> via, blocked |-> c.blocked, refs |-> c.refs]
  <2>1. Found(c, refs) \in SUBSET Ids
    <3>1. \A f \in Fires(c, refs) : Edge(f[2]).to \in Ids
      BY FiresAre
    <3> QED BY <3>1 DEF Found
  <2>2. ASSUME NEW u \in Found(c, refs) PROVE ViaFor(c, refs, u) \in [rel : Nat, chain : SUBSET refs]
    <3> DEFINE S == {f \in Fires(c, refs) : Edge(f[2]).to = u}
    <3>1. S # {} /\ S \subseteq Fires(c, refs)
      BY <2>2 DEF Found
    <3>2. First(S) \in S
      <4>1. S \subseteq Nat \X Nat
        BY <3>1, FiresAre
      <4> HIDE DEF S
      <4> QED BY <3>1, <4>1, FirstOfPairs
    <3>3. By(c, refs, u) \in Fires(c, refs)
      BY <3>2 DEF By
    <3>4. Edge(By(c, refs, u)[2]).rel \in Nat
      BY <3>3, FiresAre, EdgesAreEdges
    <3>5. ChainTo(c, By(c, refs, u)) \in SUBSET refs
      BY <1>3, <3>3
    <3> QED BY <3>4, <3>5 DEF ViaFor
  <2>3. DOMAIN c.via \in SUBSET Ids /\ \A u \in DOMAIN c.via : c.via[u] \in [rel : Nat, chain : SUBSET refs]
    BY <1>1, ViasAre
  <2>4. via \in [DOMAIN c.via \cup Found(c, refs) -> [rel : Nat, chain : SUBSET refs]]
    BY <2>2, <2>3
  <2>5. via \in Vias(refs) /\ DOMAIN via = DOMAIN c.via \cup Found(c, refs)
    BY <2>1, <2>3, <2>4 DEF Vias
  <2>6. Grown(c, refs) = [c EXCEPT !.front = Found(c, refs), !.via = via]
    BY <1>5, GrownIs
  <2> HIDE DEF via
  <2>7. Grown(c, refs) = d
    BY <1>1, <2>6
  <2>8. d \in Rounds(refs)
    BY <1>1, <2>1, <2>5 DEF Rounds
  <2> QED BY <1>5, <2>7, <2>8 DEF NextRound, via
<1> QED BY <1>2, <1>4, <1>5

LEMMA ClosureRounds ==
    ASSUME Posed, NEW seeds \in SUBSET Ids, NEW refs
    PROVE  \E round : /\ Iterates(round, Rounds(refs), Round(seeds), [c \in Rounds(refs) |-> NextRound(c, refs)])
                      /\ Closure(seeds, refs) = round[Cardinality(Ids) + 1]
<1> DEFINE V == Rounds(refs)
           G == [c \in V |-> NextRound(c, refs)]
           round == CHOOSE round : AreRounds(round, seeds, refs)
<1>1. G \in [V -> V]
  BY RoundStep
<1>2. Round(seeds) \in V
  <2> DEFINE via == [u \in seeds |-> [rel |-> NoRel, chain |-> {}]]
  <2>1. via \in [seeds -> [rel : Nat, chain : SUBSET refs]]
    BY DEF NoRel
  <2>2. via \in Vias(refs) /\ DOMAIN via = seeds
    BY <2>1 DEF Vias
  <2> HIDE DEF via
  <2>3. [front |-> seeds, via |-> via, blocked |-> Nil, refs |-> {}] \in Rounds(refs)
    BY <2>2 DEF Rounds
  <2> QED BY <2>3 DEF Round, via
<1>3. PICK f : Iterates(f, V, Round(seeds), G)
  <2> HIDE DEF V, G
  <2> QED BY <1>1, <1>2, Recursion
<1>4. AreRounds(f, seeds, refs)
  <2>1. f \in [Nat -> V] /\ f[0] = Round(seeds)
    BY <1>3 DEF Iterates
  <2>2. ASSUME NEW n \in Nat, n # 0 PROVE f[n] = NextRound(f[n - 1], refs)
    <3>1. n - 1 \in Nat /\ (n - 1) + 1 = n
      BY <2>2
    <3>2. f[(n - 1) + 1] = G[f[n - 1]]
      <4> HIDE DEF G, V
      <4> QED BY <1>3, <3>1 DEF Iterates
    <3>3. f[n - 1] \in V
      BY <2>1, <3>1
    <3> QED BY <3>1, <3>2, <3>3
  <2> QED BY <2>1, <2>2 DEF AreRounds
<1>5. AreRounds(round, seeds, refs)
  BY <1>4
<1> HIDE DEF round
<1>6. round[0] = Round(seeds) /\ \A n \in Nat : round[n + 1] = NextRound(round[n], refs)
  <2>1. \A n \in Nat : n + 1 \in Nat /\ n + 1 # 0 /\ (n + 1) - 1 = n
    OBVIOUS
  <2>2. \A n \in Nat : round[n] = IF n = 0 THEN Round(seeds) ELSE NextRound(round[n - 1], refs)
    BY <1>5 DEF AreRounds
  <2>3. round[0] = Round(seeds)
    BY <2>2
  <2>4. ASSUME NEW n \in Nat PROVE round[n + 1] = NextRound(round[n], refs)
    <3>1. round[n + 1] = NextRound(round[(n + 1) - 1], refs)
      BY <2>1, <2>2
    <3> QED BY <2>1, <3>1
  <2> QED BY <2>3, <2>4
<1> DEFINE T == {n \in Nat : round[n] \in V}
<1>7. Nat \subseteq T
  <2>1. 0 \in T
    BY <1>2, <1>6
  <2>2. ASSUME NEW n \in Nat, n \in T PROVE n + 1 \in T
    <3>1. NextRound(round[n], refs) \in Rounds(refs)
      BY <2>2, RoundStep
    <3> QED BY <1>6, <3>1
  <2> HIDE DEF T
  <2> QED BY <2>1, <2>2, Induction
<1>8. round \in [Nat -> V]
  <2>1. round = [n \in Nat |-> round[n]]
    BY <1>5 DEF AreRounds
  <2> QED BY <1>7, <2>1
<1>9. Iterates(round, V, Round(seeds), G)
  BY <1>6, <1>8 DEF Iterates
<1> QED BY <1>9, ClosureIs DEF round

\* What holds after n rounds. A unit the frontier has passed has its transitive requirements met, and
\* as long as there is a frontier, each round has found another unit.
Closing(c, seeds, refs, n) ==
    /\ c \in Rounds(refs) /\ seeds \subseteq DOMAIN c.via
    /\ c.blocked # Nil => c.front = {}
    /\ c.blocked = Nil =>
          \A i \in Requirements :
             <<HR, i>> \in refs /\ Semantics(i).traversal = "transitive" /\ Edge(i).from \in DOMAIN c.via \ c.front =>
                Edge(i).to \in DOMAIN c.via
    /\ c.front # {} => Cardinality(DOMAIN c.via) >= n + 1

LEMMA ClosingInit ==
    ASSUME Posed, NEW seeds \in SUBSET Ids, NEW refs, Round(seeds) \in Rounds(refs)
    PROVE  Closing(Round(seeds), seeds, refs, 0)
<1>1. /\ DOMAIN Round(seeds).via = seeds /\ Round(seeds).front = seeds /\ Round(seeds).blocked = Nil
  BY DEF Round
<1>2. IsFiniteSet(seeds)
  BY FS_Subset DEF Posed
<1>3. seeds # {} => Cardinality(seeds) >= 0 + 1
  BY <1>2, FS_EmptySet, FS_CardinalityType
<1> QED BY <1>1, <1>3 DEF Closing

LEMMA ClosingStep ==
    ASSUME Posed, NEW seeds \in SUBSET Ids, NEW refs, NEW n \in Nat, NEW c, Closing(c, seeds, refs, n)
    PROVE  Closing(NextRound(c, refs), seeds, refs, n + 1)
<1> DEFINE d == NextRound(c, refs)
<1>1. c \in Rounds(refs) /\ c.front \subseteq DOMAIN c.via /\ DOMAIN c.via \in SUBSET Ids
  BY ViasAre DEF Closing, Rounds
<1>2. d \in Rounds(refs)
  BY <1>1, RoundStep
<1>3. CASE c.front = {}
  <2>1. d = c
    BY <1>1, <1>3, RoundStep
  <2> HIDE DEF d
  <2> QED BY <1>3, <2>1 DEF Closing, d
<1>4. CASE c.front # {} /\ Missing(c, refs) # {}
  <2>1. d.front = {} /\ d.via = c.via /\ d.blocked # Nil
    <3>1. NextRound(c, refs) = [front |-> {}, via |-> c.via, blocked |-> "missing-target",
                                refs |-> ChainTo(c, First(Missing(c, refs)))]
      BY <1>1, <1>4, RoundStep
    <3> QED BY <3>1 DEF Nil
  <2> HIDE DEF d
  <2> QED BY <1>2, <2>1 DEF Closing, d
<1>5. CASE c.front # {} /\ Missing(c, refs) = {}
  <2>1. d.front = Found(c, refs) /\ DOMAIN d.via = DOMAIN c.via \cup Found(c, refs) /\ d.blocked = c.blocked
    <3> DEFINE via == [u \in DOMAIN c.via \cup Found(c, refs) |-> IF u \in DOMAIN c.via THEN c.via[u] ELSE ViaFor(c, refs, u)]
    <3>1. NextRound(c, refs) = [front |-> Found(c, refs), via |-> via, blocked |-> c.blocked, refs |-> c.refs]
      BY <1>1, <1>5, RoundStep
    <3>2. DOMAIN via = DOMAIN c.via \cup Found(c, refs)
      OBVIOUS
    <3> HIDE DEF via
    <3> QED BY <3>1, <3>2
  <2> HIDE DEF d
  <2>2. c.blocked = Nil
    BY <1>5 DEF Closing
  <2>3. Found(c, refs) \cap DOMAIN c.via = {}
    BY DEF Found
  <2>4. ASSUME NEW i \in Requirements, <<HR, i>> \in refs, Semantics(i).traversal = "transitive",
               Edge(i).from \in DOMAIN d.via \ d.front
        PROVE  Edge(i).to \in DOMAIN d.via
    <3>1. Edge(i).from \in DOMAIN c.via
      BY <2>1, <2>4
    <3>2. CASE Edge(i).from \in c.front
      <4> DEFINE f == <<Edge(i).from, i>>
      <4>1. f \in Fires(c, refs) /\ f[2] = i
        BY <2>4, <3>2 DEF Fires, MayHop
      <4>2. Edge(i).to \in Found(c, refs) \/ Edge(i).to \in DOMAIN c.via
        BY <4>1 DEF Found
      <4> QED BY <2>1, <4>2
    <3>3. CASE Edge(i).from \notin c.front
      BY <2>1, <2>2, <2>4, <3>1, <3>3 DEF Closing
    <3> QED BY <3>2, <3>3
  <2>5. ASSUME d.front # {} PROVE Cardinality(DOMAIN d.via) >= n + 1 + 1
    <3>1. PICK u \in Found(c, refs) : TRUE
      BY <2>1, <2>5
    <3>2. IsFiniteSet(DOMAIN c.via) /\ DOMAIN d.via \in SUBSET Ids
      BY <1>1, <1>2, FS_Subset, ViasAre DEF Posed, Rounds
    <3>3. Cardinality(DOMAIN c.via \cup {u}) = Cardinality(DOMAIN c.via) + 1
      BY <2>3, <3>1, <3>2, FS_AddElement
    <3>4. IsFiniteSet(DOMAIN d.via) /\ DOMAIN c.via \cup {u} \in SUBSET (DOMAIN d.via)
      BY <2>1, <3>1, <3>2, FS_Subset DEF Posed
    <3>5. Cardinality(DOMAIN c.via \cup {u}) <= Cardinality(DOMAIN d.via)
      BY <3>4, FS_Subset
    <3>6. Cardinality(DOMAIN c.via) >= n + 1
      BY <1>5 DEF Closing
    <3>7. Cardinality(DOMAIN c.via) \in Nat /\ Cardinality(DOMAIN d.via) \in Nat
      BY <3>2, <3>4, FS_CardinalityType
    <3> QED BY <3>3, <3>5, <3>6, <3>7
  <2>6. seeds \subseteq DOMAIN d.via
    BY <2>1 DEF Closing
  <2> QED BY <1>2, <2>1, <2>2, <2>4, <2>5, <2>6 DEF Closing, d
<1> QED BY <1>3, <1>4, <1>5

\* A closure that is not blocked holds its seeds and is closed under transitive requirements.
LEMMA ClosureHolds ==
    ASSUME Posed, NEW seeds \in SUBSET Ids, NEW refs
    PROVE  LET c == Closure(seeds, refs)
           IN  /\ c \in Rounds(refs) /\ DOMAIN c.via \in SUBSET Ids /\ seeds \subseteq DOMAIN c.via /\ c.front = {}
               /\ c.blocked = Nil =>
                     \A i \in Requirements :
                        <<HR, i>> \in refs /\ Semantics(i).traversal = "transitive" /\ Edge(i).from \in DOMAIN c.via =>
                           Edge(i).to \in DOMAIN c.via
<1> DEFINE V == Rounds(refs)
           G == [c \in V |-> NextRound(c, refs)]
           N == Cardinality(Ids)
<1>1. PICK round : Iterates(round, V, Round(seeds), G) /\ Closure(seeds, refs) = round[N + 1]
  BY ClosureRounds
<1>2. round[0] = Round(seeds) /\ \A n \in Nat : round[n] \in V /\ round[n + 1] = G[round[n]]
  <2> HIDE DEF V, G
  <2> QED BY <1>1 DEF Iterates
<1>3. \A n \in Nat : round[n + 1] = NextRound(round[n], refs)
  BY <1>2
<1> DEFINE T == {n \in Nat : Closing(round[n], seeds, refs, n)}
<1>4. Nat \subseteq T
  <2>1. 0 \in T
    BY <1>2, ClosingInit
  <2>2. \A n \in Nat : n \in T => n + 1 \in T
    BY <1>3, ClosingStep
  <2> HIDE DEF T
  <2> QED BY <2>1, <2>2, Induction
<1> DEFINE c == round[N + 1]
<1>5. N \in Nat
  BY FS_CardinalityType DEF Posed
<1>6. Closing(c, seeds, refs, N + 1)
  BY <1>4, <1>5
<1> HIDE DEF c
<1>7. c \in Rounds(refs) /\ DOMAIN c.via \in SUBSET Ids
  BY <1>6, ViasAre DEF Closing, Rounds
<1>8. c.front = {}
  <2>1. Cardinality(DOMAIN c.via) <= N /\ IsFiniteSet(DOMAIN c.via)
    BY <1>7, FS_Subset DEF Posed
  <2>2. Cardinality(DOMAIN c.via) \in Nat
    BY <2>1, FS_CardinalityType
  <2>3. ~(Cardinality(DOMAIN c.via) >= N + 1 + 1)
    BY <1>5, <2>1, <2>2
  <2> QED BY <1>6, <2>3 DEF Closing
<1>9. Closure(seeds, refs) = c
  BY <1>1 DEF c
<1> QED BY <1>6, <1>7, <1>8, <1>9 DEF Closing

-----------------------------------------------------------------------------
(* What is evaluated, and that nothing of it changes while a request is served *)

Hits(S, refs) == {i \in Prohibitions : <<HP, i>> \in refs /\ {Edge(i).from, Edge(i).to} \subseteq S}
Denials(S, refs) == {u \in Policies : <<RP, u>> \in refs /\ u \in S /\ request.label[u] # "open"}

LEMMA VerdictIs ==
    ASSUME NEW c, NEW refs
    PROVE  /\ Verdict(c, refs).included = DOMAIN c.via
           /\ Verdict(c, refs).blocked = Nil =>
                 /\ c.blocked = Nil /\ Hits(DOMAIN c.via, refs) = {} /\ Denials(DOMAIN c.via, refs) = {}
                 /\ RejectedCycles(DOMAIN c.via, Arcs(DOMAIN c.via, refs)) = {}
<1> DEFINE included == DOMAIN c.via
           chain(u) == c.via[u].chain
           hits == Hits(included, refs)
           denials == Denials(included, refs)
           arcs == Arcs(included, refs)
           cycles == RejectedCycles(included, arcs)
           i == Least(hits)
           u == Least(denials)
           C == CHOOSE D \in cycles : \A F \in cycles : Least(D) <= Least(F)
           hitRefs == {<<HP, i>>} \cup chain(Edge(i).from) \cup chain(Edge(i).to)
           denialRefs == {<<RP, u>>} \cup chain(u)
           cycleRefs == ({ORD} \X Within(C, arcs)) \cup UNION {chain(v) : v \in C}
<1>1. Verdict(c, refs) =
         IF c.blocked # Nil THEN Blocked(included, c.blocked, c.refs)
         ELSE IF hits # {} THEN Blocked(included, "hard-prohibition", hitRefs)
         ELSE IF denials # {} THEN Blocked(included, "runtime-policy", denialRefs)
         ELSE IF cycles # {} THEN Blocked(included, "cycle", cycleRefs)
         ELSE Blocked(included, Nil, {})
  BY DEF Verdict, Hits, Denials
<1> HIDE DEF included, hits, denials, cycles, hitRefs, denialRefs, cycleRefs
<1>2. Verdict(c, refs).included = included /\ (Verdict(c, refs).blocked = Nil => c.blocked = Nil /\ hits = {} /\ denials = {} /\ cycles = {})
  BY <1>1 DEF Blocked, Nil
<1> QED BY <1>2 DEF included, hits, denials, cycles

\* The solver's operators with the request r in the place of the one being solved.
Given(r) == INSTANCE ConstraintSolver WITH request <- r

LEMMA ModelStays ==
    ASSUME request' = request
    PROVE  /\ Refs' = Refs /\ Prohibitions' = Prohibitions /\ Policies' = Policies /\ Requirements' = Requirements
           /\ MissingSeeds' = MissingSeeds
           /\ \A i : Edge(i)' = Edge(i) /\ Semantics(i)' = Semantics(i)
BY DEF Refs, Prohibitions, Policies, Requirements, Orderings, MissingSeeds, Edges, Edge, Semantics

LEMMA ClosureIsGiven ==
    /\ \A r, seeds, refs : request = r => Closure(seeds, refs) = Given(r)!Closure(seeds, refs)
    /\ \A r : request = r => Closure(request.mandatory, Refs) = Given(r)!Closure(r.mandatory, Given(r)!Refs)
<1>1. \A seeds, refs : Closure(seeds, refs) = Given(request)!Closure(seeds, refs)
  BY DEF Closure, Grown, Requirements, Semantics, Edge, Edges, MayHop, Nil, NoRel, First, Lex, HR, Cardinality, IsFiniteSet,
         Given!Closure, Given!Grown, Given!Requirements, Given!Semantics, Given!Edge, Given!Edges, Given!MayHop, Given!Nil,
         Given!NoRel, Given!First, Given!Lex, Given!HR, Given!Cardinality, Given!IsFiniteSet
<1>2. Refs = Given(request)!Refs
  BY DEF Refs, Prohibitions, Policies, Requirements, Orderings, MissingSeeds, Edges, Edge, Semantics, HP, RP, HR, ORD,
         Given!Refs, Given!Prohibitions, Given!Policies, Given!Requirements, Given!Orderings, Given!MissingSeeds, Given!Edges,
         Given!Edge, Given!Semantics, Given!HP, Given!RP, Given!HR, Given!ORD
<1>3. Closure(request.mandatory, Refs) = Given(request)!Closure(request.mandatory, Refs)
  BY <1>1
<1> QED BY <1>1, <1>2, <1>3

LEMMA VerdictIsGiven == \A r, c, refs : request = r => Verdict(c, refs) = Given(r)!Verdict(c, refs)
<1>1. \A c, refs : Verdict(c, refs) = Given(request)!Verdict(c, refs)
  BY DEF Verdict, Semantics, Edge, Edges, Nil, HP, RP, ORD, Cardinality, IsFiniteSet, Blocked, Prohibitions, Policies, Arcs,
         RejectedCycles, Components, CyclePolicy, Within, Orderings, Before, After, Least,
         Given!Verdict, Given!Semantics, Given!Edge, Given!Edges, Given!Nil, Given!HP, Given!RP, Given!ORD, Given!Cardinality,
         Given!IsFiniteSet, Given!Blocked, Given!Prohibitions, Given!Policies, Given!Arcs, Given!RejectedCycles,
         Given!Components, Given!CyclePolicy, Given!Within, Given!Orderings, Given!Before, Given!After, Given!Least
<1> QED BY <1>1

LEMMA ClosureNext ==
    (/\ \A r, seeds, refs : request = r => Closure(seeds, refs) = Given(r)!Closure(seeds, refs)
     /\ \A r : request = r => Closure(request.mandatory, Refs) = Given(r)!Closure(r.mandatory, Given(r)!Refs))'
BY ClosureIsGiven, PTL

LEMMA VerdictNext == (\A r, c, refs : request = r => Verdict(c, refs) = Given(r)!Verdict(c, refs))'
BY VerdictIsGiven, PTL

LEMMA EvaluationStays ==
    ASSUME request' = request
    PROVE  /\ \A seeds, refs : Evaluation(seeds, refs)' = Evaluation(seeds, refs)
           /\ Evaluation(request.mandatory, Refs)' = Evaluation(request.mandatory, Refs)
<1>1. \A seeds, refs : Closure(seeds, refs)' = Closure(seeds, refs)
  BY ClosureIsGiven, ClosureNext
<1>2. Closure(request.mandatory, Refs)' = Closure(request.mandatory, Refs)
  BY ClosureIsGiven, ClosureNext
<1>3. \A c, refs : Verdict(c, refs)' = Verdict(c, refs)
  BY VerdictIsGiven, VerdictNext
<1>4. \A seeds, refs : Evaluation(seeds, refs)' = Evaluation(seeds, refs)
  BY <1>1, <1>3 DEF Evaluation
<1>5. Evaluation(request.mandatory, Refs)' = Evaluation(request.mandatory, Refs)
  BY <1>2, <1>3, ModelStays DEF Evaluation
<1> QED BY <1>4, <1>5

LEMMA CostIs == \A S : Cost(S) = Sum(request.cost, S)
BY DEF Cost, Sum
LEMMA CostNext == Cost(selected)' = Sum(request'.cost, selected')
BY DEF Cost, Sum, MapThenSumSet, MapThenFoldSet

-----------------------------------------------------------------------------
(* The heaviest preference is one of the pool *)

LEMMA FiniteImage ==
    ASSUME NEW S, IsFiniteSet(S), NEW f, DOMAIN f = S
    PROVE  IsFiniteSet({f[x] : x \in S})
<1> DEFINE T == {f[x] : x \in S}
           g == [x \in S |-> f[x]]
<1>1. g \in Surjection(S, T)
  BY DEF Surjection
<1> HIDE DEF g, T
<1>2. IsFiniteSet(T)
  BY <1>1, FS_Surjection
<1> QED BY <1>2 DEF T

LEMMA PreferencesAre ==
    ASSUME Posed
    PROVE  /\ IsFiniteSet(Preferences)
           /\ \A p \in Preferences : p.target \in Ids /\ p.target \in Nat /\ p.ref \in Nat /\ p.weight \in Int
<1> DEFINE S == {j \in Edges : Semantics(j).selection = "expand" /\ Semantics(j).traversal # "none"}
           f == [i \in S |-> [ref |-> i, subject |-> {Edge(i).from}, target |-> Edge(i).to, weight |-> Edge(i).weight, rel |-> Edge(i).rel]]
           D == DOMAIN request.prefer
           g == [u \in D |-> [ref |-> 1000 + u, subject |-> {}, target |-> u, weight |-> request.prefer[u], rel |-> NoRel]]
<1>1. EdgePreferences = {f[i] : i \in S}
  BY DEF EdgePreferences
<1>2. Ids \subseteq Nat
  BY DEF Posed
<1>3. PICK E \in SUBSET Ids : request.prefer \in [E -> Int]
  BY DEF Posed, WellPosed
<1>4. D \in SUBSET Ids /\ D \in SUBSET Nat /\ \A u \in D : request.prefer[u] \in Int
  BY <1>2, <1>3
<1>5. IsFiniteSet(D) /\ IsFiniteSet(S)
  BY <1>4, EdgesAreEdges, FS_Subset DEF Posed
<1>6. IsFiniteSet(EdgePreferences)
  <2>1. DOMAIN f = S
    OBVIOUS
  <2> HIDE DEF f
  <2> QED BY <1>1, <1>5, <2>1, FiniteImage
<1>7. RequestPreferences = {g[u] : u \in D}
  <2>1. \A u \in D : g[u] = [ref |-> 1000 + u, subject |-> {}, target |-> u, weight |-> request.prefer[u], rel |-> NoRel]
    OBVIOUS
  <2> DEFINE Asked(u) == [ref |-> 1000 + u, subject |-> {}, target |-> u, weight |-> request.prefer[u], rel |-> NoRel]
  <2>2. RequestPreferences = {Asked(u) : u \in D}
    BY DEF RequestPreferences
  <2> HIDE DEF g, Asked
  <2>3. \A u \in D : g[u] = Asked(u)
    BY <2>1 DEF Asked
  <2> QED BY <2>2, <2>3
<1>8. IsFiniteSet(RequestPreferences)
  <2>1. DOMAIN g = D
    OBVIOUS
  <2> HIDE DEF g
  <2> QED BY <1>7, <1>5, <2>1, FiniteImage
<1>9. IsFiniteSet(Preferences)
  BY <1>6, <1>8, FS_Union DEF Preferences
<1>10. ASSUME NEW p \in EdgePreferences PROVE p.target \in Ids /\ p.target \in Nat /\ p.ref \in Nat /\ p.weight \in Int
  <2>1. PICK i \in Edges : p = [ref |-> i, subject |-> {Edge(i).from}, target |-> Edge(i).to, weight |-> Edge(i).weight, rel |-> Edge(i).rel]
    BY DEF EdgePreferences
  <2> QED BY <1>2, <2>1, EdgesAreEdges
<1>11. ASSUME NEW p \in RequestPreferences PROVE p.target \in Ids /\ p.target \in Nat /\ p.ref \in Nat /\ p.weight \in Int
  <2>1. PICK u \in D : p = [ref |-> 1000 + u, subject |-> {}, target |-> u, weight |-> request.prefer[u], rel |-> NoRel]
    BY DEF RequestPreferences
  <2>2. u \in Ids /\ u \in Nat /\ request.prefer[u] \in Int /\ 1000 + u \in Nat
    BY <1>4
  <2> QED BY <2>1, <2>2
<1> QED BY <1>9, <1>10, <1>11 DEF Preferences

LEMMA PreferredIsInPool ==
    ASSUME Posed, Pool # {}
    PROVE  Preferred \in Pool /\ Preferred.target \in Ids
<1> DEFINE R == {pair \in Pool \X Pool : Heavier(pair[1], pair[2])}
<1>1. IsFiniteSet(Pool) /\ \A p \in Pool : p.target \in Ids /\ p.target \in Nat /\ p.ref \in Nat /\ p.weight \in Int
  <2>1. Pool \in SUBSET Preferences
    BY DEF Pool
  <2> QED BY <2>1, PreferencesAre, FS_Subset
<1>2. ASSUME NEW x \in Pool, NEW y \in Pool PROVE <<x, y>> \in R \/ <<y, x>> \in R
  <2>1. /\ x.target \in Nat /\ x.ref \in Nat /\ x.weight \in Int
        /\ y.target \in Nat /\ y.ref \in Nat /\ y.weight \in Int
    BY <1>1
  <2>2. Heavier(x, y) \/ Heavier(y, x)
    BY <2>1 DEF Heavier, Lex
  <2> QED BY <2>2
<1>3. ASSUME NEW x \in Pool, NEW y \in Pool, NEW z \in Pool, <<x, y>> \in R, <<y, z>> \in R PROVE <<x, z>> \in R
  <2>1. /\ x.target \in Nat /\ x.ref \in Nat /\ x.weight \in Int
        /\ y.target \in Nat /\ y.ref \in Nat /\ y.weight \in Int
        /\ z.target \in Nat /\ z.ref \in Nat /\ z.weight \in Int
    BY <1>1
  <2>2. Heavier(x, y) /\ Heavier(y, z)
    BY <1>3
  <2>3. Heavier(x, z)
    BY <2>1, <2>2 DEF Heavier, Lex
  <2> QED BY <2>3
<1> HIDE DEF R
<1>4. PICK x \in Pool : \A y \in Pool : <<x, y>> \in R
  BY <1>1, <1>2, <1>3, Foremost
<1>5. \A y \in Pool : Heavier(x, y)
  BY <1>4 DEF R
<1>6. Preferred \in Pool
  BY <1>5 DEF Preferred
<1> QED BY <1>1, <1>6

-----------------------------------------------------------------------------
(* What is selected is lawful *)

\* The closure of a selection: what it selects besides, and that it is lawful.
LEMMA EvaluationIsLawful ==
    ASSUME Posed, NEW seeds \in SUBSET Ids, Evaluation(seeds, Refs).blocked = Nil
    PROVE  LET S == Evaluation(seeds, Refs).included
           IN  /\ S \in SUBSET Ids /\ seeds \subseteq S /\ ~Unlawful(S)
               /\ \A i \in Requirements :
                     Edge(i).from \in S /\ Semantics(i).traversal = "transitive" => Edge(i).to \in S
<1> DEFINE c == Closure(seeds, Refs)
           S == DOMAIN c.via
<1>1. Evaluation(seeds, Refs) = Verdict(c, Refs)
  BY DEF Evaluation
<1> HIDE DEF c
<1>2. Evaluation(seeds, Refs).included = S /\ c.blocked = Nil /\ Hits(S, Refs) = {} /\ Denials(S, Refs) = {}
  BY <1>1, VerdictIs
<1>3. S \in SUBSET Ids /\ seeds \subseteq S
  BY ClosureHolds DEF c
<1>4. ASSUME NEW i \in Requirements, Edge(i).from \in S, Semantics(i).traversal = "transitive" PROVE Edge(i).to \in S
  <2>1. <<HR, i>> \in Refs
    BY DEF Refs
  <2> QED BY <1>2, <1>4, <2>1, ClosureHolds DEF c
<1>5. ~Unlawful(S)
  <2>1. ASSUME NEW i \in Prohibitions, {Edge(i).from, Edge(i).to} \subseteq S PROVE FALSE
    <3>1. <<HP, i>> \in Refs
      BY DEF Refs
    <3> QED BY <1>2, <2>1, <3>1 DEF Hits
  <2>2. ASSUME NEW u \in Policies \cap S, request.label[u] # "open" PROVE FALSE
    <3>1. <<RP, u>> \in Refs
      BY DEF Refs
    <3> QED BY <1>2, <2>2, <3>1 DEF Denials
  <2> QED BY <2>1, <2>2 DEF Unlawful
<1> HIDE DEF S
<1> QED BY <1>2, <1>3, <1>4, <1>5

LawfulInv ==
    /\ request \in Requests /\ selected \in SUBSET Ids
    /\ phase \in {"prefer", "planned"} => MissingSeeds = {}
    /\ SelectionIsLawful

\* What LawfulInv says of the next state while the same request is served.
LEMMA LawfulNext ==
    ASSUME request' = request, request \in Requests, selected' \in SUBSET Ids, MissingSeeds = {},
           ~Unlawful(selected'), request.mandatory \subseteq selected',
           \A i \in Requirements : Edge(i).from \in selected' /\ Semantics(i).traversal = "transitive" => Edge(i).to \in selected',
           consumed' = Sum(request.cost, selected'),
           consumed' <= request.budget \/ selected' = Evaluation(request.mandatory, Refs).included
    PROVE  LawfulInv'
<1>1. ~Unlawful(selected)'
  BY ModelStays DEF Unlawful
<1>2. Cost(selected)' = Sum(request.cost, selected')
  BY CostNext
<1>3. (\A i \in Requirements : Edge(i).from \in selected /\ Semantics(i).traversal = "transitive" => Edge(i).to \in selected)'
  BY ModelStays
<1>4. (selected = Evaluation(request.mandatory, Refs).included)' <=> selected' = Evaluation(request.mandatory, Refs).included
  BY EvaluationStays
<1>5. MissingSeeds' = {}
  BY ModelStays
<1> QED BY <1>1, <1>2, <1>3, <1>4, <1>5 DEF LawfulInv, SelectionIsLawful

LEMMA PosedRequest == Solvable /\ request \in Requests => Posed
BY DEF Solvable, Posed

LEMMA LawfulStep ==
    ASSUME Solvable, LawfulInv, [SolverNext]_solverVars
    PROVE  LawfulInv'
<1>1. Posed
  BY PosedRequest DEF LawfulInv
<1>2. request' = request
  BY DEF SolverNext, solverVars, Reject, Admit, Block, Delete, Refute, Prefer, Plan
<1>3. CASE /\ UNCHANGED <<selected, consumed>>
           /\ phase' \in {"prefer", "planned"} => phase \in {"prefer", "planned"}
  <2>1. CASE phase' \notin {"prefer", "planned"}
    BY <1>2, <1>3, <2>1 DEF LawfulInv, SelectionIsLawful
  <2>2. CASE phase' \in {"prefer", "planned"}
    <3>1. phase \in {"prefer", "planned"}
      BY <1>3, <2>2
    <3>2. /\ MissingSeeds = {} /\ ~Unlawful(selected) /\ request.mandatory \subseteq selected
          /\ \A i \in Requirements : Edge(i).from \in selected /\ Semantics(i).traversal = "transitive" => Edge(i).to \in selected
          /\ consumed = Sum(request.cost, selected)
          /\ consumed <= request.budget \/ selected = Evaluation(request.mandatory, Refs).included
      BY <3>1, CostIs DEF LawfulInv, SelectionIsLawful
    <3>3. selected' = selected /\ consumed' = consumed /\ request \in Requests /\ selected \in SUBSET Ids
      BY <1>3 DEF LawfulInv
    <3> QED BY <1>2, <3>2, <3>3, LawfulNext
  <2> QED BY <2>1, <2>2
<1>4. CASE Reject
  BY <1>3, <1>4 DEF Reject
<1>5. CASE Admit
  <2> DEFINE e == Evaluation(request.mandatory, Refs)
  <2>1. request.mandatory \in SUBSET Ids /\ MissingSeeds = {}
    BY <1>1, <1>5 DEF Admit, MissingSeeds, Posed, WellPosed
  <2>2. e.blocked = Nil /\ selected' = e.included /\ consumed' = Cost(e.included)
    BY <1>5 DEF Admit
  <2>3. /\ e.included \in SUBSET Ids /\ request.mandatory \subseteq e.included /\ ~Unlawful(e.included)
        /\ \A i \in Requirements : Edge(i).from \in e.included /\ Semantics(i).traversal = "transitive" => Edge(i).to \in e.included
    BY <1>1, <2>1, <2>2, EvaluationIsLawful
  <2>4. consumed' = Sum(request.cost, selected')
    BY <2>2, CostIs
  <2> HIDE DEF e
  <2>5. selected' = Evaluation(request.mandatory, Refs).included
    BY <2>2 DEF e
  <2>6. request \in Requests
    BY DEF LawfulInv
  <2> QED BY <1>2, <2>1, <2>2, <2>3, <2>4, <2>5, <2>6, LawfulNext
<1>6. CASE Block
  BY <1>3, <1>6 DEF Block
<1>7. CASE Delete
  BY <1>3, <1>7 DEF Delete
<1>8. CASE Refute
  BY <1>3, <1>8 DEF Refute
<1>9. CASE Prefer
  <2> DEFINE p == Preferred
             e == Evaluation(selected \cup {p.target}, Refs)
             additions == e.included \ selected
  <2>1. phase = "prefer" /\ phase' = phase /\ Settle(p, e) /\ p.target \in Ids
    BY <1>1, <1>9, PreferredIsInPool DEF Prefer
  <2>2. CASE UNCHANGED <<selected, consumed>>
    BY <1>3, <2>1, <2>2
  <2>3. CASE /\ e.blocked = Nil /\ consumed + Cost(additions) <= request.budget
             /\ selected' = selected \cup additions /\ consumed' = consumed + Cost(additions)
    <3>1. selected \cup {p.target} \in SUBSET Ids
      BY <2>1 DEF LawfulInv
    <3>2. /\ e.included \in SUBSET Ids /\ selected \cup {p.target} \subseteq e.included /\ ~Unlawful(e.included)
          /\ \A i \in Requirements : Edge(i).from \in e.included /\ Semantics(i).traversal = "transitive" => Edge(i).to \in e.included
      BY <1>1, <2>3, <3>1, EvaluationIsLawful
    <3> HIDE DEF p, e
    <3>3. selected' = e.included
      BY <2>3, <3>2
    <3>4. additions \in SUBSET Ids /\ selected \in SUBSET Ids /\ selected \cap additions = {}
      BY <3>2
    <3>5. IsFiniteSet(Ids) /\ request.cost \in [Ids -> Nat]
      BY <1>1 DEF Posed, WellPosed
    <3> HIDE DEF additions
    <3>6. Sum(request.cost, selected \cup additions) = Sum(request.cost, selected) + Sum(request.cost, additions)
      BY <3>4, <3>5, SumOfUnion
    <3>7. consumed = Sum(request.cost, selected) /\ request.mandatory \subseteq selected /\ MissingSeeds = {} /\ request \in Requests
      BY <2>1, CostIs DEF LawfulInv, SelectionIsLawful
    <3>8. consumed' = Sum(request.cost, selected') /\ consumed' <= request.budget
      BY <2>3, <3>6, <3>7, CostIs
    <3> QED BY <1>2, <3>2, <3>3, <3>7, <3>8, LawfulNext
  <2> HIDE DEF p, e
  <2> QED BY <2>1, <2>2, <2>3 DEF Settle, Refuse
<1>10. CASE Plan
  BY <1>3, <1>10 DEF Plan
<1>11. CASE UNCHANGED solverVars
  BY <1>3, <1>11 DEF solverVars
<1> QED BY <1>4, <1>5, <1>6, <1>7, <1>8, <1>9, <1>10, <1>11 DEF SolverNext

\* No weight admits what a hard constraint forbids, for every model, every graph and every request that
\* is well posed: solve()'s loop over preferences keeps what is selected lawful, closed and within the
\* budget the mandatory closure leaves.
THEOREM SelectionStaysLawful == Solvable => (SolverSpec => []SelectionIsLawful)
<1> SUFFICES ASSUME Solvable PROVE SolverSpec => []SelectionIsLawful
  OBVIOUS
<1>1. SolverInit => LawfulInv
  BY DEF SolverInit, Begin, LawfulInv, SelectionIsLawful
<1>2. LawfulInv /\ [SolverNext]_solverVars => LawfulInv'
  BY LawfulStep
<1>3. LawfulInv => SelectionIsLawful
  BY DEF LawfulInv
<1> QED BY <1>1, <1>2, <1>3, PTL DEF SolverSpec

-----------------------------------------------------------------------------
(* The components of an order: what comes before one another *)

\* The parts of Components.
Squared(p) == p \cup {<<g[1][1], g[2][2]>> : g \in {h \in p \X p : h[1][2] = h[2][1]}}
Pairs(arcs) == {<<Before(i), After(i)>> : i \in arcs}
Linked(nodes, arcs) ==
    (CHOOSE paths : paths = [n \in Nat |-> IF n = 0 THEN Pairs(arcs) ELSE Squared(paths[n - 1])])[Cardinality(nodes)]
Peers(a, nodes, arcs) ==
    {b \in nodes : a = b \/ (<<a, b>> \in Linked(nodes, arcs) /\ <<b, a>> \in Linked(nodes, arcs))}

LEMMA ComponentsAre == \A nodes, arcs : Components(nodes, arcs) = {Peers(a, nodes, arcs) : a \in nodes}
BY DEF Components, Peers, Linked, Pairs, Squared

\* A successor of a set is in it.
Closed(S, E) == \A x, y : x \in S /\ <<x, y>> \in E => y \in S
From(p, a) == {b \in {g[2] : g \in p} : <<a, b>> \in p}

LEMMA SquaredIs ==
    ASSUME NEW nodes, NEW p \in SUBSET (nodes \X nodes)
    PROVE  /\ Squared(p) \in SUBSET (nodes \X nodes) /\ p \subseteq Squared(p)
           /\ \A a, b, c : <<a, b>> \in p /\ <<b, c>> \in p => <<a, c>> \in Squared(p)
           /\ \A a, c : <<a, c>> \in Squared(p) => <<a, c>> \in p \/ \E b : <<a, b>> \in p /\ <<b, c>> \in p
<1>1. ASSUME NEW a, NEW b, NEW c, <<a, b>> \in p, <<b, c>> \in p PROVE <<a, c>> \in Squared(p)
  <2> DEFINE g == <<<<a, b>>, <<b, c>>>>
  <2>1. g \in {h \in p \X p : h[1][2] = h[2][1]} /\ <<g[1][1], g[2][2]>> = <<a, c>>
    BY <1>1
  <2> QED BY <2>1 DEF Squared
<1>2. ASSUME NEW a, NEW c, <<a, c>> \in Squared(p), <<a, c>> \notin p
      PROVE  \E b : <<a, b>> \in p /\ <<b, c>> \in p
  <2>1. PICK g \in p \X p : g[1][2] = g[2][1] /\ <<a, c>> = <<g[1][1], g[2][2]>>
    BY <1>2 DEF Squared
  <2>2. g[1] = <<a, g[1][2]>> /\ g[2] = <<g[1][2], c>>
    BY <2>1
  <2> QED BY <2>1, <2>2
<1>3. Squared(p) \in SUBSET (nodes \X nodes) /\ p \subseteq Squared(p)
  BY DEF Squared
<1> QED BY <1>1, <1>2, <1>3

\* After n rounds: a set closed under the arcs is closed under the paths, and the units reached from a
\* are closed under the arcs, or there are more than n of them.
Doubling(p, E, nodes, n) ==
    /\ p \in SUBSET (nodes \X nodes) /\ E \subseteq p
    /\ \A S : Closed(S, E) => Closed(S, p)
    /\ \A a \in nodes : Closed(From(p, a), E) \/ Cardinality(From(p, a)) >= n + 1

LEMMA FromIs ==
    ASSUME NEW nodes, IsFiniteSet(nodes), NEW p \in SUBSET (nodes \X nodes), NEW a
    PROVE  /\ From(p, a) \in SUBSET nodes /\ IsFiniteSet(From(p, a)) /\ Cardinality(From(p, a)) \in Nat
           /\ Cardinality(From(p, a)) <= Cardinality(nodes)
           /\ \A b : b \in From(p, a) <=> <<a, b>> \in p
<1>1. \A b : b \in From(p, a) <=> <<a, b>> \in p
  <2>1. \A b : <<a, b>> \in p => <<a, b>>[2] = b
    OBVIOUS
  <2> QED BY <2>1 DEF From
<1>2. From(p, a) \in SUBSET nodes
  <2>1. ASSUME NEW b \in From(p, a) PROVE b \in nodes
    <3>1. <<a, b>> \in nodes \X nodes
      BY <1>1
    <3> QED BY <3>1
  <2> QED BY <2>1
<1> QED BY <1>1, <1>2, FS_Subset, FS_CardinalityType

LEMMA DoublingStep ==
    ASSUME NEW nodes, IsFiniteSet(nodes), NEW E, NEW n \in Nat, NEW p, Doubling(p, E, nodes, n)
    PROVE  Doubling(Squared(p), E, nodes, n + 1)
<1> DEFINE q == Squared(p)
<1>1. p \in SUBSET (nodes \X nodes) /\ q \in SUBSET (nodes \X nodes) /\ E \subseteq p /\ p \subseteq q
  BY SquaredIs DEF Doubling
<1>2. \A a, b, c : <<a, b>> \in p /\ <<b, c>> \in p => <<a, c>> \in q
  BY <1>1, SquaredIs
<1>3. \A a, c : <<a, c>> \in q => <<a, c>> \in p \/ \E b : <<a, b>> \in p /\ <<b, c>> \in p
  BY <1>1, SquaredIs
<1> HIDE DEF q
<1>4. ASSUME NEW S, Closed(S, E) PROVE Closed(S, q)
  <2>1. Closed(S, p)
    BY <1>4 DEF Doubling
  <2> QED BY <1>3, <2>1 DEF Closed
<1>5. ASSUME NEW a \in nodes, ~Closed(From(q, a), E) PROVE Cardinality(From(q, a)) >= n + 1 + 1
  <2>1. From(p, a) \subseteq From(q, a)
    BY <1>1, FromIs
  <2>2. ~Closed(From(p, a), E)
    <3>1. ASSUME Closed(From(p, a), E) PROVE From(q, a) = From(p, a)
      <4>1. Closed(From(p, a), p)
        BY <3>1 DEF Doubling
      <4>2. ASSUME NEW c \in From(q, a) PROVE c \in From(p, a)
        <5>1. <<a, c>> \in q
          BY <1>1, FromIs
        <5>2. \A x : x \in From(p, a) <=> <<a, x>> \in p
          BY <1>1, FromIs
        <5> QED BY <1>3, <4>1, <5>1, <5>2 DEF Closed
      <4> QED BY <2>1, <4>2
    <3> QED BY <1>5, <3>1
  <2>3. PICK x, y : x \in From(p, a) /\ <<x, y>> \in E /\ y \notin From(p, a)
    BY <2>2 DEF Closed
  <2>4. y \in From(q, a)
    <3>1. <<a, x>> \in p /\ <<x, y>> \in p
      BY <1>1, <2>3, FromIs
    <3>2. <<a, y>> \in q
      BY <1>2, <3>1
    <3> QED BY <1>1, <3>2, FromIs
  <2>5. Cardinality(From(p, a)) >= n + 1
    BY <2>2 DEF Doubling
  <2>6. /\ IsFiniteSet(From(p, a)) /\ IsFiniteSet(From(q, a))
        /\ Cardinality(From(p, a)) \in Nat /\ Cardinality(From(q, a)) \in Nat
    BY <1>1, FromIs
  <2>7. Cardinality(From(p, a) \cup {y}) = Cardinality(From(p, a)) + 1
    BY <2>3, <2>6, FS_AddElement
  <2>8. From(p, a) \cup {y} \in SUBSET From(q, a)
    BY <2>1, <2>4
  <2>9. Cardinality(From(p, a) \cup {y}) <= Cardinality(From(q, a))
    BY <2>6, <2>8, FS_Subset
  <2> QED BY <2>5, <2>6, <2>7, <2>9
<1> QED BY <1>1, <1>4, <1>5 DEF Doubling, q

\* The links are the arcs and whatever follows from them.
LEMMA LinkedIs ==
    ASSUME NEW nodes, IsFiniteSet(nodes), NEW arcs, \A i \in arcs : Before(i) \in nodes /\ After(i) \in nodes
    PROVE  LET L == Linked(nodes, arcs)
           IN  /\ L \in SUBSET (nodes \X nodes)
               /\ \A i \in arcs : <<Before(i), After(i)>> \in L
               /\ \A a, b, c : <<a, b>> \in L /\ <<b, c>> \in L => <<a, c>> \in L
               /\ \A S : Closed(S, Pairs(arcs)) => Closed(S, L)
<1> DEFINE V == SUBSET (nodes \X nodes)
           E == Pairs(arcs)
           G == [p \in V |-> Squared(p)]
           N == Cardinality(nodes)
           paths == CHOOSE f : f = [n \in Nat |-> IF n = 0 THEN E ELSE Squared(f[n - 1])]
<1>1. E \in V
  BY DEF Pairs
<1>2. G \in [V -> V]
  BY SquaredIs
<1>3. PICK f : Iterates(f, V, E, G)
  <2> HIDE DEF V, E, G
  <2> QED BY <1>1, <1>2, Recursion
<1>4. f = [n \in Nat |-> IF n = 0 THEN E ELSE Squared(f[n - 1])]
  <2>1. f \in [Nat -> V] /\ f[0] = E
    <3> HIDE DEF V, E, G
    <3> QED BY <1>3 DEF Iterates
  <2>2. ASSUME NEW n \in Nat, n # 0 PROVE f[n] = Squared(f[n - 1])
    <3>1. n - 1 \in Nat /\ (n - 1) + 1 = n
      BY <2>2
    <3>2. f[(n - 1) + 1] = G[f[n - 1]]
      <4> HIDE DEF V, E, G
      <4> QED BY <1>3, <3>1 DEF Iterates
    <3>3. f[n - 1] \in V
      <4> HIDE DEF V, E, G
      <4> QED BY <2>1, <3>1
    <3> QED BY <3>1, <3>2, <3>3
  <2> HIDE DEF E
  <2> QED BY <2>1, <2>2
<1>5. paths = [n \in Nat |-> IF n = 0 THEN E ELSE Squared(paths[n - 1])]
  <2> HIDE DEF E
  <2> QED BY <1>4
<1> HIDE DEF paths
<1>6. paths[0] = E /\ \A n \in Nat : paths[n + 1] = Squared(paths[n])
  <2> HIDE DEF E
  <2>1. \A n \in Nat : n + 1 \in Nat /\ n + 1 # 0 /\ (n + 1) - 1 = n
    OBVIOUS
  <2>2. \A n \in Nat : paths[n] = IF n = 0 THEN E ELSE Squared(paths[n - 1])
    BY <1>5
  <2>3. paths[0] = E
    BY <2>2
  <2>4. ASSUME NEW n \in Nat PROVE paths[n + 1] = Squared(paths[n])
    <3>1. paths[n + 1] = Squared(paths[(n + 1) - 1])
      BY <2>1, <2>2
    <3> QED BY <2>1, <3>1
  <2> QED BY <2>3, <2>4
<1> DEFINE T == {n \in Nat : Doubling(paths[n], E, nodes, n)}
<1>7. Nat \subseteq T
  <2>1. Doubling(E, E, nodes, 0)
    <3>1. ASSUME NEW a \in nodes, ~Closed(From(E, a), E) PROVE Cardinality(From(E, a)) >= 0 + 1
      <4> HIDE DEF E
      <4>1. From(E, a) # {}
        BY <3>1 DEF Closed
      <4>2. IsFiniteSet(From(E, a)) /\ Cardinality(From(E, a)) \in Nat
        BY <1>1, FromIs
      <4>3. Cardinality(From(E, a)) # 0
        BY <4>1, <4>2, FS_EmptySet
      <4> QED BY <4>2, <4>3
    <3> HIDE DEF E
    <3> QED BY <1>1, <3>1 DEF Doubling
  <2>2. \A n \in Nat : n \in T => n + 1 \in T
    <3> HIDE DEF E
    <3> QED BY <1>6, DoublingStep
  <2>3. 0 \in T
    BY <1>6, <2>1
  <2> HIDE DEF T
  <2> QED BY <2>2, <2>3, Induction
<1>8. N \in Nat
  BY FS_CardinalityType
<1> DEFINE L == paths[N]
<1>9. Doubling(L, E, nodes, N)
  BY <1>7, <1>8
<1> HIDE DEF L, E
<1>10. ASSUME NEW a, NEW b, NEW c, <<a, b>> \in L, <<b, c>> \in L PROVE <<a, c>> \in L
  <2>1. L \in SUBSET (nodes \X nodes)
    BY <1>9 DEF Doubling
  <2>2. a \in nodes
    BY <1>10, <2>1
  <2>3. Cardinality(From(L, a)) \in Nat /\ Cardinality(From(L, a)) <= N /\ \A x : x \in From(L, a) <=> <<a, x>> \in L
    BY <2>1, FromIs
  <2>4. ~(Cardinality(From(L, a)) >= N + 1)
    BY <1>8, <2>3
  <2>5. Closed(From(L, a), E)
    BY <1>9, <2>2, <2>4 DEF Doubling
  <2>6. Closed(From(L, a), L)
    BY <1>9, <2>5 DEF Doubling
  <2> QED BY <1>10, <2>3, <2>6 DEF Closed
<1>11. \A i \in arcs : <<Before(i), After(i)>> \in L
  BY <1>9 DEF Doubling, E, Pairs
<1>12. L \in SUBSET (nodes \X nodes)
  BY <1>9 DEF Doubling
<1>13. L = Linked(nodes, arcs)
  BY DEF L, paths, Linked, E
<1>14. \A S : Closed(S, Pairs(arcs)) => Closed(S, L)
  BY <1>9 DEF Doubling, E
<1> QED BY <1>10, <1>11, <1>12, <1>13, <1>14

\* The components share no unit, and every unit is in one, with its peers.
LEMMA ComponentsPartition ==
    ASSUME NEW nodes, IsFiniteSet(nodes), NEW arcs, \A i \in arcs : Before(i) \in nodes /\ After(i) \in nodes
    PROVE  /\ \A C \in Components(nodes, arcs) : C \in SUBSET nodes /\ C # {}
           /\ \A a \in nodes : a \in Peers(a, nodes, arcs) /\ Peers(a, nodes, arcs) \in Components(nodes, arcs)
           /\ \A C \in Components(nodes, arcs) : \A a \in C : C = Peers(a, nodes, arcs)
<1> DEFINE L == Linked(nodes, arcs)
           P(a) == Peers(a, nodes, arcs)
<1>1. \A a, b, c : <<a, b>> \in L /\ <<b, c>> \in L => <<a, c>> \in L
  BY LinkedIs
<1>2. \A a \in nodes : P(a) \in SUBSET nodes /\ a \in P(a)
  BY DEF Peers
<1>3. ASSUME NEW a \in nodes, NEW b \in P(a) PROVE P(a) = P(b)
  <2>1. b \in nodes /\ (a = b \/ (<<a, b>> \in L /\ <<b, a>> \in L))
    BY <1>3 DEF Peers
  <2>2. CASE a = b
    BY <2>2
  <2>3. CASE <<a, b>> \in L /\ <<b, a>> \in L
    <3>1. ASSUME NEW c PROVE c \in P(a) <=> c \in P(b)
      <4>1. c \in P(a) <=> c \in nodes /\ (a = c \/ (<<a, c>> \in L /\ <<c, a>> \in L))
        BY DEF Peers
      <4>2. c \in P(b) <=> c \in nodes /\ (b = c \/ (<<b, c>> \in L /\ <<c, b>> \in L))
        BY DEF Peers
      <4> QED BY <1>1, <2>1, <2>3, <4>1, <4>2
    <3> QED BY <3>1
  <2> QED BY <2>1, <2>2, <2>3
<1>4. Components(nodes, arcs) = {P(a) : a \in nodes}
  BY ComponentsAre
<1> HIDE DEF P
<1>5. ASSUME NEW C \in Components(nodes, arcs) PROVE C \in SUBSET nodes /\ C # {} /\ \A a \in C : C = P(a)
  BY <1>2, <1>3, <1>4
<1> QED BY <1>2, <1>4, <1>5 DEF P

\* Of finitely many units, strictly ordered by R, one has none before it.
LEMMA Minimal ==
    ASSUME NEW S, IsFiniteSet(S), S # {}, NEW R, \A x \in S : <<x, x>> \notin R,
           \A x, y, z \in S : <<x, y>> \in R /\ <<y, z>> \in R => <<x, z>> \in R
    PROVE  \E x \in S : \A y \in S : <<y, x>> \notin R
<1> DEFINE D(x) == {y \in S : <<y, x>> \in R}
           T == {Cardinality(D(x)) : x \in S}
<1>1. \A x \in S : IsFiniteSet(D(x)) /\ D(x) \in SUBSET S
  BY FS_Subset
<1>2. \A x \in S : Cardinality(D(x)) \in Nat
  <2> HIDE DEF D
  <2> QED BY <1>1, FS_CardinalityType
<1>3. T \subseteq Nat /\ T # {}
  <2> HIDE DEF D
  <2> QED BY <1>2
<1>4. PICK t \in T : \A u \in T : t <= u
  <2> HIDE DEF T
  <2> QED BY <1>3, LeastNat
<1>5. PICK x \in S : \A y \in S : Cardinality(D(x)) <= Cardinality(D(y))
  <2> HIDE DEF D
  <2> QED BY <1>4
<1>6. ASSUME NEW y \in S, <<y, x>> \in R PROVE FALSE
  <2>1. D(y) \in SUBSET D(x) /\ y \in D(x) /\ y \notin D(y)
    BY <1>6
  <2> HIDE DEF D
  <2>2. Cardinality(D(y)) <= Cardinality(D(x)) /\ Cardinality(D(x)) <= Cardinality(D(y))
    BY <1>1, <1>5, <2>1, FS_Subset
  <2>3. Cardinality(D(x)) = Cardinality(D(y))
    BY <1>2, <2>2
  <2>4. D(x) = D(y)
    BY <1>1, <2>1, <2>3, FS_Subset
  <2> QED BY <2>1, <2>4
<1> QED BY <1>6

\* As long as a unit is not placed, a component is ready: what is placed is whole components.
Ready(nodes, arcs, done) ==
    {C \in Components(nodes, arcs) : C \cap done = {} /\ \A i \in arcs : After(i) \in C => Before(i) \in C \cup done}

LEMMA SomeIsReady ==
    ASSUME NEW nodes, IsFiniteSet(nodes), NEW arcs, \A i \in arcs : Before(i) \in nodes /\ After(i) \in nodes,
           NEW done \in SUBSET nodes, done # nodes,
           \A C \in Components(nodes, arcs) : C \subseteq done \/ C \cap done = {}
    PROVE  Ready(nodes, arcs, done) # {}
<1> DEFINE L == Linked(nodes, arcs)
           R == {g \in nodes \X nodes : <<g[1], g[2]>> \in L /\ <<g[2], g[1]>> \notin L}
           S == nodes \ done
           P(a) == Peers(a, nodes, arcs)
<1>1. /\ L \in SUBSET (nodes \X nodes) /\ \A i \in arcs : <<Before(i), After(i)>> \in L
      /\ \A a, b, c : <<a, b>> \in L /\ <<b, c>> \in L => <<a, c>> \in L
  BY LinkedIs
<1>2. \A x, y \in nodes : <<x, y>> \in R <=> <<x, y>> \in L /\ <<y, x>> \notin L
  OBVIOUS
<1>3. IsFiniteSet(S) /\ S # {} /\ S \subseteq nodes
  BY FS_Subset
<1> HIDE DEF R, S, L
<1>4. PICK x \in S : \A y \in S : <<y, x>> \notin R
  <2>1. \A y \in S : <<y, y>> \notin R
    BY <1>2, <1>3
  <2>2. \A u, v, w \in S : <<u, v>> \in R /\ <<v, w>> \in R => <<u, w>> \in R
    BY <1>1, <1>2, <1>3
  <2> QED BY <1>3, <2>1, <2>2, Minimal
<1>5. P(x) \in Components(nodes, arcs) /\ x \in P(x) /\ x \in nodes /\ x \notin done
  BY <1>3, ComponentsPartition DEF S
<1>6. P(x) \cap done = {}
  BY <1>5
<1>7. ASSUME NEW i \in arcs, After(i) \in P(x), Before(i) \notin P(x), Before(i) \notin done PROVE FALSE
  <2>1. Before(i) \in nodes /\ Before(i) \in S /\ <<Before(i), After(i)>> \in L
    BY <1>1, <1>7 DEF S
  <2>2. After(i) = x \/ (<<x, After(i)>> \in L /\ <<After(i), x>> \in L)
    BY <1>7 DEF Peers, L
  <2>3. <<Before(i), x>> \in L
    BY <1>1, <2>1, <2>2
  <2>4. <<x, Before(i)>> \notin L
    BY <1>7, <2>1, <2>3 DEF Peers, L
  <2> QED BY <1>2, <1>4, <1>5, <2>1, <2>3, <2>4
<1> HIDE DEF P
<1> QED BY <1>5, <1>6, <1>7 DEF Ready

\* Sorted lists a set of numbers, each once.
Rank(C, u) == Cardinality({v \in C : v <= u})

LEMMA RankIs ==
    ASSUME NEW C, C \subseteq Nat, IsFiniteSet(C)
    PROVE  /\ \A u \in C : Rank(C, u) \in 1..Cardinality(C)
           /\ \A u, w \in C : Rank(C, u) = Rank(C, w) => u = w
           /\ \A k \in 1..Cardinality(C) : \E u \in C : Rank(C, u) = k
<1> DEFINE B(u) == {v \in C : v <= u}
           n == Cardinality(C)
           r == [u \in C |-> Rank(C, u)]
<1>1. \A u \in C : B(u) \in SUBSET C /\ IsFiniteSet(B(u)) /\ u \in B(u)
  BY FS_Subset
<1>2. n \in Nat
  BY FS_CardinalityType
<1>3. ASSUME NEW u \in C PROVE Rank(C, u) \in 1..n
  <2>1. Rank(C, u) = Cardinality(B(u))
    BY DEF Rank
  <2> HIDE DEF B
  <2>2. Cardinality(B(u)) \in Nat /\ Cardinality(B(u)) # 0 /\ Cardinality(B(u)) <= n
    BY <1>1, FS_CardinalityType, FS_EmptySet, FS_Subset
  <2> QED BY <1>2, <2>1, <2>2
<1>4. ASSUME NEW u \in C, NEW w \in C, u < w PROVE Rank(C, u) # Rank(C, w)
  <2>1. B(u) \in SUBSET B(w) /\ w \in B(w) /\ w \notin B(u)
    <3>1. u \in Nat /\ w \in Nat /\ \A v \in C : v \in Nat
      OBVIOUS
    <3>2. \A v \in C : v <= u => v <= w
      BY <1>4, <3>1
    <3>3. w <= w /\ ~(w <= u)
      BY <1>4, <3>1
    <3> QED BY <3>2, <3>3
  <2>2. Rank(C, u) = Cardinality(B(u)) /\ Rank(C, w) = Cardinality(B(w))
    BY DEF Rank
  <2> HIDE DEF B
  <2>3. Cardinality(B(u)) # Cardinality(B(w))
    BY <1>1, <2>1, FS_Subset
  <2> QED BY <2>2, <2>3
<1>5. ASSUME NEW u \in C, NEW w \in C, Rank(C, u) = Rank(C, w) PROVE u = w
  <2>1. u \in Nat /\ w \in Nat
    OBVIOUS
  <2>2. ~(u < w) /\ ~(w < u)
    BY <1>4, <1>5
  <2> QED BY <2>1, <2>2
<1>6. r \in Injection(C, 1..n)
  BY <1>3, <1>5 DEF Injection, IsInjective
<1>7. r \in Surjection(C, 1..n)
  <2>1. IsFiniteSet(1..n) /\ Cardinality(1..n) = n
    BY <1>2, FS_Interval
  <2> HIDE DEF r, n
  <2>2. Cardinality(C) = Cardinality(1..n) <=> r \in Surjection(C, 1..n)
    BY <1>6, <2>1, FS_Injection
  <2> QED BY <2>1, <2>2 DEF n
<1>8. ASSUME NEW k \in 1..n PROVE \E u \in C : Rank(C, u) = k
  <2>1. \E u \in C : r[u] = k
    <3> HIDE DEF r
    <3> QED BY <1>7 DEF Surjection
  <2> QED BY <2>1
<1> QED BY <1>3, <1>5, <1>8

LEMMA SortedIs ==
    ASSUME NEW C, C \subseteq Nat, IsFiniteSet(C)
    PROVE  /\ Sorted(C) \in [1..Cardinality(C) -> C]
           /\ {Sorted(C)[k] : k \in 1..Cardinality(C)} = C
<1> DEFINE n == Cardinality(C)
           At(k) == CHOOSE u \in C : Rank(C, u) = k
<1>1. Sorted(C) = [k \in 1..n |-> At(k)]
  BY DEF Sorted, Rank
<1>2. ASSUME NEW k \in 1..n PROVE At(k) \in C /\ Rank(C, At(k)) = k
  BY RankIs
<1> HIDE DEF At, n
<1>3. \A k \in 1..n : Sorted(C)[k] = At(k)
  BY <1>1
<1>4. ASSUME NEW u \in C PROVE \E k \in 1..n : Sorted(C)[k] = u
  <2>1. Rank(C, u) \in 1..n
    BY RankIs DEF n
  <2>2. At(Rank(C, u)) \in C /\ Rank(C, At(Rank(C, u))) = Rank(C, u)
    BY <1>2, <2>1
  <2>3. At(Rank(C, u)) = u
    BY <2>2, RankIs
  <2> QED BY <1>3, <2>1, <2>3
<1>5. Sorted(C) \in [1..n -> C]
  BY <1>1, <1>2
<1>6. {Sorted(C)[k] : k \in 1..n} = C
  BY <1>4, <1>5
<1> QED BY <1>5, <1>6 DEF n

\* One turn of orderUnits: the ready component with the least key is placed.
Chosen(ready) == CHOOSE C \in ready : \A D \in ready : Least(C) <= Least(D)
Place(nodes, arcs, p) ==
    IF Ready(nodes, arcs, p.units) = {} THEN p
    ELSE [units |-> p.units \cup Chosen(Ready(nodes, arcs, p.units)),
          order |-> p.order \o Sorted(Chosen(Ready(nodes, arcs, p.units)))]
Nothing == [units |-> {}, order |-> << >>]
ArePlaced(placed, nodes, arcs) ==
    placed = [n \in Nat |-> IF n = 0 THEN Nothing ELSE Place(nodes, arcs, placed[n - 1])]

LEMMA LoadOrderIs == \A nodes, arcs :
    LoadOrder(nodes, arcs) = (CHOOSE placed : ArePlaced(placed, nodes, arcs))[Cardinality(nodes)].order
BY DEF LoadOrder, ArePlaced, Place, Nothing, Ready, Chosen

LEMMA ChosenIs ==
    ASSUME NEW nodes \in SUBSET Nat, NEW ready, ready # {}, \A C \in ready : C \in SUBSET nodes /\ C # {}
    PROVE  Chosen(ready) \in ready
<1> DEFINE T == {Least(C) : C \in ready}
<1>1. ASSUME NEW C \in ready PROVE Least(C) \in Nat
  <2>1. C \subseteq Nat /\ C # {}
    OBVIOUS
  <2>2. \E x \in C : \A y \in C : x <= y
    BY <2>1, LeastNat
  <2>3. Least(C) \in C
    BY <2>2 DEF Least
  <2> QED BY <2>1, <2>3
<1>2. T \subseteq Nat /\ T # {}
  BY <1>1
<1>3. PICK t \in T : \A u \in T : t <= u
  <2> HIDE DEF T
  <2> QED BY <1>2, LeastNat
<1>4. \E C \in ready : \A D \in ready : Least(C) <= Least(D)
  BY <1>3
<1> QED BY <1>4 DEF Chosen

\* What is in an order: units once each, a unit after what comes before it or in one component with it.
Follows(o, nodes, arcs) ==
    \A j, k \in DOMAIN o, i \in arcs :
       Before(i) = o[j] /\ After(i) = o[k] /\ j >= k => \E C \in Components(nodes, arcs) : {o[j], o[k]} \subseteq C
InOrder(o, S, nodes, arcs) ==
    /\ S \in SUBSET nodes /\ o \in Seq(nodes) /\ Len(o) = Cardinality(S)
    /\ {o[k] : k \in DOMAIN o} = S
    /\ Follows(o, nodes, arcs)

\* After n rounds whole components are placed, after what comes before them, and they are all, or n units at least.
Placing(p, nodes, arcs, n) ==
    /\ InOrder(p.order, p.units, nodes, arcs)
    /\ \A C \in Components(nodes, arcs) : C \subseteq p.units \/ C \cap p.units = {}
    /\ \A i \in arcs : After(i) \in p.units => Before(i) \in p.units
    /\ p.units = nodes \/ Cardinality(p.units) >= n

LEMMA PlacingStep ==
    ASSUME NEW nodes \in SUBSET Nat, IsFiniteSet(nodes), NEW arcs, \A i \in arcs : Before(i) \in nodes /\ After(i) \in nodes,
           NEW n \in Nat, NEW p, Placing(p, nodes, arcs, n)
    PROVE  Placing(Place(nodes, arcs, p), nodes, arcs, n + 1)
<1> DEFINE S == p.units
           o == p.order
           ready == Ready(nodes, arcs, S)
           C == Chosen(ready)
           s == Sorted(C)
           q == Place(nodes, arcs, p)
<1>1. InOrder(o, S, nodes, arcs) /\ S \in SUBSET nodes /\ o \in Seq(nodes) /\ Len(o) = Cardinality(S) /\ {o[k] : k \in DOMAIN o} = S
  BY DEF Placing, InOrder
<1>2. /\ \A D \in Components(nodes, arcs) : D \subseteq S \/ D \cap S = {}
      /\ \A i \in arcs : After(i) \in S => Before(i) \in S
      /\ S = nodes \/ Cardinality(S) >= n
  BY DEF Placing
<1>3. CASE ready = {}
  <2>1. S = nodes
    BY <1>1, <1>2, <1>3, SomeIsReady
  <2>2. q = p
    BY <1>3 DEF Place
  <2> QED BY <1>1, <1>2, <2>1, <2>2 DEF Placing
<1>4. CASE ready # {}
  <2>1. q = [units |-> S \cup C, order |-> o \o s]
    BY <1>4 DEF Place
  <2>2. \A D \in ready : D \in Components(nodes, arcs) /\ D \in SUBSET nodes /\ D # {}
    BY ComponentsPartition DEF Ready
  <2>3. C \in ready
    <3> HIDE DEF ready, C
    <3> QED BY <1>4, <2>2, ChosenIs DEF C
  <2>4. /\ C \in Components(nodes, arcs) /\ C \in SUBSET nodes /\ C # {} /\ C \cap S = {}
        /\ \A i \in arcs : After(i) \in C => Before(i) \in C \cup S
    BY <2>2, <2>3 DEF Ready
  <2> HIDE DEF C, ready, S, o, q
  <2>5. IsFiniteSet(C) /\ IsFiniteSet(S) /\ Cardinality(C) \in Nat /\ Cardinality(S) \in Nat /\ Cardinality(C) # 0
    BY <1>1, <2>4, FS_Subset, FS_CardinalityType, FS_EmptySet
  <2>6. Cardinality(S \cup C) = Cardinality(S) + Cardinality(C)
    <3>1. S \cap C = {} /\ Cardinality(S \cap C) = 0
      BY <2>4, FS_EmptySet
    <3>2. Cardinality(S \cup C) = Cardinality(S) + Cardinality(C) - Cardinality(S \cap C)
      BY <2>5, FS_Union
    <3> QED BY <2>5, <3>1, <3>2
  <2>7. s \in [1..Cardinality(C) -> C] /\ {s[k] : k \in 1..Cardinality(C)} = C
    BY <2>4, <2>5, SortedIs
  <2> HIDE DEF s
  <2>8. s \in Seq(nodes) /\ Len(s) = Cardinality(C) /\ DOMAIN s = 1..Cardinality(C)
    <3>1. s \in [1..Cardinality(C) -> nodes]
      BY <2>4, <2>7
    <3> QED BY <2>5, <3>1
  <2>9. /\ o \o s \in Seq(nodes) /\ Len(o \o s) = Len(o) + Len(s)
        /\ \A k \in 1..(Len(o) + Len(s)) : (o \o s)[k] = IF k <= Len(o) THEN o[k] ELSE s[k - Len(o)]
    BY <1>1, <2>8, ConcatProperties
  <2> DEFINE t == o \o s
  <2>10. DOMAIN o = 1..Len(o) /\ DOMAIN t = 1..(Len(o) + Len(s)) /\ Len(o) \in Nat /\ Len(s) \in Nat
    BY <1>1, <2>8, <2>9, LenProperties
  <2> HIDE DEF t
  <2>11. ASSUME NEW k \in DOMAIN t
         PROVE  \/ k \in DOMAIN o /\ t[k] = o[k] /\ t[k] \in S
                \/ k \notin DOMAIN o /\ k > Len(o) /\ k - Len(o) \in 1..Cardinality(C) /\ t[k] = s[k - Len(o)] /\ t[k] \in C
    <3>1. CASE k <= Len(o)
      BY <1>1, <2>9, <2>10, <2>11, <3>1 DEF t
    <3>2. CASE k > Len(o)
      <4>1. k - Len(o) \in 1..Cardinality(C) /\ t[k] = s[k - Len(o)] /\ k \notin DOMAIN o
        BY <2>8, <2>9, <2>10, <2>11, <3>2 DEF t
      <4> QED BY <2>7, <3>2, <4>1
    <3> QED BY <2>10, <3>1, <3>2
  <2>12. {t[k] : k \in DOMAIN t} = S \cup C
    <3>1. ASSUME NEW u \in S PROVE \E k \in DOMAIN t : t[k] = u
      <4>1. PICK k \in DOMAIN o : o[k] = u
        BY <1>1
      <4>2. k \in DOMAIN t /\ k \in DOMAIN o
        BY <2>10
      <4> QED BY <2>10, <2>11, <4>1, <4>2
    <3>2. ASSUME NEW u \in C PROVE \E k \in DOMAIN t : t[k] = u
      <4>1. PICK k \in 1..Cardinality(C) : s[k] = u
        BY <2>7
      <4>2. k + Len(o) \in DOMAIN t /\ k + Len(o) \notin DOMAIN o /\ (k + Len(o)) - Len(o) = k
        BY <2>8, <2>10
      <4>3. t[k + Len(o)] = s[(k + Len(o)) - Len(o)]
        BY <2>11, <4>2
      <4> QED BY <4>1, <4>2, <4>3
    <3> QED BY <2>11, <3>1, <3>2
  <2>13. ASSUME NEW j \in DOMAIN t, NEW k \in DOMAIN t, NEW i \in arcs, Before(i) = t[j], After(i) = t[k], j >= k
         PROVE  \E D \in Components(nodes, arcs) : {t[j], t[k]} \subseteq D
    <3>1. CASE t[k] \in S
      <4>1. t[j] \in S
        BY <1>2, <2>13, <3>1
      <4>2. j \in DOMAIN o /\ k \in DOMAIN o /\ t[j] = o[j] /\ t[k] = o[k]
        BY <2>4, <2>11, <3>1, <4>1
      <4> QED BY <1>1, <2>13, <4>2 DEF InOrder, Follows
    <3>2. CASE t[k] \in C
      <4>1. k \notin DOMAIN o /\ j \notin DOMAIN o
        BY <2>4, <2>10, <2>11, <2>13, <3>2
      <4>2. t[j] \in C
        BY <2>11, <4>1
      <4> QED BY <2>4, <3>2, <4>2
    <3> QED BY <2>11, <3>1, <3>2
  <2>14. InOrder(t, S \cup C, nodes, arcs)
    <3>1. Len(t) = Cardinality(S \cup C) /\ t \in Seq(nodes)
      BY <1>1, <2>6, <2>8, <2>9 DEF t
    <3>2. Follows(t, nodes, arcs)
      BY <2>13 DEF Follows
    <3> QED BY <1>1, <2>4, <2>12, <3>1, <3>2 DEF InOrder
  <2>15. \A D \in Components(nodes, arcs) : D \subseteq S \cup C \/ D \cap (S \cup C) = {}
    <3>1. ASSUME NEW D \in Components(nodes, arcs), NEW u \in D, u \in C PROVE D = C
      BY <2>4, <3>1, ComponentsPartition
    <3> QED BY <1>2, <3>1
  <2>16. \A i \in arcs : After(i) \in S \cup C => Before(i) \in S \cup C
    BY <1>2, <2>4
  <2>17. S \cup C = nodes \/ Cardinality(S \cup C) >= n + 1
    <3>1. CASE S = nodes
      BY <2>4, <3>1
    <3>2. CASE Cardinality(S) >= n
      BY <2>5, <2>6, <3>2
    <3> QED BY <1>2, <3>1, <3>2
  <2>18. q.units = S \cup C /\ q.order = t
    BY <2>1 DEF t
  <2> QED BY <2>14, <2>15, <2>16, <2>17, <2>18 DEF Placing, q
<1> QED BY <1>3, <1>4

\* The order that orderUnits returns.
LEMMA LoadOrderHolds ==
    ASSUME NEW nodes \in SUBSET Nat, IsFiniteSet(nodes), NEW arcs, \A i \in arcs : Before(i) \in nodes /\ After(i) \in nodes
    PROVE  InOrder(LoadOrder(nodes, arcs), nodes, nodes, arcs)
<1> DEFINE V == [units : SUBSET nodes, order : Seq(nodes)]
           G == [p \in V |-> Place(nodes, arcs, p)]
           N == Cardinality(nodes)
           placed == CHOOSE placed : ArePlaced(placed, nodes, arcs)
<1>1. N \in Nat
  BY FS_CardinalityType
<1>2. Nothing \in V /\ Nothing.units = {} /\ Nothing.order = << >>
  BY DEF Nothing
<1>3. ASSUME NEW p \in V PROVE Place(nodes, arcs, p) \in V
  <2>1. CASE Ready(nodes, arcs, p.units) = {}
    BY <2>1 DEF Place
  <2>2. CASE Ready(nodes, arcs, p.units) # {}
    <3> DEFINE ready == Ready(nodes, arcs, p.units)
               C == Chosen(ready)
    <3>1. \A D \in ready : D \in SUBSET nodes /\ D # {}
      BY ComponentsPartition DEF Ready
    <3>2. C \in SUBSET nodes
      <4> HIDE DEF ready, G, V, N, placed
      <4>1. ready # {}
        BY <2>2 DEF ready
      <4>2. Chosen(ready) \in ready
        BY <3>1, <4>1, ChosenIs
      <4> QED BY <3>1, <4>2
    <3> HIDE DEF C
    <3>3. IsFiniteSet(C) /\ Cardinality(C) \in Nat
      BY <3>2, FS_Subset, FS_CardinalityType
    <3>4. Sorted(C) \in [1..Cardinality(C) -> nodes]
      BY <3>2, <3>3, SortedIs
    <3>5. Sorted(C) \in Seq(nodes)
      BY <3>3, <3>4
    <3>6. p.order \o Sorted(C) \in Seq(nodes)
      BY <3>5, ConcatProperties
    <3> QED BY <2>2, <3>2, <3>6 DEF Place, C
  <2> QED BY <2>1, <2>2
<1>4. G \in [V -> V]
  <2> HIDE DEF V
  <2> QED BY <1>3
<1>5. PICK f : Iterates(f, V, Nothing, G)
  <2> HIDE DEF V, G
  <2> QED BY <1>2, <1>4, Recursion
<1>6. ArePlaced(f, nodes, arcs)
  <2>1. f \in [Nat -> V] /\ f[0] = Nothing
    <3> HIDE DEF V, G
    <3> QED BY <1>5 DEF Iterates
  <2>2. ASSUME NEW n \in Nat, n # 0 PROVE f[n] = Place(nodes, arcs, f[n - 1])
    <3>1. n - 1 \in Nat /\ (n - 1) + 1 = n
      BY <2>2
    <3>2. f[(n - 1) + 1] = G[f[n - 1]]
      <4> HIDE DEF V, G
      <4> QED BY <1>5, <3>1 DEF Iterates
    <3>3. f[n - 1] \in V
      <4> HIDE DEF V, G
      <4> QED BY <2>1, <3>1
    <3> HIDE DEF V
    <3> QED BY <3>1, <3>2, <3>3
  <2> QED BY <2>1, <2>2 DEF ArePlaced
<1>7. ArePlaced(placed, nodes, arcs)
  BY <1>6
<1> HIDE DEF placed
<1>8. placed[0] = Nothing /\ \A n \in Nat : placed[n + 1] = Place(nodes, arcs, placed[n])
  <2>1. \A n \in Nat : n + 1 \in Nat /\ n + 1 # 0 /\ (n + 1) - 1 = n
    OBVIOUS
  <2>2. \A n \in Nat : placed[n] = IF n = 0 THEN Nothing ELSE Place(nodes, arcs, placed[n - 1])
    BY <1>7 DEF ArePlaced
  <2>3. placed[0] = Nothing
    BY <2>2
  <2>4. ASSUME NEW n \in Nat PROVE placed[n + 1] = Place(nodes, arcs, placed[n])
    <3>1. placed[n + 1] = Place(nodes, arcs, placed[(n + 1) - 1])
      BY <2>1, <2>2
    <3> QED BY <2>1, <3>1
  <2> QED BY <2>3, <2>4
<1> DEFINE T == {n \in Nat : Placing(placed[n], nodes, arcs, n)}
<1>9. Nat \subseteq T
  <2>1. Placing(Nothing, nodes, arcs, 0)
    <3>1. << >> \in Seq(nodes) /\ Len(<< >>) = 0 /\ DOMAIN << >> = {} /\ Cardinality({}) = 0
      BY FS_EmptySet
    <3>2. InOrder(<< >>, {}, nodes, arcs)
      BY <3>1 DEF InOrder, Follows
    <3>3. Cardinality({}) >= 0
      BY <3>1
    <3> QED BY <1>2, <3>2, <3>3 DEF Placing
  <2>2. 0 \in T
    BY <1>8, <2>1
  <2>3. \A n \in Nat : n \in T => n + 1 \in T
    BY <1>8, PlacingStep
  <2> HIDE DEF T
  <2> QED BY <2>2, <2>3, Induction
<1> DEFINE p == placed[N]
<1>10. Placing(p, nodes, arcs, N)
  BY <1>1, <1>9
<1> HIDE DEF p
<1>11. p.units = nodes
  <2>1. p.units \in SUBSET nodes
    BY <1>10 DEF Placing, InOrder
  <2>2. Cardinality(p.units) \in Nat /\ Cardinality(p.units) <= N
    BY <2>1, FS_Subset, FS_CardinalityType
  <2>3. CASE Cardinality(p.units) >= N
    <3>1. Cardinality(p.units) = N
      BY <1>1, <2>2, <2>3
    <3> QED BY <2>1, <3>1, FS_Subset
  <2> QED BY <1>10, <2>3 DEF Placing
<1>12. LoadOrder(nodes, arcs) = p.order
  BY LoadOrderIs DEF p, placed
<1> QED BY <1>10, <1>11, <1>12 DEF Placing

LEMMA ComponentsAreGiven == \A r, S, arcs : request = r =>
    Components(S, arcs) = Given(r)!Components(S, arcs) /\ CyclePolicy(S, arcs) = Given(r)!CyclePolicy(S, arcs)
<1>1. \A S, arcs : Components(S, arcs) = Given(request)!Components(S, arcs)
  BY DEF Components, Before, After, Semantics, Edge, Cardinality, IsFiniteSet,
         Given!Components, Given!Before, Given!After, Given!Semantics, Given!Edge, Given!Cardinality, Given!IsFiniteSet
<1>2. \A S, arcs : CyclePolicy(S, arcs) = Given(request)!CyclePolicy(S, arcs)
  BY DEF CyclePolicy, Within, Before, After, Semantics, Edge,
         Given!CyclePolicy, Given!Within, Given!Before, Given!After, Given!Semantics, Given!Edge
<1> QED BY <1>1, <1>2

LEMMA ComponentsNext == (\A r, S, arcs : request = r =>
    Components(S, arcs) = Given(r)!Components(S, arcs) /\ CyclePolicy(S, arcs) = Given(r)!CyclePolicy(S, arcs))'
BY ComponentsAreGiven, PTL

\* The order of a set of units is judged by the same model and graph as before.
LEMMA OrderStays ==
    ASSUME request' = request
    PROVE  /\ \A i : Before(i)' = Before(i) /\ After(i)' = After(i)
           /\ Arcs(selected, Refs)' = Arcs(selected', Refs)
           /\ \A S, arcs : Components(S, arcs)' = Components(S, arcs) /\ CyclePolicy(S, arcs)' = CyclePolicy(S, arcs)
           /\ Components(selected, Arcs(selected, Refs))' = Components(selected', Arcs(selected', Refs))
<1>1. \A i : Before(i)' = Before(i) /\ After(i)' = After(i)
  BY ModelStays DEF Before, After
<1>2. Orderings' = Orderings /\ Refs' = Refs
  BY ModelStays DEF Orderings, Edges
<1>3. Arcs(selected, Refs)' = Arcs(selected', Refs)
  BY <1>1, <1>2 DEF Arcs
<1>4. \A S, arcs : Components(S, arcs)' = Components(S, arcs) /\ CyclePolicy(S, arcs)' = CyclePolicy(S, arcs)
  BY ComponentsAreGiven, ComponentsNext
<1> QED BY <1>1, <1>3, <1>4

LEMMA ArcsAre ==
    ASSUME NEW S, NEW refs
    PROVE  \A i \in Arcs(S, refs) : Before(i) \in S /\ After(i) \in S
BY DEF Arcs

\* What is selected has no cycle that the model rejects, and an order that is planned respects it.
NoCycleIsRejected ==
    phase \in {"prefer", "planned"} => RejectedCycles(selected, Arcs(selected, Refs)) = {}
OrderInv == LawfulInv /\ NoCycleIsRejected /\ OrderIsRespected

LEMMA OrderNext ==
    ASSUME request' = request, RejectedCycles(selected', Arcs(selected', Refs)) = {}
    PROVE  NoCycleIsRejected'
<1> DEFINE S == selected'
           A == Arcs(S, Refs)
<1>1. /\ Arcs(selected, Refs)' = A /\ Components(selected, Arcs(selected, Refs))' = Components(S, A)
      /\ \A C, arcs : CyclePolicy(C, arcs)' = CyclePolicy(C, arcs)
  BY OrderStays
<1>2. RejectedCycles(selected, Arcs(selected, Refs))' = {C \in Components(S, A) : CyclePolicy(C, A) = "reject"}
  BY <1>1 DEF RejectedCycles
<1>3. RejectedCycles(selected, Arcs(selected, Refs))' = {}
  BY <1>2 DEF RejectedCycles
<1> QED BY <1>3 DEF NoCycleIsRejected

LEMMA PlanIsInOrder ==
    ASSUME request' = request, selected' = selected,
           InOrder(order', selected, selected, Arcs(selected, Refs)), RejectedCycles(selected, Arcs(selected, Refs)) = {}
    PROVE  OrderIsRespected'
<1> DEFINE A == Arcs(selected, Refs)
<1>1. /\ \A i : Before(i)' = Before(i) /\ After(i)' = After(i)
      /\ Arcs(selected, Refs)' = A /\ Components(selected, Arcs(selected, Refs))' = Components(selected, A)
      /\ \A C, arcs : CyclePolicy(C, arcs)' = CyclePolicy(C, arcs)
  BY OrderStays
<1>2. Len(order') = Cardinality(selected) /\ {order'[k] : k \in DOMAIN order'} = selected /\ Follows(order', selected, A)
  BY DEF InOrder
<1>3. ASSUME NEW j \in DOMAIN order', NEW k \in DOMAIN order', NEW i \in A, Before(i) = order'[j], After(i) = order'[k], j >= k
      PROVE  \E C \in Components(selected, A) : {order'[j], order'[k]} \subseteq C /\ CyclePolicy(C, A) # "reject"
  <2>1. PICK C \in Components(selected, A) : {order'[j], order'[k]} \subseteq C
    BY <1>2, <1>3 DEF Follows
  <2>2. CyclePolicy(C, A) # "reject"
    BY <2>1 DEF RejectedCycles
  <2> QED BY <2>1, <2>2
<1> HIDE DEF A
<1>4. Cardinality(selected)' = Cardinality(selected)
  BY DEF Cardinality, IsFiniteSet
<1> QED BY <1>1, <1>2, <1>3, <1>4 DEF OrderIsRespected

LEMMA OrderStep ==
    ASSUME Solvable, OrderInv, [SolverNext]_solverVars
    PROVE  OrderInv'
<1>1. Posed
  BY PosedRequest DEF OrderInv, LawfulInv
<1>2. request' = request
  BY DEF SolverNext, solverVars, Reject, Admit, Block, Delete, Refute, Prefer, Plan
<1>3. LawfulInv'
  BY LawfulStep DEF OrderInv
<1>4. phase' # "planned" => OrderIsRespected'
  BY DEF OrderIsRespected
<1>5. CASE phase' \notin {"prefer", "planned"}
  BY <1>3, <1>4, <1>5 DEF OrderInv, NoCycleIsRejected
<1>6. CASE /\ phase = "prefer" /\ phase' = phase /\ UNCHANGED selected
  <2>1. RejectedCycles(selected', Arcs(selected', Refs)) = {}
    BY <1>6 DEF OrderInv, NoCycleIsRejected
  <2> QED BY <1>2, <1>3, <1>4, <1>6, <2>1, OrderNext DEF OrderInv
<1>7. ASSUME NEW seeds \in SUBSET Ids, Evaluation(seeds, Refs).blocked = Nil
      PROVE  LET S == Evaluation(seeds, Refs).included IN RejectedCycles(S, Arcs(S, Refs)) = {}
  BY <1>7, VerdictIs DEF Evaluation
<1>8. CASE Admit
  <2>1. request.mandatory \in SUBSET Ids
    BY <1>1, <1>8 DEF Admit, MissingSeeds, Posed, WellPosed
  <2>2. Evaluation(request.mandatory, Refs).blocked = Nil /\ selected' = Evaluation(request.mandatory, Refs).included
    BY <1>8 DEF Admit
  <2>3. RejectedCycles(selected', Arcs(selected', Refs)) = {}
    BY <1>7, <2>1, <2>2
  <2>4. phase' = "prefer"
    BY <1>8 DEF Admit
  <2> QED BY <1>2, <1>3, <1>4, <2>3, <2>4, OrderNext DEF OrderInv
<1>9. CASE Prefer
  <2> DEFINE p == Preferred
             e == Evaluation(selected \cup {p.target}, Refs)
  <2>1. phase = "prefer" /\ phase' = phase /\ Settle(p, e) /\ p.target \in Ids
    BY <1>1, <1>9, PreferredIsInPool DEF Prefer
  <2>2. CASE e.blocked = Nil /\ selected' = selected \cup (e.included \ selected)
    <3>1. selected \cup {p.target} \in SUBSET Ids
      BY <2>1 DEF OrderInv, LawfulInv
    <3>2. selected \cup {p.target} \subseteq e.included /\ RejectedCycles(e.included, Arcs(e.included, Refs)) = {}
      BY <1>1, <1>7, <2>2, <3>1, EvaluationIsLawful
    <3> HIDE DEF p, e
    <3>3. selected' = e.included
      BY <2>2, <3>2
    <3>4. RejectedCycles(selected', Arcs(selected', Refs)) = {}
      BY <3>2, <3>3
    <3> QED BY <1>2, <1>3, <1>4, <2>1, <3>4, OrderNext DEF OrderInv
  <2> HIDE DEF p, e
  <2> QED BY <1>6, <2>1, <2>2 DEF Settle, Refuse
<1>10. CASE Plan
  <2>1. phase = "prefer" /\ order' = LoadOrder(selected, Arcs(selected, Refs)) /\ selected' = selected
    BY <1>10 DEF Plan
  <2>2. RejectedCycles(selected, Arcs(selected, Refs)) = {} /\ selected \in SUBSET Ids
    BY <2>1 DEF OrderInv, NoCycleIsRejected, LawfulInv
  <2>3. IsFiniteSet(selected) /\ selected \in SUBSET Nat
    BY <1>1, <2>2, FS_Subset DEF Posed
  <2>4. InOrder(order', selected, selected, Arcs(selected, Refs))
    BY <2>1, <2>3, ArcsAre, LoadOrderHolds
  <2>5. RejectedCycles(selected', Arcs(selected', Refs)) = {}
    BY <2>1, <2>2
  <2> QED BY <1>2, <1>3, <2>1, <2>2, <2>4, <2>5, OrderNext, PlanIsInOrder DEF OrderInv
<1>11. CASE UNCHANGED solverVars
  <2>1. ASSUME phase = "planned" PROVE OrderIsRespected'
    <3>1. order' = order /\ selected' = selected /\ request' = request
      BY <1>11 DEF solverVars
    <3>2. /\ \A i : Before(i)' = Before(i) /\ After(i)' = After(i)
          /\ Arcs(selected, Refs)' = Arcs(selected, Refs)
          /\ Components(selected, Arcs(selected, Refs))' = Components(selected, Arcs(selected, Refs))
          /\ \A C, arcs : CyclePolicy(C, arcs)' = CyclePolicy(C, arcs)
      BY <3>1, OrderStays
    <3>3. OrderIsRespected
      BY DEF OrderInv
    <3> QED BY <2>1, <3>1, <3>2, <3>3 DEF OrderIsRespected
  <2>2. ASSUME phase \in {"prefer", "planned"} PROVE RejectedCycles(selected', Arcs(selected', Refs)) = {}
    BY <1>11, <2>2 DEF OrderInv, NoCycleIsRejected, solverVars
  <2>3. phase' = phase
    BY <1>11 DEF solverVars
  <2>4. CASE phase \in {"prefer", "planned"}
    BY <1>2, <1>3, <1>4, <2>1, <2>2, <2>3, <2>4, OrderNext DEF OrderInv
  <2> QED BY <1>5, <2>3, <2>4
<1>12. CASE Reject
  BY <1>5, <1>12 DEF Reject
<1>13. CASE Block
  BY <1>5, <1>13 DEF Block
<1>14. CASE Delete
  BY <1>5, <1>14 DEF Delete
<1>15. CASE Refute
  BY <1>5, <1>15 DEF Refute
<1> QED BY <1>8, <1>9, <1>10, <1>11, <1>12, <1>13, <1>14, <1>15 DEF SolverNext

\* A plan's load order holds what is selected, each unit once and after what it is ordered after, but for
\* cycles that the model tolerates: planLoadOrder() never gets stuck before every component is placed.
THEOREM OrderStaysRespected == Solvable => (SolverSpec => []OrderIsRespected)
<1> SUFFICES ASSUME Solvable PROVE SolverSpec => []OrderIsRespected
  OBVIOUS
<1>1. SolverInit => OrderInv
  BY DEF SolverInit, Begin, OrderInv, LawfulInv, SelectionIsLawful, NoCycleIsRejected, OrderIsRespected
<1>2. OrderInv /\ [SolverNext]_solverVars => OrderInv'
  BY OrderStep
<1>3. OrderInv => OrderIsRespected
  BY DEF OrderInv
<1> QED BY <1>1, <1>2, <1>3, PTL DEF SolverSpec

-----------------------------------------------------------------------------
(* How the closure of the mandatory units reaches a unit *)

\* A round that finds units: each by a requirement from the frontier, which joins the chain of where it starts.
Grows(c, d, refs) ==
    /\ DOMAIN c.via \subseteq DOMAIN d.via /\ \A u \in DOMAIN c.via : d.via[u] = c.via[u]
    /\ \A u \in DOMAIN d.via \ DOMAIN c.via : u \in request.units /\
          \E i \in Requirements :
             /\ Edge(i).to = u /\ <<HR, i>> \in refs /\ Edge(i).from \in DOMAIN c.via /\ MayHop(i, c.via)
             /\ d.via[u].rel = Edge(i).rel /\ d.via[u].chain = c.via[Edge(i).from].chain \cup {<<HR, i>>}
    /\ d.front = DOMAIN d.via \ DOMAIN c.via /\ d.blocked = c.blocked
    /\ \A i \in Requirements :
          <<HR, i>> \in refs /\ Edge(i).from \in c.front /\ MayHop(i, c.via) => Edge(i).to \in DOMAIN d.via
\* A round that meets a requirement of a unit there is not.
Halts(c, d, refs) ==
    /\ d.via = c.via /\ d.front = {} /\ d.blocked # Nil
    /\ \E i \in Requirements :
          /\ <<HR, i>> \in refs /\ Edge(i).from \in DOMAIN c.via /\ MayHop(i, c.via) /\ Edge(i).to \notin request.units
          /\ d.refs = c.via[Edge(i).from].chain \cup {<<HR, i>>}

LEMMA RoundGrows ==
    ASSUME Posed, NEW refs, NEW c \in Rounds(refs)
    PROVE  LET d == NextRound(c, refs) IN d = c \/ Grows(c, d, refs) \/ Halts(c, d, refs)
<1> DEFINE d == NextRound(c, refs)
<1>1. c.front \subseteq DOMAIN c.via
  BY DEF Rounds
<1>2. CASE c.front = {}
  BY <1>2, RoundStep
<1>3. CASE c.front # {} /\ Missing(c, refs) # {}
  <2> DEFINE f == First(Missing(c, refs))
             i == f[2]
  <2>1. d = [front |-> {}, via |-> c.via, blocked |-> "missing-target", refs |-> ChainTo(c, f)]
    BY <1>3, RoundStep
  <2>2. f \in Missing(c, refs)
    <3>1. Missing(c, refs) \subseteq Nat \X Nat
      BY FiresAre DEF Missing
    <3> QED BY <1>3, <3>1, FirstOfPairs
  <2> HIDE DEF f, d
  <2>3. /\ i \in Requirements /\ <<HR, i>> \in refs /\ f[1] = Edge(i).from /\ f[1] \in c.front /\ MayHop(i, c.via)
        /\ Edge(i).to \notin request.units
    BY <2>2, FiresAre DEF Missing
  <2>4. d.via = c.via /\ d.front = {} /\ d.blocked # Nil /\ d.refs = c.via[Edge(i).from].chain \cup {<<HR, i>>}
    BY <2>1, <2>3 DEF ChainTo, Nil
  <2>5. Halts(c, d, refs)
    BY <1>1, <2>3, <2>4 DEF Halts
  <2> QED BY <2>5 DEF d
<1>4. CASE c.front # {} /\ Missing(c, refs) = {}
  <2> DEFINE F == Found(c, refs)
             via == [u \in DOMAIN c.via \cup F |-> IF u \in DOMAIN c.via THEN c.via[u] ELSE ViaFor(c, refs, u)]
  <2>1. d = [front |-> F, via |-> via, blocked |-> c.blocked, refs |-> c.refs]
    BY <1>4, RoundStep
  <2>2. d.front = F /\ d.via = via /\ d.blocked = c.blocked
    <3> HIDE DEF via, F, d
    <3> QED BY <2>1
  <2>3. F \cap DOMAIN c.via = {}
    BY DEF Found
  <2>4. DOMAIN via = DOMAIN c.via \cup F /\ \A u \in DOMAIN c.via : via[u] = c.via[u]
    OBVIOUS
  <2>5. \A u \in F : via[u] = ViaFor(c, refs, u)
    BY <2>3
  <2> HIDE DEF via, d
  <2>6. ASSUME NEW u \in F
        PROVE  u \in request.units /\ \E i \in Requirements :
                  /\ Edge(i).to = u /\ <<HR, i>> \in refs /\ Edge(i).from \in DOMAIN c.via /\ MayHop(i, c.via)
                  /\ via[u].rel = Edge(i).rel /\ via[u].chain = c.via[Edge(i).from].chain \cup {<<HR, i>>}
    <3> DEFINE S == {f \in Fires(c, refs) : Edge(f[2]).to = u}
               b == By(c, refs, u)
    <3>1. S # {} /\ S \subseteq Nat \X Nat
      BY FiresAre DEF Found
    <3>2. First(S) \in S
      <4> HIDE DEF S
      <4> QED BY <3>1, FirstOfPairs
    <3>3. b \in Fires(c, refs) /\ Edge(b[2]).to = u
      BY <3>2 DEF By
    <3> HIDE DEF b, S
    <3>4. b[2] \in Requirements /\ <<HR, b[2]>> \in refs /\ b[1] = Edge(b[2]).from /\ b[1] \in c.front /\ MayHop(b[2], c.via)
      BY <3>3, FiresAre
    <3>5. via[u].rel = Edge(b[2]).rel /\ via[u].chain = c.via[Edge(b[2]).from].chain \cup {<<HR, b[2]>>}
      <4>1. via[u] = ViaFor(c, refs, u)
        BY <2>5
      <4>2. via[u] = [rel |-> Edge(b[2]).rel, chain |-> ChainTo(c, b)]
        BY <4>1 DEF ViaFor, b
      <4>3. ChainTo(c, b) = c.via[Edge(b[2]).from].chain \cup {<<HR, b[2]>>}
        BY <3>4 DEF ChainTo
      <4> QED BY <4>2, <4>3
    <3>6. u \in request.units
      BY <1>4, <3>3 DEF Missing
    <3>7. Edge(b[2]).from \in DOMAIN c.via
      BY <1>1, <3>4
    <3> DEFINE i == b[2]
    <3>8. /\ i \in Requirements /\ Edge(i).to = u /\ <<HR, i>> \in refs /\ Edge(i).from \in DOMAIN c.via /\ MayHop(i, c.via)
          /\ via[u].rel = Edge(i).rel /\ via[u].chain = c.via[Edge(i).from].chain \cup {<<HR, i>>}
      BY <3>3, <3>4, <3>5, <3>7
    <3> HIDE DEF i
    <3> QED BY <3>6, <3>8
  <2>7. ASSUME NEW i \in Requirements, <<HR, i>> \in refs, Edge(i).from \in c.front, MayHop(i, c.via)
        PROVE  Edge(i).to \in DOMAIN c.via \cup F
    <3> DEFINE f == <<Edge(i).from, i>>
    <3>1. f \in Fires(c, refs) /\ f[2] = i
      BY <2>7 DEF Fires
    <3> QED BY <3>1 DEF Found
  <2> HIDE DEF F
  <2>8. d.front = DOMAIN d.via \ DOMAIN c.via
    BY <2>2, <2>3, <2>4
  <2>9. Grows(c, d, refs)
    BY <2>2, <2>4, <2>6, <2>7, <2>8 DEF Grows
  <2> QED BY <2>9 DEF d
<1> QED BY <1>2, <1>3, <1>4

\* What is asked for was reached by no relation; any other unit by a requirement that ends its chain.
Entered(via) ==
    /\ request.mandatory \subseteq DOMAIN via /\ DOMAIN via \subseteq request.units
    /\ \A u \in request.mandatory : via[u].rel = NoRel /\ via[u].chain = {}
    /\ \A u \in DOMAIN via \ request.mandatory :
          \E i \in Requirements : Edge(i).to = u /\ <<HR, i>> \in via[u].chain /\ Edge(i).rel = via[u].rel
\* A chain is of requirements of what was reached, and no two that chains hold reach the same unit.
Chained(via) ==
    /\ \A u \in DOMAIN via : \A r \in via[u].chain :
          \E i \in Requirements : r = <<HR, i>> /\ Edge(i).to \in DOMAIN via \ request.mandatory
    /\ \A u, w \in DOMAIN via : \A i, j \in Requirements :
          <<HR, i>> \in via[u].chain /\ <<HR, j>> \in via[w].chain /\ Edge(i).to = Edge(j).to => i = j
Passed(c, refs) ==
    c.blocked = Nil =>
       \A i \in Requirements :
          <<HR, i>> \in refs /\ Edge(i).from \in DOMAIN c.via \ c.front /\ MayHop(i, c.via) => Edge(i).to \in DOMAIN c.via
Stopped(c, refs) ==
    c.blocked # Nil =>
       /\ c.front = {}
       /\ \E i \in Requirements :
             /\ <<HR, i>> \in refs /\ Edge(i).from \in DOMAIN c.via /\ MayHop(i, c.via) /\ Edge(i).to \notin request.units
             /\ c.refs = c.via[Edge(i).from].chain \cup {<<HR, i>>}
Reached(c, refs) == c \in Rounds(refs) /\ Entered(c.via) /\ Chained(c.via) /\ Passed(c, refs) /\ Stopped(c, refs)

LEMMA ReachedInit ==
    ASSUME NEW refs, MissingSeeds = {}, Round(request.mandatory) \in Rounds(refs)
    PROVE  Reached(Round(request.mandatory), refs)
<1> DEFINE M == request.mandatory
           via == [u \in M |-> [rel |-> NoRel, chain |-> {}]]
           c == Round(M)
<1>1. c.via = via /\ c.front = M /\ c.blocked = Nil
  BY DEF Round
<1>2. DOMAIN via = M /\ \A u \in M : via[u].rel = NoRel /\ via[u].chain = {}
  OBVIOUS
<1> HIDE DEF via
<1>3. M \subseteq request.units
  BY DEF MissingSeeds
<1>4. Entered(via)
  BY <1>2, <1>3 DEF Entered
<1>5. Chained(via)
  BY <1>2 DEF Chained
<1>6. Passed(c, refs) /\ Stopped(c, refs)
  BY <1>1, <1>2 DEF Passed, Stopped
<1> QED BY <1>1, <1>4, <1>5, <1>6 DEF Reached

LEMMA EnteredStep ==
    ASSUME NEW refs, NEW c, NEW d, Grows(c, d, refs), Entered(c.via), Chained(c.via)
    PROVE  Entered(d.via) /\ Chained(d.via)
<1> DEFINE M == request.mandatory
           C == DOMAIN c.via
           D == DOMAIN d.via
<1>1. M \subseteq C /\ C \subseteq D /\ \A u \in C : d.via[u] = c.via[u]
  BY DEF Grows, Entered
<1>2. ASSUME NEW u \in D \ C
      PROVE  u \in request.units /\ \E i \in Requirements :
                /\ Edge(i).to = u /\ Edge(i).from \in C
                /\ d.via[u].rel = Edge(i).rel /\ d.via[u].chain = c.via[Edge(i).from].chain \cup {<<HR, i>>}
  BY DEF Grows
<1>3. /\ \A u \in C : \A r \in c.via[u].chain : \E i \in Requirements : r = <<HR, i>> /\ Edge(i).to \in C \ M
      /\ \A u, w \in C : \A i, j \in Requirements :
            <<HR, i>> \in c.via[u].chain /\ <<HR, j>> \in c.via[w].chain /\ Edge(i).to = Edge(j).to => i = j
  BY DEF Chained
<1>4. Entered(d.via)
  <2>1. ASSUME NEW u \in D \ M
        PROVE  \E i \in Requirements : Edge(i).to = u /\ <<HR, i>> \in d.via[u].chain /\ Edge(i).rel = d.via[u].rel
    <3>1. CASE u \in C
      <4>1. \E i \in Requirements : Edge(i).to = u /\ <<HR, i>> \in c.via[u].chain /\ Edge(i).rel = c.via[u].rel
        BY <2>1, <3>1 DEF Entered
      <4>2. d.via[u] = c.via[u]
        BY <1>1, <3>1
      <4> QED BY <4>1, <4>2
    <3>2. CASE u \notin C
      BY <1>2, <3>2
    <3> QED BY <3>1, <3>2
  <2>2. D \subseteq request.units
    BY <1>2 DEF Entered
  <2>3. \A u \in M : d.via[u].rel = NoRel /\ d.via[u].chain = {}
    BY <1>1 DEF Entered
  <2> QED BY <1>1, <2>1, <2>2, <2>3 DEF Entered
\* A requirement of a chain is one of an old chain, and of an old unit, or it is the one that found its unit.
<1>5. ASSUME NEW u \in D, NEW r \in d.via[u].chain
      PROVE  \E i \in Requirements : r = <<HR, i>> /\
                \/ Edge(i).to \in C \ M /\ \E w \in C : r \in c.via[w].chain
                \/ Edge(i).to = u /\ u \in D \ C /\ u \notin M
  <2>1. CASE u \in C
    BY <1>1, <1>3, <2>1
  <2>2. CASE u \notin C
    <3>1. PICK i \in Requirements : Edge(i).to = u /\ Edge(i).from \in C /\ d.via[u].chain = c.via[Edge(i).from].chain \cup {<<HR, i>>}
      BY <1>2, <2>2
    <3>2. CASE r = <<HR, i>>
      BY <1>1, <2>2, <3>1, <3>2
    <3>3. CASE r \in c.via[Edge(i).from].chain
      BY <1>3, <3>1, <3>3
    <3> QED BY <3>1, <3>2, <3>3
  <2> QED BY <2>1, <2>2
\* The one requirement of a new chain that reaches a new unit.
<1>6. ASSUME NEW u \in D, NEW w \in D, NEW i \in Requirements, NEW j \in Requirements,
             <<HR, i>> \in d.via[u].chain, <<HR, j>> \in d.via[w].chain, Edge(i).to = Edge(j).to
      PROVE  i = j
  <2>1. \A k, l : <<HR, k>> = <<HR, l>> => k = l
    OBVIOUS
  <2>2. \/ Edge(i).to \in C \ M /\ \E v \in C : <<HR, i>> \in c.via[v].chain
        \/ Edge(i).to = u /\ u \in D \ C
    BY <1>5, <1>6, <2>1
  <2>3. \/ Edge(j).to \in C \ M /\ \E v \in C : <<HR, j>> \in c.via[v].chain
        \/ Edge(j).to = w /\ w \in D \ C
    BY <1>5, <1>6, <2>1
  <2>4. CASE Edge(i).to \in C
    BY <1>3, <1>6, <2>2, <2>3, <2>4
  <2>5. CASE Edge(i).to \notin C
    <3>1. Edge(i).to = u /\ Edge(j).to = u /\ u = w /\ u \in D \ C
      BY <1>6, <2>2, <2>3, <2>5
    <3>2. PICK k \in Requirements : Edge(k).to = u /\ Edge(k).from \in C /\ d.via[u].chain = c.via[Edge(k).from].chain \cup {<<HR, k>>}
      BY <1>2, <3>1
    <3>3. ASSUME NEW l, <<HR, l>> \in c.via[Edge(k).from].chain, Edge(l).to = u PROVE FALSE
      <4>1. PICK m \in Requirements : <<HR, l>> = <<HR, m>> /\ Edge(m).to \in C \ M
        BY <1>3, <3>2, <3>3
      <4>2. l = m
        BY <2>1, <4>1
      <4> QED BY <3>1, <3>3, <4>1, <4>2
    <3>4. <<HR, i>> = <<HR, k>> /\ <<HR, j>> = <<HR, k>>
      BY <1>6, <3>1, <3>2, <3>3
    <3> QED BY <2>1, <3>4
  <2> QED BY <2>4, <2>5
<1>7. Chained(d.via)
  <2>1. ASSUME NEW u \in D, NEW r \in d.via[u].chain PROVE \E i \in Requirements : r = <<HR, i>> /\ Edge(i).to \in D \ M
    BY <1>1, <1>5
  <2> QED BY <1>6, <2>1 DEF Chained
<1> QED BY <1>4, <1>7

LEMMA ReachedStep ==
    ASSUME Posed, NEW refs, NEW c, Reached(c, refs)
    PROVE  Reached(NextRound(c, refs), refs)
<1> DEFINE d == NextRound(c, refs)
<1>1. c \in Rounds(refs) /\ d \in Rounds(refs) /\ (d = c \/ Grows(c, d, refs) \/ Halts(c, d, refs))
  BY RoundStep, RoundGrows DEF Reached
<1> HIDE DEF d
<1>2. CASE d = c
  BY <1>2 DEF d
<1>3. CASE Halts(c, d, refs)
  <2>1. Entered(d.via) /\ Chained(d.via) /\ Passed(d, refs) /\ Stopped(d, refs)
    BY <1>3 DEF Reached, Halts, Passed, Stopped
  <2> QED BY <1>1, <2>1 DEF Reached, d
<1>4. CASE Grows(c, d, refs) /\ c.front = {}
  <2>1. d = c
    BY <1>1, <1>4, RoundStep DEF d
  <2> QED BY <2>1 DEF d
<1>5. CASE Grows(c, d, refs) /\ c.front # {}
  <2>1. Entered(d.via) /\ Chained(d.via)
    BY <1>5, EnteredStep DEF Reached
  <2>2. c.blocked = Nil /\ d.blocked = Nil
    BY <1>5 DEF Reached, Stopped, Grows
  <2>3. ASSUME NEW i \in Requirements, <<HR, i>> \in refs, Edge(i).from \in DOMAIN d.via \ d.front, MayHop(i, d.via)
        PROVE  Edge(i).to \in DOMAIN d.via
    <3>1. Edge(i).from \in DOMAIN c.via /\ d.via[Edge(i).from] = c.via[Edge(i).from]
      BY <1>5, <2>3 DEF Grows
    <3>2. MayHop(i, c.via)
      BY <2>3, <3>1 DEF MayHop
    <3>3. CASE Edge(i).from \in c.front
      BY <1>5, <2>3, <3>2, <3>3 DEF Grows
    <3>4. CASE Edge(i).from \notin c.front
      BY <1>5, <2>2, <2>3, <3>1, <3>2, <3>4 DEF Reached, Passed, Grows
    <3> QED BY <3>3, <3>4
  <2>4. Passed(d, refs) /\ Stopped(d, refs)
    BY <2>2, <2>3 DEF Passed, Stopped
  <2> QED BY <1>1, <2>1, <2>4 DEF Reached, d
<1> QED BY <1>1, <1>2, <1>3, <1>4, <1>5

\* The rounds of a closure of the mandatory units, one by one, and the last.
LEMMA RoundsAreReached ==
    ASSUME Posed, MissingSeeds = {}, NEW refs
    PROVE  \E round : /\ round[0] = Round(request.mandatory) /\ \A n \in Nat : round[n + 1] = NextRound(round[n], refs)
                      /\ \A n \in Nat : Reached(round[n], refs)
                      /\ Cardinality(Ids) + 1 \in Nat /\ Closure(request.mandatory, refs) = round[Cardinality(Ids) + 1]
<1> DEFINE V == Rounds(refs)
           G == [c \in V |-> NextRound(c, refs)]
           M == request.mandatory
<1>0. M \in SUBSET Ids
  BY DEF MissingSeeds, Posed, WellPosed
<1>1. PICK round : Iterates(round, V, Round(M), G) /\ Closure(M, refs) = round[Cardinality(Ids) + 1]
  BY <1>0, ClosureRounds
<1>2. round[0] = Round(M) /\ \A n \in Nat : round[n] \in V /\ round[n + 1] = G[round[n]]
  <2> HIDE DEF V, G
  <2> QED BY <1>1 DEF Iterates
<1>3. \A n \in Nat : round[n + 1] = NextRound(round[n], refs)
  BY <1>2
<1> DEFINE T == {n \in Nat : Reached(round[n], refs)}
<1>4. Nat \subseteq T
  <2>1. 0 \in T
    <3>1. Round(M) \in Rounds(refs)
      BY <1>2
    <3>2. Reached(Round(M), refs)
      BY <3>1, ReachedInit
    <3> QED BY <1>2, <3>2
  <2>2. \A n \in Nat : n \in T => n + 1 \in T
    BY <1>3, ReachedStep
  <2> HIDE DEF T
  <2> QED BY <2>1, <2>2, Induction
<1>5. Cardinality(Ids) + 1 \in Nat
  BY FS_CardinalityType DEF Posed
<1> HIDE DEF V, G
<1> QED BY <1>1, <1>2, <1>3, <1>4, <1>5

LEMMA ClosureReached ==
    ASSUME Posed, MissingSeeds = {}, NEW refs
    PROVE  LET c == Closure(request.mandatory, refs)
           IN  Reached(c, refs) /\ c.front = {} /\ \A u \in DOMAIN c.via : c.via[u].chain \subseteq refs
<1> DEFINE c == Closure(request.mandatory, refs)
<1>1. Reached(c, refs)
  BY RoundsAreReached
<1>2. request.mandatory \in SUBSET Ids
  BY DEF MissingSeeds, Posed, WellPosed
<1>3. c.front = {} /\ c \in Rounds(refs)
  BY <1>2, ClosureHolds
<1> HIDE DEF c
<1>4. \A u \in DOMAIN c.via : c.via[u].chain \subseteq refs
  BY <1>3, ViasAre DEF Rounds
<1> QED BY <1>1, <1>3, <1>4 DEF c

-----------------------------------------------------------------------------
(* What blocks once blocks wherever its refs are *)

\* No two requirements of refs reach the same unit.
Branches(refs) ==
    \A i, j \in Requirements : <<HR, i>> \in refs /\ <<HR, j>> \in refs /\ Edge(i).to = Edge(j).to => i = j

\* The units of a closure whose chains are in refs are reached from refs alone, and in the same way.
Supported(via, refs, reached) ==
    \A u \in DOMAIN via : via[u].chain \subseteq refs => u \in DOMAIN reached /\ via[u].rel = reached[u].rel

LEMMA SupportStep ==
    ASSUME NEW refs, NEW A, Branches(refs), NEW d, Reached(d, refs), d.front = {}, d.blocked = Nil,
           \A u \in DOMAIN d.via : d.via[u].chain \subseteq refs,
           NEW b, NEW c, Grows(b, c, A), Reached(b, A), Supported(b.via, refs, d.via)
    PROVE  Supported(c.via, refs, d.via)
<1> SUFFICES ASSUME NEW u \in DOMAIN c.via, c.via[u].chain \subseteq refs
             PROVE  u \in DOMAIN d.via /\ c.via[u].rel = d.via[u].rel
  BY DEF Supported
<1>1. CASE u \in DOMAIN b.via
  <2>1. c.via[u] = b.via[u]
    BY <1>1 DEF Grows
  <2> QED BY <1>1, <2>1 DEF Supported
<1>2. CASE u \notin DOMAIN b.via
  <2>1. PICK i \in Requirements :
           /\ Edge(i).to = u /\ Edge(i).from \in DOMAIN b.via /\ MayHop(i, b.via)
           /\ c.via[u].rel = Edge(i).rel /\ c.via[u].chain = b.via[Edge(i).from].chain \cup {<<HR, i>>}
    BY <1>2 DEF Grows
  <2>2. <<HR, i>> \in refs /\ b.via[Edge(i).from].chain \subseteq refs
    BY <2>1
  <2>3. Edge(i).from \in DOMAIN d.via /\ b.via[Edge(i).from].rel = d.via[Edge(i).from].rel
    BY <2>1, <2>2 DEF Supported
  <2>4. MayHop(i, d.via)
    BY <2>1, <2>3 DEF MayHop
  <2>5. u \in DOMAIN d.via
    BY <2>1, <2>2, <2>3, <2>4 DEF Reached, Passed
  <2>6. u \notin request.mandatory
    BY <1>2 DEF Reached, Entered
  <2>7. PICK j \in Requirements : Edge(j).to = u /\ <<HR, j>> \in d.via[u].chain /\ Edge(j).rel = d.via[u].rel
    BY <2>5, <2>6 DEF Reached, Entered
  <2>8. <<HR, j>> \in refs
    BY <2>5, <2>7
  <2>9. i = j
    BY <2>1, <2>2, <2>7, <2>8 DEF Branches
  <2> QED BY <2>1, <2>5, <2>7, <2>9
<1> QED BY <1>1, <1>2

LEMMA Support ==
    ASSUME Posed, MissingSeeds = {}, NEW A, NEW refs, Branches(refs), Closure(request.mandatory, refs).blocked = Nil
    PROVE  Supported(Closure(request.mandatory, A).via, refs, Closure(request.mandatory, refs).via)
<1> DEFINE M == request.mandatory
           d == Closure(M, refs)
           N == Cardinality(Ids) + 1
<1>1. Reached(d, refs) /\ d.front = {} /\ d.blocked = Nil /\ \A u \in DOMAIN d.via : d.via[u].chain \subseteq refs
  BY ClosureReached
<1>2. PICK round : /\ round[0] = Round(M) /\ \A n \in Nat : round[n + 1] = NextRound(round[n], A)
                   /\ \A n \in Nat : Reached(round[n], A)
                   /\ N \in Nat /\ Closure(M, A) = round[N]
  BY RoundsAreReached
<1> HIDE DEF d, N
<1> DEFINE T == {n \in Nat : Supported(round[n].via, refs, d.via)}
<1>3. 0 \in T
  <2>1. DOMAIN Round(M).via = M /\ \A u \in M : Round(M).via[u].rel = NoRel
    BY DEF Round
  <2>2. M \subseteq DOMAIN d.via /\ \A u \in M : d.via[u].rel = NoRel
    BY <1>1 DEF Reached, Entered
  <2>3. Supported(Round(M).via, refs, d.via)
    BY <2>1, <2>2 DEF Supported
  <2> QED BY <1>2, <2>3
<1>4. ASSUME NEW n \in Nat, n \in T PROVE n + 1 \in T
  <2> DEFINE b == round[n]
             c == round[n + 1]
  <2>1. c = NextRound(b, A) /\ Reached(b, A) /\ Supported(b.via, refs, d.via)
    BY <1>2, <1>4
  <2>2. c = b \/ Grows(b, c, A) \/ Halts(b, c, A)
    BY <2>1, RoundGrows DEF Reached
  <2> HIDE DEF b, c
  <2>3. Supported(c.via, refs, d.via)
    <3>1. CASE c = b
      BY <2>1, <3>1
    <3>2. CASE Halts(b, c, A)
      <4>1. c.via = b.via
        BY <3>2 DEF Halts
      <4> QED BY <2>1, <4>1
    <3>3. CASE Grows(b, c, A)
      BY <1>1, <2>1, <3>3, SupportStep
    <3> QED BY <2>2, <3>1, <3>2, <3>3
  <2> QED BY <2>3 DEF c
<1> HIDE DEF T
<1>5. N \in T
  BY <1>2, <1>3, <1>4, Induction
<1> QED BY <1>2, <1>5 DEF T, d

\* A component that is rejected is rejected in any order that has its units and the arcs inside it.
LEMMA CycleStays ==
    ASSUME NEW nodes, IsFiniteSet(nodes), NEW arcs, \A i \in arcs : Before(i) \in nodes /\ After(i) \in nodes,
           NEW nodes2, IsFiniteSet(nodes2), NEW arcs2, \A i \in arcs2 : Before(i) \in nodes2 /\ After(i) \in nodes2,
           NEW C \in RejectedCycles(nodes, arcs), C \subseteq nodes2, Within(C, arcs) \subseteq arcs2
    PROVE  RejectedCycles(nodes2, arcs2) # {}
<1> DEFINE L == Linked(nodes, arcs)
           K == Linked(nodes2, arcs2)
<1>1. /\ \A i \in arcs : <<Before(i), After(i)>> \in L
      /\ \A a, b, c : <<a, b>> \in L /\ <<b, c>> \in L => <<a, c>> \in L
      /\ \A S : Closed(S, Pairs(arcs)) => Closed(S, L)
  BY LinkedIs
<1>2. /\ \A i \in arcs2 : <<Before(i), After(i)>> \in K
      /\ \A a, b, c : <<a, b>> \in K /\ <<b, c>> \in K => <<a, c>> \in K
  BY LinkedIs
<1>3. C \in Components(nodes, arcs) /\ CyclePolicy(C, arcs) = "reject"
  BY DEF RejectedCycles
<1>4. C \in SUBSET nodes /\ \A x \in C : C = Peers(x, nodes, arcs)
  BY <1>3, ComponentsPartition
<1>5. \A x \in C, y \in nodes : y \in C <=> x = y \/ (<<x, y>> \in L /\ <<y, x>> \in L)
  BY <1>4 DEF Peers
<1> HIDE DEF L, K
<1>6. ASSUME NEW x \in C, NEW y \in C PROVE x = y \/ <<x, y>> \in K
  <2> DEFINE S == {z \in nodes : (x = z \/ <<x, z>> \in L) /\ (z \in C => x = z \/ <<x, z>> \in K)}
  <2>1. ASSUME NEW v \in S, NEW z, <<v, z>> \in Pairs(arcs) PROVE z \in S
    <3>1. PICK i \in arcs : <<v, z>> = <<Before(i), After(i)>>
      BY <2>1 DEF Pairs
    <3>2. Before(i) = v /\ After(i) = z /\ <<v, z>> \in L /\ v \in nodes /\ z \in nodes
      BY <1>1, <3>1
    <3>3. x = z \/ <<x, z>> \in L
      BY <1>1, <2>1, <3>2
    <3>4. ASSUME z \in C, x # z PROVE <<x, z>> \in K
      <4>1. <<z, x>> \in L
        BY <1>4, <1>5, <3>4
      <4>2. <<v, x>> \in L
        BY <1>1, <3>2, <4>1
      <4>3. v \in C
        BY <1>5, <2>1, <3>2, <4>2
      <4>4. i \in arcs2
        BY <3>2, <3>4, <4>3 DEF Within
      <4>5. <<v, z>> \in K
        BY <1>2, <3>2, <4>4
      <4> QED BY <1>2, <2>1, <4>3, <4>5
    <3> QED BY <3>2, <3>3, <3>4
  <2>2. Closed(S, L)
    <3> HIDE DEF S
    <3>1. Closed(S, Pairs(arcs))
      BY <2>1 DEF Closed
    <3> QED BY <1>1, <3>1
  <2>3. x \in S
    BY <1>4
  <2>4. x = y \/ <<x, y>> \in L
    BY <1>4, <1>5
  <2>5. y \in S
    <3> HIDE DEF S
    <3> QED BY <2>2, <2>3, <2>4 DEF Closed
  <2> QED BY <2>5
<1>7. PICK i \in Within(C, arcs) : Semantics(i).cycle = "reject"
  BY <1>3 DEF CyclePolicy
<1> DEFINE a == Before(i)
           D == Peers(a, nodes2, arcs2)
<1>8. a \in C /\ After(i) \in C /\ i \in arcs2
  BY <1>7 DEF Within
<1>9. D \in Components(nodes2, arcs2)
  BY <1>8, ComponentsPartition
<1>10. a \in D /\ After(i) \in D
  BY <1>6, <1>8 DEF Peers, K
<1>11. i \in Within(D, arcs2)
  BY <1>8, <1>10 DEF Within
<1> HIDE DEF D
<1>12. CyclePolicy(D, arcs2) = "reject"
  BY <1>7, <1>11 DEF CyclePolicy
<1> QED BY <1>9, <1>12 DEF RejectedCycles

\* What a verdict that blocks names: what the closure met, or the first hit, denial or rejected cycle with its chains.
ChainOf(c, u) == c.via[u].chain
ByHit(c, refs, by) == \E i \in Hits(DOMAIN c.via, refs) :
    by = {<<HP, i>>} \cup ChainOf(c, Edge(i).from) \cup ChainOf(c, Edge(i).to)
ByDenial(c, refs, by) == \E u \in Denials(DOMAIN c.via, refs) : by = {<<RP, u>>} \cup ChainOf(c, u)
ByCycle(c, refs, by) == \E C \in RejectedCycles(DOMAIN c.via, Arcs(DOMAIN c.via, refs)) :
    by = ({ORD} \X Within(C, Arcs(DOMAIN c.via, refs))) \cup UNION {ChainOf(c, u) : u \in C}

LEMMA NumbersOf ==
    ASSUME Posed
    PROVE  Prohibitions \subseteq Nat /\ Requirements \subseteq Nat /\ Orderings \subseteq Nat /\ Policies \subseteq Nat
<1>1. Edges \subseteq Nat
  BY EdgesAreEdges
<1>2. request.units \subseteq Nat
  BY DEF Posed, WellPosed
<1> QED BY <1>1, <1>2 DEF Prohibitions, Requirements, Orderings, Policies

LEMMA LeastIs == ASSUME NEW S, S \subseteq Nat, S # {} PROVE Least(S) \in S
BY LeastNat DEF Least

LEMMA VerdictNames ==
    ASSUME Posed, NEW refs, NEW c, DOMAIN c.via \in SUBSET Ids, Verdict(c, refs).blocked # Nil
    PROVE  LET by == Verdict(c, refs).refs
           IN (c.blocked # Nil /\ by = c.refs) \/ ByHit(c, refs, by) \/ ByDenial(c, refs, by) \/ ByCycle(c, refs, by)
<1> DEFINE included == DOMAIN c.via
           chain(u) == c.via[u].chain
           hits == Hits(included, refs)
           denials == Denials(included, refs)
           arcs == Arcs(included, refs)
           cycles == RejectedCycles(included, arcs)
           i == Least(hits)
           u == Least(denials)
           C == CHOOSE D \in cycles : \A F \in cycles : Least(D) <= Least(F)
           hitRefs == {<<HP, i>>} \cup chain(Edge(i).from) \cup chain(Edge(i).to)
           denialRefs == {<<RP, u>>} \cup chain(u)
           cycleRefs == ({ORD} \X Within(C, arcs)) \cup UNION {chain(v) : v \in C}
           by == Verdict(c, refs).refs
<1>1. Verdict(c, refs) =
         IF c.blocked # Nil THEN Blocked(included, c.blocked, c.refs)
         ELSE IF hits # {} THEN Blocked(included, "hard-prohibition", hitRefs)
         ELSE IF denials # {} THEN Blocked(included, "runtime-policy", denialRefs)
         ELSE IF cycles # {} THEN Blocked(included, "cycle", cycleRefs)
         ELSE Blocked(included, Nil, {})
  BY DEF Verdict, Hits, Denials
<1>2. hits # {} => i \in hits
  <2>1. hits \subseteq Nat
    BY NumbersOf DEF Hits
  <2> HIDE DEF hits
  <2> QED BY <2>1, LeastIs
<1>3. denials # {} => u \in denials
  <2>1. denials \subseteq Nat
    BY NumbersOf DEF Denials
  <2> HIDE DEF denials
  <2> QED BY <2>1, LeastIs
<1>4. cycles # {} => C \in cycles
  <2>1. \A D \in cycles : D \in SUBSET included /\ D # {}
    <3>1. IsFiniteSet(included) /\ \A k \in arcs : Before(k) \in included /\ After(k) \in included
      BY FS_Subset DEF Posed, Arcs
    <3> HIDE DEF included, arcs
    <3>2. \A D \in Components(included, arcs) : D \in SUBSET included /\ D # {}
      BY <3>1, ComponentsPartition
    <3> QED BY <3>2 DEF RejectedCycles
  <2>2. included \in SUBSET Nat
    BY DEF Posed
  <2> HIDE DEF included, cycles
  <2> QED BY <2>1, <2>2, ChosenIs DEF Chosen
<1> HIDE DEF included, hits, denials, arcs, cycles, hitRefs, denialRefs, cycleRefs, i, u, C
<1>5. CASE c.blocked # Nil
  BY <1>1, <1>5 DEF Blocked
<1>6. CASE c.blocked = Nil /\ hits # {}
  <2>1. by = hitRefs
    BY <1>1, <1>6 DEF Blocked
  <2> QED BY <1>2, <1>6, <2>1 DEF ByHit, ChainOf, hits, hitRefs, included
<1>7. CASE c.blocked = Nil /\ hits = {} /\ denials # {}
  <2>1. by = denialRefs
    BY <1>1, <1>7 DEF Blocked
  <2> QED BY <1>3, <1>7, <2>1 DEF ByDenial, ChainOf, denials, denialRefs, included
<1>8. CASE c.blocked = Nil /\ hits = {} /\ denials = {} /\ cycles # {}
  <2>1. by = cycleRefs
    BY <1>1, <1>8 DEF Blocked
  <2> QED BY <1>4, <1>8, <2>1 DEF ByCycle, ChainOf, cycles, cycleRefs, included, arcs
<1>9. CASE c.blocked = Nil /\ hits = {} /\ denials = {} /\ cycles = {}
  <2>1. Verdict(c, refs).blocked = Nil
    BY <1>1, <1>9 DEF Blocked
  <2> QED BY <2>1
<1> QED BY <1>5, <1>6, <1>7, <1>8, <1>9

\* The refs that a blocked evaluation names block by themselves, and with any others that keep its branches.
LEMMA BlockerBlocks ==
    ASSUME Posed, MissingSeeds = {}, NEW A, NEW refs, Branches(refs),
           Evaluation(request.mandatory, A).blocked # Nil, Evaluation(request.mandatory, A).refs \subseteq refs
    PROVE  Unsat(refs)
<1> SUFFICES ASSUME Evaluation(request.mandatory, refs).blocked = Nil PROVE FALSE
  BY DEF Unsat
<1> DEFINE M == request.mandatory
           c == Closure(M, A)
           d == Closure(M, refs)
           by == Verdict(c, A).refs
           D == DOMAIN d.via
<1>1. Verdict(c, A).blocked # Nil /\ by \subseteq refs /\ Verdict(d, refs).blocked = Nil
  BY DEF Evaluation
<1>2. Reached(c, A) /\ DOMAIN c.via \in SUBSET Ids
  <2>1. Reached(c, A)
    BY ClosureReached
  <2>2. c \in Rounds(A)
    BY <2>1 DEF Reached
  <2> QED BY <2>1, <2>2, ViasAre DEF Rounds
<1>3. Reached(d, refs) /\ d.front = {} /\ DOMAIN d.via \in SUBSET Ids
  <2>1. Reached(d, refs) /\ d.front = {}
    BY ClosureReached
  <2>2. d \in Rounds(refs)
    BY <2>1 DEF Reached
  <2> QED BY <2>1, <2>2, ViasAre DEF Rounds
<1>4. d.blocked = Nil /\ Hits(D, refs) = {} /\ Denials(D, refs) = {} /\ RejectedCycles(D, Arcs(D, refs)) = {}
  BY <1>1, VerdictIs
<1>5. Supported(c.via, refs, d.via)
  BY <1>4, Support
<1>6. (c.blocked # Nil /\ by = c.refs) \/ ByHit(c, A, by) \/ ByDenial(c, A, by) \/ ByCycle(c, A, by)
  BY <1>1, <1>2, VerdictNames
<1> HIDE DEF c, d, by
<1>7. \A u \in DOMAIN c.via : ChainOf(c, u) \subseteq by => u \in D /\ c.via[u].rel = d.via[u].rel
  BY <1>1, <1>5 DEF Supported, ChainOf
<1>8. CASE c.blocked # Nil /\ by = c.refs
  <2>1. PICK i \in Requirements :
           /\ Edge(i).from \in DOMAIN c.via /\ MayHop(i, c.via) /\ Edge(i).to \notin request.units
           /\ c.refs = c.via[Edge(i).from].chain \cup {<<HR, i>>}
    BY <1>2, <1>8 DEF Reached, Stopped
  <2>2. <<HR, i>> \in refs /\ Edge(i).from \in D /\ c.via[Edge(i).from].rel = d.via[Edge(i).from].rel
    BY <1>1, <1>7, <1>8, <2>1 DEF ChainOf
  <2>3. MayHop(i, d.via)
    BY <2>1, <2>2 DEF MayHop
  <2>4. Edge(i).to \in D
    BY <1>3, <1>4, <2>1, <2>2, <2>3 DEF Reached, Passed
  <2> QED BY <1>3, <2>1, <2>4 DEF Reached, Entered
<1>9. CASE ByHit(c, A, by)
  <2>1. PICK i \in Hits(DOMAIN c.via, A) : by = {<<HP, i>>} \cup ChainOf(c, Edge(i).from) \cup ChainOf(c, Edge(i).to)
    BY <1>9 DEF ByHit
  <2>2. i \in Prohibitions /\ Edge(i).from \in DOMAIN c.via /\ Edge(i).to \in DOMAIN c.via
    BY DEF Hits
  <2>3. <<HP, i>> \in refs /\ Edge(i).from \in D /\ Edge(i).to \in D
    BY <1>1, <1>7, <2>1, <2>2
  <2>4. i \in Hits(D, refs)
    BY <2>2, <2>3 DEF Hits
  <2> QED BY <1>4, <2>4
<1>10. CASE ByDenial(c, A, by)
  <2>1. PICK u \in Denials(DOMAIN c.via, A) : by = {<<RP, u>>} \cup ChainOf(c, u)
    BY <1>10 DEF ByDenial
  <2>2. u \in Policies /\ u \in DOMAIN c.via /\ request.label[u] # "open"
    BY DEF Denials
  <2>3. <<RP, u>> \in refs /\ u \in D
    BY <1>1, <1>7, <2>1, <2>2
  <2>4. u \in Denials(D, refs)
    BY <2>2, <2>3 DEF Denials
  <2> QED BY <1>4, <2>4
<1>11. CASE ByCycle(c, A, by)
  <2> DEFINE included == DOMAIN c.via
             arcs == Arcs(included, A)
             arcs2 == Arcs(D, refs)
  <2>1. PICK C \in RejectedCycles(included, arcs) : by = ({ORD} \X Within(C, arcs)) \cup UNION {ChainOf(c, u) : u \in C}
    BY <1>11 DEF ByCycle
  <2>2. IsFiniteSet(included) /\ IsFiniteSet(D)
    BY <1>2, <1>3, FS_Subset DEF Posed
  <2>3. /\ \A i \in arcs : Before(i) \in included /\ After(i) \in included
        /\ \A i \in arcs2 : Before(i) \in D /\ After(i) \in D
    BY ArcsAre
  <2>4. C \in SUBSET included
    BY <2>2, <2>3, ComponentsPartition DEF RejectedCycles
  <2>5. C \subseteq D
    BY <1>7, <2>1, <2>4
  <2>6. Within(C, arcs) \subseteq arcs2
    <3>1. ASSUME NEW i \in Within(C, arcs) PROVE i \in arcs2
      <4>1. i \in Orderings /\ Before(i) \in C /\ After(i) \in C
        BY DEF Within, Arcs
      <4>2. <<ORD, i>> \in by
        BY <2>1
      <4> QED BY <1>1, <2>5, <4>1, <4>2 DEF Arcs
    <3> QED BY <3>1
  <2> HIDE DEF included, arcs, arcs2
  <2>7. RejectedCycles(D, arcs2) # {}
    BY <2>1, <2>2, <2>3, <2>5, <2>6, CycleStays
  <2> QED BY <1>4, <2>7 DEF arcs2
<1> QED BY <1>6, <1>8, <1>9, <1>10, <1>11

\* They are refs it was given, and branches.
LEMMA BlockerBranches ==
    ASSUME Posed, MissingSeeds = {}, NEW A, Evaluation(request.mandatory, A).blocked # Nil
    PROVE  Branches(Evaluation(request.mandatory, A).refs) /\ Evaluation(request.mandatory, A).refs \subseteq A
<1> DEFINE c == Closure(request.mandatory, A)
           by == Verdict(c, A).refs
<1>1. Reached(c, A) /\ DOMAIN c.via \in SUBSET Ids /\ \A u \in DOMAIN c.via : ChainOf(c, u) \subseteq A
  <2>1. Reached(c, A) /\ \A u \in DOMAIN c.via : c.via[u].chain \subseteq A
    BY ClosureReached
  <2>2. c \in Rounds(A)
    BY <2>1 DEF Reached
  <2> QED BY <2>1, <2>2, ViasAre DEF Rounds, ChainOf
<1>2. (c.blocked # Nil /\ by = c.refs) \/ ByHit(c, A, by) \/ ByDenial(c, A, by) \/ ByCycle(c, A, by)
  BY <1>1, VerdictNames DEF Evaluation
<1> HIDE DEF c, by
<1>3. \A u, w \in DOMAIN c.via : \A i, j \in Requirements :
         <<HR, i>> \in ChainOf(c, u) /\ <<HR, j>> \in ChainOf(c, w) /\ Edge(i).to = Edge(j).to => i = j
  BY <1>1 DEF Reached, Chained, ChainOf
<1>4. \A k, l : <<HR, k>> # <<HP, l>> /\ <<HR, k>> # <<RP, l>> /\ <<HR, k>> # <<ORD, l>> /\ (<<HR, k>> = <<HR, l>> => k = l)
  BY DEF HR, HP, RP, ORD
<1>5. ASSUME NEW X, X \subseteq DOMAIN c.via, \A r \in by : (\E k : r = <<HR, k>>) => \E u \in X : r \in ChainOf(c, u)
      PROVE  Branches(by)
  BY <1>3, <1>5 DEF Branches
<1>6. CASE c.blocked # Nil /\ by = c.refs
  <2>1. PICK k \in Requirements :
           /\ <<HR, k>> \in A /\ Edge(k).from \in DOMAIN c.via /\ Edge(k).to \notin request.units
           /\ by = ChainOf(c, Edge(k).from) \cup {<<HR, k>>}
    BY <1>1, <1>6 DEF Reached, Stopped, ChainOf
  <2>2. DOMAIN c.via \subseteq request.units
    BY <1>1 DEF Reached, Entered
  <2>3. ASSUME NEW i \in Requirements, <<HR, i>> \in by
        PROVE  i = k \/ (<<HR, i>> \in ChainOf(c, Edge(k).from) /\ Edge(i).to \in request.units)
    <3>1. CASE <<HR, i>> \in ChainOf(c, Edge(k).from)
      <4>1. PICK j \in Requirements : <<HR, i>> = <<HR, j>> /\ Edge(j).to \in DOMAIN c.via
        BY <1>1, <2>1, <3>1 DEF Reached, Chained, ChainOf
      <4> QED BY <1>4, <2>2, <3>1, <4>1
    <3>2. CASE <<HR, i>> = <<HR, k>>
      BY <1>4, <3>2
    <3> QED BY <2>1, <2>3, <3>1, <3>2
  <2>4. ASSUME NEW i \in Requirements, NEW j \in Requirements, <<HR, i>> \in by, <<HR, j>> \in by, Edge(i).to = Edge(j).to
        PROVE  i = j
    BY <1>3, <2>1, <2>3, <2>4
  <2>5. by \subseteq A
    BY <1>1, <2>1
  <2> QED BY <2>4, <2>5 DEF Branches, Evaluation, c, by
<1>7. CASE ByHit(c, A, by)
  <2>1. PICK i \in Hits(DOMAIN c.via, A) : by = {<<HP, i>>} \cup ChainOf(c, Edge(i).from) \cup ChainOf(c, Edge(i).to)
    BY <1>7 DEF ByHit
  <2>2. Edge(i).from \in DOMAIN c.via /\ Edge(i).to \in DOMAIN c.via /\ <<HP, i>> \in A
    BY DEF Hits
  <2>3. Branches(by)
    <3> DEFINE X == {Edge(i).from, Edge(i).to}
    <3>1. X \subseteq DOMAIN c.via /\ \A r \in by : (\E k : r = <<HR, k>>) => \E u \in X : r \in ChainOf(c, u)
      BY <1>4, <2>1, <2>2
    <3> HIDE DEF X
    <3> QED BY <1>5, <3>1
  <2>4. by \subseteq A
    BY <1>1, <2>1, <2>2
  <2> QED BY <2>3, <2>4 DEF Evaluation, c, by
<1>8. CASE ByDenial(c, A, by)
  <2>1. PICK u \in Denials(DOMAIN c.via, A) : by = {<<RP, u>>} \cup ChainOf(c, u)
    BY <1>8 DEF ByDenial
  <2>2. u \in DOMAIN c.via /\ <<RP, u>> \in A
    BY DEF Denials
  <2>3. Branches(by)
    <3>1. {u} \subseteq DOMAIN c.via /\ \A r \in by : (\E k : r = <<HR, k>>) => \E v \in {u} : r \in ChainOf(c, v)
      BY <1>4, <2>1, <2>2
    <3> QED BY <1>5, <3>1
  <2>4. by \subseteq A
    BY <1>1, <2>1, <2>2
  <2> QED BY <2>3, <2>4 DEF Evaluation, c, by
<1>9. CASE ByCycle(c, A, by)
  <2> DEFINE included == DOMAIN c.via
             arcs == Arcs(included, A)
  <2>1. PICK C \in RejectedCycles(included, arcs) : by = ({ORD} \X Within(C, arcs)) \cup UNION {ChainOf(c, u) : u \in C}
    BY <1>9 DEF ByCycle
  <2>2. C \in SUBSET included
    <3>1. IsFiniteSet(included) /\ \A i \in arcs : Before(i) \in included /\ After(i) \in included
      BY <1>1, FS_Subset, ArcsAre DEF Posed
    <3> QED BY <3>1, ComponentsPartition DEF RejectedCycles
  <2>3. \A r \in {ORD} \X Within(C, arcs) : r \in A /\ \E l : r = <<ORD, l>>
    BY DEF Within, Arcs
  <2> HIDE DEF arcs
  <2>4. Branches(by)
    <3>1. C \subseteq DOMAIN c.via /\ \A r \in by : (\E k : r = <<HR, k>>) => \E v \in C : r \in ChainOf(c, v)
      BY <1>4, <2>1, <2>2, <2>3
    <3> QED BY <1>5, <3>1
  <2>5. by \subseteq A
    BY <1>1, <2>1, <2>2, <2>3
  <2> QED BY <2>4, <2>5 DEF Evaluation, c, by
<1> QED BY <1>2, <1>6, <1>7, <1>8, <1>9

-----------------------------------------------------------------------------
(* The core: deletion keeps what is needed *)

\* Fewer branches block no more.
LEMMA FewerBlockNoMore ==
    ASSUME Posed, MissingSeeds = {}, NEW refs, Branches(refs), NEW S, S \subseteq refs, ~Unsat(refs)
    PROVE  ~Unsat(S)
<1> SUFFICES ASSUME Unsat(S) PROVE FALSE
  OBVIOUS
<1>1. Evaluation(request.mandatory, S).blocked # Nil
  BY DEF Unsat
<1>2. Evaluation(request.mandatory, S).refs \subseteq refs
  BY <1>1, BlockerBranches
<1>3. Unsat(refs)
  BY <1>1, <1>2, BlockerBlocks
<1> QED BY <1>3

CoreIs(refs, left) ==
    /\ MissingSeeds = {}
    /\ refs \subseteq Refs /\ left \subseteq refs /\ Branches(refs) /\ Unsat(refs)
    /\ \A r \in refs \ left : ~Unsat(refs \ {r})
CoreInv ==
    /\ request \in Requests
    /\ phase \in {"core", "unsat"} => CoreIs(core, untried)
    /\ phase = "unsat" => untried = {}

LEMMA RefsAreNumbers == Posed => Refs \subseteq Nat \X Nat
BY NumbersOf DEF Refs, HP, HR, ORD, RP

\* minimiseCore's step: one ref fewer to try, and one fewer in the core when the others block.
LEMMA CoreShrinks ==
    ASSUME Posed, NEW refs, NEW left, CoreIs(refs, left), NEW ref \in left
    PROVE  /\ Unsat(refs \ {ref}) => CoreIs(refs \ {ref}, left \ {ref})
           /\ ~Unsat(refs \ {ref}) => CoreIs(refs, left \ {ref})
<1>1. ASSUME Unsat(refs \ {ref}) PROVE CoreIs(refs \ {ref}, left \ {ref})
  <2> DEFINE fewer == refs \ {ref}
  <2>1. fewer \subseteq refs /\ MissingSeeds = {}
    BY DEF CoreIs
  <2>2. Branches(fewer)
    BY <2>1 DEF CoreIs, Branches
  <2>3. ASSUME NEW r \in fewer \ (left \ {ref}) PROVE ~Unsat(fewer \ {r})
    <3>1. ~Unsat(refs \ {r})
      BY <2>3 DEF CoreIs
    <3>2. Branches(refs \ {r})
      BY DEF CoreIs, Branches
    <3>3. fewer \ {r} \subseteq refs \ {r}
      OBVIOUS
    <3> QED BY <2>1, <3>1, <3>2, <3>3, FewerBlockNoMore
  <2> QED BY <1>1, <2>1, <2>2, <2>3 DEF CoreIs
<1>2. ASSUME ~Unsat(refs \ {ref}) PROVE CoreIs(refs, left \ {ref})
  BY <1>2 DEF CoreIs
<1> QED BY <1>1, <1>2

LEMMA BranchesStay ==
    ASSUME request' = request
    PROVE  \A refs : Branches(refs)' = Branches(refs)
BY ModelStays DEF Branches

LEMMA UnsatStays ==
    ASSUME request' = request
    PROVE  \A refs : Unsat(refs)' = Unsat(refs)
<1>1. \A seeds, refs : Evaluation(seeds, refs)' = Evaluation(seeds, refs)
  BY EvaluationStays
<1>2. request.mandatory' = request.mandatory
  OBVIOUS
<1> QED BY <1>1, <1>2 DEF Unsat

LEMMA CoreNext ==
    ASSUME request' = request, CoreIs(core', untried')
    PROVE  CoreIs(core, untried)'
<1>1. MissingSeeds' = {} /\ Refs' = Refs
  BY ModelStays DEF CoreIs
<1>2. Branches(core)' /\ Unsat(core)'
  BY BranchesStay, UnsatStays DEF CoreIs
<1>3. (\A r \in core \ untried : ~Unsat(core \ {r}))'
  BY UnsatStays DEF CoreIs
<1> QED BY <1>1, <1>2, <1>3 DEF CoreIs

LEMMA CoreStep ==
    ASSUME Solvable, CoreInv, [SolverNext]_solverVars
    PROVE  CoreInv'
<1>1. Posed
  BY PosedRequest DEF CoreInv
<1>2. request' = request /\ request' \in Requests
  BY DEF SolverNext, solverVars, Reject, Admit, Block, Delete, Refute, Prefer, Plan, CoreInv
<1>3. CASE Block
  <2> DEFINE by == Evaluation(request.mandatory, Refs).refs
  <2>1. MissingSeeds = {} /\ Evaluation(request.mandatory, Refs).blocked # Nil /\ phase' = "core" /\ untried' = core'
    BY <1>3 DEF Block
  <2>2. Branches(by) /\ by \subseteq Refs
    BY <1>1, <2>1, BlockerBranches
  <2>3. Unsat(by)
    BY <1>1, <2>1, <2>2, BlockerBlocks
  <2>4. core' = by
    BY <1>3, <2>3 DEF Block
  <2> HIDE DEF by
  <2>5. CoreIs(core', untried')
    BY <2>1, <2>2, <2>3, <2>4 DEF CoreIs
  <2> QED BY <1>2, <2>1, <2>5, CoreNext DEF CoreInv
<1>4. CASE Delete
  <2> DEFINE ref == First(untried)
  <2>1. phase = "core" /\ phase' = phase /\ CoreIs(core, untried) /\ untried # {} /\ untried' = untried \ {ref}
    BY <1>4 DEF Delete, CoreInv
  <2>2. core' = IF Unsat(core \ {ref}) THEN core \ {ref} ELSE core
    BY <1>4 DEF Delete
  <2>3. ref \in untried
    <3>1. untried \subseteq Nat \X Nat
      BY <1>1, <2>1, RefsAreNumbers DEF CoreIs
    <3> QED BY <2>1, <3>1, FirstOfPairs
  <2> HIDE DEF ref
  <2>4. CoreIs(core', untried')
    BY <1>1, <2>1, <2>2, <2>3, CoreShrinks
  <2> QED BY <1>2, <2>1, <2>4, CoreNext DEF CoreInv
<1>5. CASE Refute
  <2>1. phase = "core" /\ untried = {} /\ untried' = untried /\ core' = core
    BY <1>5 DEF Refute
  <2>2. CoreIs(core', untried')
    BY <2>1 DEF CoreInv
  <2> QED BY <1>2, <2>1, <2>2, CoreNext DEF CoreInv
<1>6. CASE phase' \notin {"core", "unsat"}
  BY <1>2, <1>6 DEF CoreInv
<1>7. CASE UNCHANGED solverVars /\ phase \in {"core", "unsat"}
  <2>1. core' = core /\ untried' = untried /\ phase' = phase
    BY <1>7 DEF solverVars
  <2>2. CoreIs(core', untried')
    BY <1>7, <2>1 DEF CoreInv
  <2> QED BY <1>2, <2>1, <2>2, CoreNext DEF CoreInv
<1>8. CASE Reject
  BY <1>6, <1>8 DEF Reject
<1>9. CASE Admit
  BY <1>6, <1>9 DEF Admit
<1>10. CASE Prefer
  BY <1>6, <1>10 DEF Prefer
<1>11. CASE Plan
  BY <1>6, <1>11 DEF Plan
<1>12. CASE UNCHANGED solverVars
  BY <1>6, <1>7, <1>12 DEF solverVars
<1> QED BY <1>3, <1>4, <1>5, <1>8, <1>9, <1>10, <1>11, <1>12 DEF SolverNext

\* The core of an unsatisfiable plan blocks, and every ref left in it is load-bearing: what a blocked
\* evaluation names blocks by itself, so minimiseCore() starts from it, and of refs that are branches
\* fewer block no more, so one pass of deletions is enough.
THEOREM CoreStaysMinimal == Solvable => (SolverSpec => []CoreIsMinimal)
<1> SUFFICES ASSUME Solvable PROVE SolverSpec => []CoreIsMinimal
  OBVIOUS
<1>1. SolverInit => CoreInv
  BY DEF SolverInit, Begin, CoreInv
<1>2. CoreInv /\ [SolverNext]_solverVars => CoreInv'
  BY CoreStep
<1>3. CoreInv => CoreIsMinimal
  BY DEF CoreInv, CoreIs, CoreIsMinimal
<1> QED BY <1>1, <1>2, <1>3, PTL DEF SolverSpec

-----------------------------------------------------------------------------
(* All of it *)

TypesInv == LawfulInv /\ CoreInv /\ consumed \in Nat /\ SolverTypeOK

LEMMA TypesStep ==
    ASSUME Solvable, TypesInv, [SolverNext]_solverVars
    PROVE  TypesInv'
<1>1. Posed /\ request' = request
  BY PosedRequest DEF TypesInv, LawfulInv, SolverNext, solverVars, Reject, Admit, Block, Delete, Refute, Prefer, Plan
<1>2. LawfulInv' /\ CoreInv'
  BY LawfulStep, CoreStep DEF TypesInv
<1>3. DeriveFails' = DeriveFails /\ Refs' = Refs
  BY <1>1, ModelStays DEF DeriveFails, Edges
<1>4. phase' \in {"start", "core", "prefer", "invalid", "unsat", "planned"}
  BY DEF TypesInv, SolverTypeOK, SolverNext, solverVars, Reject, Admit, Block, Delete, Refute, Prefer, Plan
<1>5. selected' \subseteq Ids
  BY <1>2 DEF LawfulInv
<1>6. \A S \in SUBSET Ids : Cost(S) \in Nat
  <2>1. IsFiniteSet(Ids) /\ request.cost \in [Ids -> Nat]
    BY <1>1 DEF Posed, WellPosed
  <2>2. ASSUME NEW S \in SUBSET Ids PROVE Sum(request.cost, S) \in Nat
    <3>1. PICK h : SumsOf(request.cost, Ids, h)
      BY <2>1, SumsOfSubsets
    <3> QED BY <3>1 DEF SumsOf
  <2> QED BY <2>2, CostIs
<1>7. consumed' \in Nat
  <2>1. CASE phase' \in {"prefer", "planned"}
    <3>1. consumed' = Cost(selected)'
      BY <1>2, <2>1 DEF LawfulInv, SelectionIsLawful
    <3>2. consumed' = Sum(request.cost, selected')
      BY <1>1, <3>1, CostNext
    <3> QED BY <1>5, <1>6, <3>2, CostIs
  <2>2. CASE phase' \notin {"prefer", "planned"}
    <3>1. consumed' = consumed
      BY <2>2 DEF SolverNext, solverVars, Reject, Admit, Block, Delete, Refute, Prefer, Plan
    <3> QED BY <3>1 DEF TypesInv
  <2> QED BY <2>1, <2>2
<1>8. core' \cup untried' \subseteq IF DeriveFails THEN {} ELSE Refs
  <2>1. CASE UNCHANGED <<core, untried>>
    BY <2>1 DEF TypesInv, SolverTypeOK
  <2>2. CASE Block
    <3>1. phase' = "core" /\ ~DeriveFails
      BY <2>2 DEF Block
    <3>2. core' \subseteq Refs /\ untried' \subseteq core'
      BY <1>2, <1>3, <3>1 DEF CoreInv, CoreIs
    <3> QED BY <3>1, <3>2
  <2>3. CASE Delete
    <3>1. core' \subseteq core /\ untried' \subseteq untried
      BY <2>3 DEF Delete
    <3> QED BY <3>1 DEF TypesInv, SolverTypeOK
  <2> QED BY <2>1, <2>2, <2>3 DEF SolverNext, solverVars, Reject, Admit, Refute, Prefer, Plan
<1>9. SolverTypeOK'
  BY <1>3, <1>4, <1>5, <1>7, <1>8 DEF SolverTypeOK
<1> QED BY <1>2, <1>7, <1>9 DEF TypesInv

\* The solver's variables have the types its code gives them: no unit is selected that no edge may name,
\* and a core is of constraints the request derives.
THEOREM SolverTypes == Solvable => (SolverSpec => []SolverTypeOK)
<1> SUFFICES ASSUME Solvable PROVE SolverSpec => []SolverTypeOK
  OBVIOUS
<1>1. SolverInit => TypesInv
  BY DEF SolverInit, Begin, TypesInv, LawfulInv, SelectionIsLawful, CoreInv, SolverTypeOK
<1>2. TypesInv /\ [SolverNext]_solverVars => TypesInv'
  BY TypesStep
<1>3. TypesInv => SolverTypeOK
  BY DEF TypesInv
<1> QED BY <1>1, <1>2, <1>3, PTL DEF SolverSpec

\* What solve() answers is sound, for every model, every graph and every request that is well posed: what
\* it selects is lawful, the order it gives is respected, and the core of a refusal is minimal.
THEOREM SolutionStaysSound == Solvable => (SolverSpec => []SolutionIsSound)
<1> SUFFICES ASSUME Solvable PROVE SolverSpec => []SolutionIsSound
  OBVIOUS
<1>1. SolverSpec => []SelectionIsLawful /\ []OrderIsRespected /\ []CoreIsMinimal
  BY SelectionStaysLawful, OrderStaysRespected, CoreStaysMinimal
<1>2. SelectionIsLawful /\ OrderIsRespected /\ CoreIsMinimal => SolutionIsSound
  BY DEF SolutionIsSound
<1> QED BY <1>1, <1>2, PTL
=============================================================================
