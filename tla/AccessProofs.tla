---------------------------- MODULE AccessProofs ----------------------------
(***************************************************************************)
(* Proofs about what a principal is shown and allowed, for every catalog,  *)
(* routing, holding, set of rules and request.  ProjectionEngine: what is  *)
(* served follows the rules of an engine asked in the same scope under the *)
(* same references, whoever filled the cache, and the budget is kept and   *)
(* used; the order of the levels, the sums                                 *)
(* and the degradation are shown first, each for itself.  PolicyEngine:    *)
(* a decision follows from the rules that agree, in any order, and the     *)
(* sets of a directory are loaded all or none.                             *)
(***************************************************************************)
EXTENDS ProjectionEngine, PolicyEngine, InductionTheorems, FiniteSetTheorems, SequenceTheorems, TLAPS

-----------------------------------------------------------------------------
(* Finite recursion *)

\* A function on 0..N may be defined by its first value and by what each step makes of the last one.
Steps(f, N, b, g) == f = [n \in 0..N |-> IF n = 0 THEN b ELSE g[n][f[n - 1]]]

LEMMA StepsExist ==
    ASSUME NEW N \in Nat, NEW V, NEW b \in V, NEW g \in [1..N -> [V -> V]]
    PROVE  \E f \in [0..N -> V] : Steps(f, N, b, g)
<1> DEFINE S == {n \in Nat : n <= N => \E f \in [0..n -> V] : Steps(f, n, b, g)}
<1>1. 0 \in S
  <2> DEFINE f == [n \in 0..0 |-> b]
  <2>1. f \in [0..0 -> V] /\ Steps(f, 0, b, g)
    BY DEF Steps
  <2> QED BY <2>1
<1>2. ASSUME NEW n \in Nat, n \in S PROVE n + 1 \in S
  <2> SUFFICES ASSUME n + 1 <= N PROVE \E f \in [0..(n + 1) -> V] : Steps(f, n + 1, b, g)
    OBVIOUS
  <2>1. PICK h \in [0..n -> V] : Steps(h, n, b, g)
    BY <1>2
  <2> DEFINE new == g[n + 1][h[n]]
             f == [i \in 0..(n + 1) |-> IF i = n + 1 THEN new ELSE h[i]]
  <2>2. n + 1 \in 1..N /\ n \in 0..n /\ new \in V
    BY <2>1
  <2>3. f \in [0..(n + 1) -> V]
    <3> HIDE DEF new
    <3> QED BY <2>1, <2>2
  <2>4. ASSUME NEW i \in 0..(n + 1)
        PROVE  f[i] = IF i = 0 THEN b ELSE g[i][f[i - 1]]
    <3>1. CASE i = n + 1
      <4>1. i # 0 /\ i - 1 = n /\ n \in 0..(n + 1) /\ n # n + 1
        BY <3>1
      <4>2. f[i] = new /\ f[i - 1] = h[n]
        BY <3>1, <4>1
      <4> HIDE DEF f
      <4> QED BY <3>1, <4>1, <4>2
    <3>2. CASE i # n + 1
      <4>1. i \in 0..n /\ f[i] = h[i]
        BY <3>2
      <4>2. i # 0 => i - 1 \in 0..(n + 1) /\ i - 1 # n + 1
        BY <4>1
      <4>3. i # 0 => f[i - 1] = h[i - 1]
        BY <4>2
      <4>4. h[i] = IF i = 0 THEN b ELSE g[i][h[i - 1]]
        BY <2>1, <4>1 DEF Steps
      <4> HIDE DEF f
      <4> QED BY <4>1, <4>3, <4>4
    <3> QED BY <3>1, <3>2
  <2>5. f = [i \in 0..(n + 1) |-> f[i]]
    OBVIOUS
  <2> HIDE DEF f
  <2>6. Steps(f, n + 1, b, g)
    BY <2>4, <2>5 DEF Steps
  <2> QED BY <2>3, <2>6
<1> HIDE DEF S
<1>3. N \in S
  BY <1>1, <1>2, Induction
<1> QED BY <1>3 DEF S

\* A set of numbers up to N that is not empty has a greatest one.
LEMMA GreatestUpTo ==
    ASSUME NEW N \in Nat, NEW T, T \subseteq 0..N, T # {}
    PROVE  \E x \in T : \A y \in T : y <= x
<1> DEFINE U == {n \in 0..N : \A y \in T : y <= n}
<1>1. N \in U
  OBVIOUS
<1>2. PICK x \in U : \A y \in U : x <= y
  <2>1. U \subseteq Nat /\ U # {}
    BY <1>1
  <2> HIDE DEF U
  <2> QED BY <2>1, LeastNat
<1>3. CASE x \in T
  BY <1>2, <1>3
<1>4. CASE x \notin T
  <2>1. \A y \in T : y <= x /\ y # x /\ y \in Nat
    BY <1>2, <1>4
  <2>2. x # 0
    <3>1. PICK y \in T : TRUE
      OBVIOUS
    <3>2. y <= x /\ y # x /\ y \in Nat
      BY <2>1
    <3> QED BY <3>2
  <2>3. x - 1 \in 0..N
    BY <1>2, <2>2
  <2>4. \A y \in T : y <= x - 1
    BY <1>2, <2>1, <2>3
  <2>5. x - 1 \in U
    BY <2>3, <2>4
  <2> QED BY <1>2, <2>3, <2>5
<1> QED BY <1>3, <1>4

-----------------------------------------------------------------------------
(* The levels of a profile, cheapest first *)

\* Levels have a price and a place in the order of names each, and no two of them have both the same.
Priced(S) ==
    /\ IsFiniteSet(S)
    /\ \A d \in S : d.tokens \in Nat /\ d.rank \in Nat
    /\ \A d, e \in S : d.tokens = e.tokens /\ d.rank = e.rank => d = e
Below(S, d) == {e \in S : Cheaper(e, d)}

LEMMA CheaperIs ==
    ASSUME NEW S, Priced(S)
    PROVE  /\ \A d \in S : ~Cheaper(d, d)
           /\ \A c, d, e \in S : Cheaper(c, d) /\ Cheaper(d, e) => Cheaper(c, e)
           /\ \A d, e \in S : d = e \/ Cheaper(d, e) \/ Cheaper(e, d)
           /\ \A d, e \in S : Cheaper(d, e) => d.tokens <= e.tokens
<1>1. \A d \in S : d.tokens \in Nat /\ d.rank \in Nat
  BY DEF Priced
<1>2. \A d, e \in S : d.tokens = e.tokens /\ d.rank = e.rank => d = e
  BY DEF Priced
<1>3. \A d \in S : ~Cheaper(d, d)
  BY <1>1 DEF Cheaper
<1>4. \A c, d, e \in S : Cheaper(c, d) /\ Cheaper(d, e) => Cheaper(c, e)
  BY <1>1 DEF Cheaper
<1>5. \A d, e \in S : d = e \/ Cheaper(d, e) \/ Cheaper(e, d)
  BY <1>1, <1>2 DEF Cheaper
<1>6. \A d, e \in S : Cheaper(d, e) => d.tokens <= e.tokens
  BY <1>1 DEF Cheaper
<1> QED BY <1>3, <1>4, <1>5, <1>6

LEMMA PlaceIs ==
    ASSUME NEW S, Priced(S)
    PROVE  /\ \A d \in S : Cardinality(Below(S, d)) + 1 \in 1..Cardinality(S)
           /\ \A d, e \in S : Cheaper(d, e) => Cardinality(Below(S, d)) < Cardinality(Below(S, e))
           /\ \A k \in 1..Cardinality(S) : \E d \in S : Cardinality(Below(S, d)) = k - 1
<1> DEFINE B(d) == {e \in S : Cheaper(e, d)}
           n == Cardinality(S)
           r == [d \in S |-> Cardinality(B(d)) + 1]
<1>1. /\ IsFiniteSet(S)
      /\ \A d \in S : ~Cheaper(d, d)
      /\ \A c, d, e \in S : Cheaper(c, d) /\ Cheaper(d, e) => Cheaper(c, e)
      /\ \A d, e \in S : d = e \/ Cheaper(d, e) \/ Cheaper(e, d)
  BY CheaperIs DEF Priced
<1>2. \A d \in S : B(d) \in SUBSET S /\ d \notin B(d)
  BY <1>1
<1>3. n \in Nat
  BY <1>1, FS_CardinalityType
<1>4. ASSUME NEW d \in S PROVE IsFiniteSet(B(d)) /\ Cardinality(B(d)) \in Nat /\ Cardinality(B(d)) < n
  <2>1. B(d) \in SUBSET S /\ B(d) # S
    BY <1>2
  <2> HIDE DEF B
  <2> QED BY <1>1, <1>3, <2>1, FS_Subset, FS_CardinalityType
<1>5. ASSUME NEW d \in S, NEW e \in S, Cheaper(d, e) PROVE Cardinality(B(d)) < Cardinality(B(e))
  <2>1. B(d) \in SUBSET B(e) /\ d \in B(e) /\ d \notin B(d)
    <3>1. \A c \in S : Cheaper(c, d) => Cheaper(c, e)
      BY <1>1, <1>5
    <3> QED BY <1>1, <1>5, <3>1
  <2>2. IsFiniteSet(B(e)) /\ Cardinality(B(d)) \in Nat /\ Cardinality(B(e)) \in Nat
    BY <1>4
  <2> HIDE DEF B
  <2>3. Cardinality(B(d)) <= Cardinality(B(e)) /\ Cardinality(B(d)) # Cardinality(B(e))
    BY <2>1, <2>2, FS_Subset
  <2> QED BY <2>2, <2>3
<1>6. r \in Injection(S, 1..n)
  <2>1. \A d \in S : Cardinality(B(d)) + 1 \in 1..n
    BY <1>3, <1>4
  <2>2. ASSUME NEW d \in S, NEW e \in S, Cardinality(B(d)) + 1 = Cardinality(B(e)) + 1 PROVE d = e
    <3>1. Cardinality(B(d)) \in Nat /\ Cardinality(B(e)) \in Nat
      BY <1>4
    <3>2. ~Cheaper(d, e) /\ ~Cheaper(e, d)
      <4> HIDE DEF B
      <4> QED BY <1>5, <2>2, <3>1
    <3> QED BY <1>1, <3>2
  <2> HIDE DEF B, n
  <2> QED BY <2>1, <2>2 DEF Injection, IsInjective
<1>7. r \in Surjection(S, 1..n)
  <2>1. IsFiniteSet(1..n) /\ Cardinality(1..n) = n
    BY <1>3, FS_Interval
  <2> HIDE DEF r, n
  <2>2. Cardinality(S) = Cardinality(1..n) <=> r \in Surjection(S, 1..n)
    BY <1>1, <1>6, <2>1, FS_Injection
  <2> QED BY <2>1, <2>2 DEF n
<1>8. ASSUME NEW k \in 1..n PROVE \E d \in S : Cardinality(B(d)) = k - 1
  <2>1. PICK d \in S : r[d] = k
    <3> HIDE DEF r
    <3> QED BY <1>7 DEF Surjection
  <2>2. Cardinality(B(d)) + 1 = k /\ Cardinality(B(d)) \in Nat
    BY <1>4, <2>1
  <2> HIDE DEF B
  <2> QED BY <2>2
<1>9. \A d \in S : Below(S, d) = B(d)
  BY DEF Below
<1> HIDE DEF B
<1> QED BY <1>3, <1>4, <1>5, <1>8, <1>9

Ascending(levels) == \A i, j \in DOMAIN levels : i < j => levels[i].tokens <= levels[j].tokens

LEMMA CheapestFirstIs ==
    ASSUME NEW S, Priced(S)
    PROVE  /\ CheapestFirst(S) \in Seq(S)
           /\ Len(CheapestFirst(S)) = Cardinality(S) /\ Cardinality(S) \in Nat
           /\ Ascending(CheapestFirst(S))
           /\ CheapestFirst(S) = << >> <=> S = {}
<1> DEFINE n == Cardinality(S)
           At(i) == CHOOSE d \in S : Cardinality(Below(S, d)) = i - 1
<1>1. CheapestFirst(S) = [i \in 1..n |-> At(i)]
  BY DEF CheapestFirst, Below
<1>2. n \in Nat
  BY FS_CardinalityType DEF Priced
<1>3. ASSUME NEW i \in 1..n PROVE At(i) \in S /\ Cardinality(Below(S, At(i))) = i - 1
  BY PlaceIs
<1>4. n = 0 <=> S = {}
  BY FS_EmptySet DEF Priced
<1> HIDE DEF n, At
<1>5. CheapestFirst(S) \in Seq(S) /\ Len(CheapestFirst(S)) = n
  BY <1>1, <1>2, <1>3
<1>6. Ascending(CheapestFirst(S))
  <2> SUFFICES ASSUME NEW i \in 1..n, NEW j \in 1..n, i < j PROVE At(i).tokens <= At(j).tokens
    BY <1>1 DEF Ascending
  <2>1. /\ At(i) \in S /\ Cardinality(Below(S, At(i))) = i - 1
        /\ At(j) \in S /\ Cardinality(Below(S, At(j))) = j - 1
    BY <1>3
  <2>2. At(i) # At(j)
    BY <1>2, <2>1
  <2>3. ~Cheaper(At(j), At(i))
    <3>1. Cheaper(At(j), At(i)) => j - 1 < i - 1
      BY <2>1, PlaceIs
    <3> QED BY <1>2, <3>1
  <2>4. Cheaper(At(i), At(j))
    BY <2>1, <2>2, <2>3, CheaperIs
  <2> QED BY <2>1, <2>4, CheaperIs
<1> QED BY <1>2, <1>4, <1>5, <1>6 DEF n

-----------------------------------------------------------------------------
(* Sums *)

Sums(f, s) == s = [n \in 0..Len(f) |-> IF n = 0 THEN 0 ELSE s[n - 1] + f[n]]
Partial(f) == CHOOSE s : Sums(f, s)

LEMMA SumIsPartial == \A f : SumOf(f) = Partial(f)[Len(f)]
BY DEF SumOf, Partial, Sums

LEMMA PartialIs ==
    ASSUME NEW f \in Seq(Nat)
    PROVE  /\ \A n \in 0..Len(f) : Partial(f)[n] \in Nat
           /\ Partial(f)[0] = 0
           /\ \A n \in 1..Len(f) : Partial(f)[n] = Partial(f)[n - 1] + f[n]
<1> DEFINE L == Len(f)
           g == [n \in 1..L |-> [v \in Nat |-> v + f[n]]]
<1>1. L \in Nat /\ \A n \in 1..L : f[n] \in Nat
  OBVIOUS
<1> HIDE DEF L
<1>2. g \in [1..L -> [Nat -> Nat]]
  BY <1>1
<1>3. \A n \in 1..L, v \in Nat : g[n][v] = v + f[n]
  OBVIOUS
<1> HIDE DEF g
<1>4. PICK s \in [0..L -> Nat] : Steps(s, L, 0, g)
  BY <1>1, <1>2, StepsExist
<1>5. ASSUME NEW n \in 0..L PROVE s[n] = IF n = 0 THEN 0 ELSE s[n - 1] + f[n]
  <2>1. s[n] = IF n = 0 THEN 0 ELSE g[n][s[n - 1]]
    BY <1>4 DEF Steps
  <2>2. n # 0 => n \in 1..L /\ s[n - 1] \in Nat
    BY <1>1, <1>4
  <2> QED BY <1>3, <2>1, <2>2
<1>6. Sums(f, s)
  BY <1>4, <1>5 DEF Sums, L
<1>7. Sums(f, Partial(f))
  BY <1>6 DEF Partial
<1> DEFINE p == Partial(f)
<1>8. p[0] = 0 /\ \A n \in 1..L : p[n] = p[n - 1] + f[n]
  <2> HIDE DEF p
  <2>1. \A n \in 0..L : p[n] = IF n = 0 THEN 0 ELSE p[n - 1] + f[n]
    BY <1>7 DEF Sums, L, p
  <2> QED BY <1>1, <2>1
<1> HIDE DEF p
<1> DEFINE S == {n \in Nat : n <= L => p[n] \in Nat}
<1>9. 0 \in S
  BY <1>8
<1>10. ASSUME NEW n \in Nat, n \in S PROVE n + 1 \in S
  <2> SUFFICES ASSUME n + 1 <= L PROVE p[n + 1] \in Nat
    OBVIOUS
  <2>1. n + 1 \in 1..L /\ (n + 1) - 1 = n /\ p[n] \in Nat
    BY <1>1, <1>10
  <2>2. p[n + 1] = p[n] + f[n + 1]
    BY <1>8, <2>1
  <2> QED BY <1>1, <2>1, <2>2
<1> HIDE DEF S
<1>11. \A n \in Nat : n \in S
  BY <1>9, <1>10, Induction
<1>12. \A n \in 0..L : p[n] \in Nat
  BY <1>1, <1>11 DEF S
<1> QED BY <1>8, <1>12 DEF p, L

LEMMA PartialStep ==
    ASSUME NEW f \in Seq(Nat), NEW n \in 1..Len(f)
    PROVE  /\ Partial(f)[n] = Partial(f)[n - 1] + f[n]
           /\ Partial(f)[n - 1] \in Nat /\ f[n] \in Nat
<1>1. n - 1 \in 0..Len(f) /\ f[n] \in Nat
  OBVIOUS
<1> QED BY <1>1, PartialIs

LEMMA SumIsNat == ASSUME NEW f \in Seq(Nat) PROVE SumOf(f) \in Nat
BY PartialIs, SumIsPartial

LEMMA SumOfNothing == ASSUME NEW f \in Seq(Nat), Len(f) = 0 PROVE SumOf(f) = 0
BY PartialIs, SumIsPartial

\* The sum of what is there twice as far is the same.
LEMMA SameUpTo ==
    ASSUME NEW f \in Seq(Nat), NEW g \in Seq(Nat), NEW k \in Nat, k <= Len(f), k <= Len(g),
           \A i \in 1..k : f[i] = g[i]
    PROVE  Partial(f)[k] = Partial(g)[k]
<1> DEFINE S == {n \in Nat : n <= k => Partial(f)[n] = Partial(g)[n]}
<1>1. 0 \in S
  BY PartialIs
<1>2. ASSUME NEW n \in Nat, n \in S PROVE n + 1 \in S
  <2> SUFFICES ASSUME n + 1 <= k PROVE Partial(f)[n + 1] = Partial(g)[n + 1]
    OBVIOUS
  <2>1. n + 1 \in 1..k /\ n + 1 \in 1..Len(f) /\ n + 1 \in 1..Len(g) /\ (n + 1) - 1 = n /\ n <= k
    OBVIOUS
  <2>2. Partial(f)[n + 1] = Partial(f)[n] + f[n + 1] /\ Partial(g)[n + 1] = Partial(g)[n] + g[n + 1]
    BY <2>1, PartialIs
  <2> QED BY <1>2, <2>1, <2>2
<1> HIDE DEF S
<1>3. k \in S
  BY <1>1, <1>2, Induction
<1> QED BY <1>3 DEF S

\* One element more.
LEMMA SumOfOneMore ==
    ASSUME NEW f \in Seq(Nat), NEW g \in Seq(Nat), Len(g) = Len(f) + 1, \A i \in 1..Len(f) : f[i] = g[i]
    PROVE  SumOf(g) = SumOf(f) + g[Len(f) + 1]
<1>1. PICK k \in Nat : k = Len(f)
  OBVIOUS
<1>2. k <= Len(f) /\ k <= Len(g) /\ k + 1 \in 1..Len(g) /\ (k + 1) - 1 = k /\ \A i \in 1..k : f[i] = g[i]
  BY <1>1
<1>3. Partial(f)[k] = Partial(g)[k]
  BY <1>2, SameUpTo
<1>4. Partial(g)[k + 1] = Partial(g)[k] + g[k + 1]
  <2>1. Partial(g)[k + 1] = Partial(g)[(k + 1) - 1] + g[k + 1]
    BY <1>2, PartialStep
  <2> QED BY <1>2, <2>1
<1>5. SumOf(f) = Partial(f)[k] /\ SumOf(g) = Partial(g)[k + 1]
  BY <1>1, SumIsPartial
<1> QED BY <1>1, <1>3, <1>4, <1>5

\* One element changes, and the sum with it.
LEMMA SumChanges ==
    ASSUME NEW f \in Seq(Nat), NEW g \in Seq(Nat), Len(f) = Len(g), NEW i \in 1..Len(f),
           \A j \in 1..Len(f) : j # i => f[j] = g[j]
    PROVE  SumOf(f) + g[i] = SumOf(g) + f[i]
<1>1. PICK L \in Nat : L = Len(f) /\ L = Len(g)
  OBVIOUS
<1>2. i \in 1..L /\ f[i] \in Nat /\ g[i] \in Nat /\ \A j \in 1..L : j # i => f[j] = g[j]
  BY <1>1
<1>3. ASSUME NEW n \in 1..L
      PROVE  /\ Partial(f)[n] = Partial(f)[n - 1] + f[n] /\ Partial(f)[n - 1] \in Nat /\ f[n] \in Nat
             /\ Partial(g)[n] = Partial(g)[n - 1] + g[n] /\ Partial(g)[n - 1] \in Nat /\ g[n] \in Nat
  <2>1. n \in 1..Len(f) /\ n \in 1..Len(g)
    BY <1>1
  <2>2. Partial(f)[n] = Partial(f)[n - 1] + f[n] /\ Partial(f)[n - 1] \in Nat /\ f[n] \in Nat
    BY <2>1, PartialStep
  <2>3. Partial(g)[n] = Partial(g)[n - 1] + g[n] /\ Partial(g)[n - 1] \in Nat /\ g[n] \in Nat
    BY <2>1, PartialStep
  <2> QED BY <2>2, <2>3
<1> DEFINE S == {n \in Nat : i <= n /\ n <= L => Partial(f)[n] + g[i] = Partial(g)[n] + f[i]}
<1>4. 0 \in S
  BY <1>2
<1>5. ASSUME NEW n \in Nat, n \in S PROVE n + 1 \in S
  <2> SUFFICES ASSUME i <= n + 1, n + 1 <= L
               PROVE  Partial(f)[n + 1] + g[i] = Partial(g)[n + 1] + f[i]
    OBVIOUS
  <2>1. n + 1 \in 1..L /\ (n + 1) - 1 = n
    BY <1>1
  <2>2. /\ Partial(f)[n + 1] = Partial(f)[n] + f[n + 1] /\ Partial(f)[n] \in Nat /\ f[n + 1] \in Nat
        /\ Partial(g)[n + 1] = Partial(g)[n] + g[n + 1] /\ Partial(g)[n] \in Nat /\ g[n + 1] \in Nat
    BY <1>3, <2>1
  <2>3. CASE i = n + 1
    <3>1. /\ \A j \in 1..n : f[j] = g[j]
          /\ n <= Len(f) /\ n <= Len(g)
      <4>1. \A j \in 1..n : j \in 1..L /\ j # i
        BY <2>1, <2>3
      <4> QED BY <1>1, <1>2, <2>1, <4>1
    <3>2. Partial(f)[n] = Partial(g)[n]
      BY <3>1, SameUpTo
    <3> QED BY <2>2, <2>3, <3>2
  <2>4. CASE i # n + 1
    <3>1. i <= n /\ n <= L
      BY <1>2, <2>1, <2>4
    <3>2. Partial(f)[n] + g[i] = Partial(g)[n] + f[i]
      BY <1>5, <3>1
    <3>3. f[n + 1] = g[n + 1]
      BY <1>2, <2>1, <2>4
    <3>4. Partial(g)[n + 1] = Partial(g)[n] + f[n + 1]
      BY <2>2, <3>3
    <3>5. Partial(f)[n] \in Nat /\ Partial(g)[n] \in Nat /\ f[n + 1] \in Nat /\ f[i] \in Nat /\ g[i] \in Nat
      BY <1>2, <2>2
    <3>6. (Partial(f)[n] + f[n + 1]) + g[i] = (Partial(g)[n] + f[n + 1]) + f[i]
      <4>1. PICK a \in Nat, b \in Nat, c \in Nat :
                 a = Partial(f)[n] /\ b = Partial(g)[n] /\ c = f[n + 1]
        BY <3>5
      <4>2. PICK x \in Nat, y \in Nat : x = f[i] /\ y = g[i]
        BY <3>5
      <4>3. a + y = b + x
        BY <3>2, <4>1, <4>2
      <4>4. (a + c) + y = (b + c) + x
        BY <4>3
      <4> QED BY <4>1, <4>2, <4>4
    <3> QED BY <2>2, <3>4, <3>6
  <2> QED BY <2>3, <2>4
<1>6. L \in S
  <2> HIDE DEF S
  <2> QED BY <1>4, <1>5, Induction
<1>7. Partial(f)[L] + g[i] = Partial(g)[L] + f[i]
  BY <1>1, <1>2, <1>6
<1>8. SumOf(f) = Partial(f)[L] /\ SumOf(g) = Partial(g)[L]
  BY <1>1, SumIsPartial
<1> QED BY <1>7, <1>8

LEMMA SumOfSome ==
    ASSUME NEW f \in Seq(Nat), Len(f) # 0, \A i \in 1..Len(f) : f[i] # 0
    PROVE  SumOf(f) # 0
<1>1. Len(f) \in 1..Len(f) /\ Len(f) - 1 \in 0..Len(f)
  OBVIOUS
<1>2. Partial(f)[Len(f)] = Partial(f)[Len(f) - 1] + f[Len(f)] /\ Partial(f)[Len(f) - 1] \in Nat
  BY <1>1, PartialIs
<1>3. f[Len(f)] \in Nat /\ f[Len(f)] # 0
  BY <1>1
<1> QED BY <1>2, <1>3, SumIsPartial

-----------------------------------------------------------------------------
(* Rows *)

\* Rows with levels from C: each has one of its levels, and these ascend.
Row(C) == [id : Nat, levels : Seq(C), at : Nat]
GoodRow(row) == row.at \in DOMAIN row.levels /\ Ascending(row.levels)
GoodRows(C, rows) == rows \in Seq(Row(C)) /\ \A i \in DOMAIN rows : GoodRow(rows[i])
Tokens(C) == \A d \in C : d.tokens \in Nat

Costs(rows) == [i \in DOMAIN rows |-> TokensOf(rows[i])]
Ats(rows) == [i \in DOMAIN rows |-> rows[i].at]

LEMMA RowIs ==
    ASSUME NEW C, Tokens(C), NEW row \in Row(C), GoodRow(row)
    PROVE  /\ row.at \in Nat /\ row.at >= 1 /\ row.at <= Len(row.levels)
           /\ TokensOf(row) \in Nat
           /\ row.at # 1 => /\ row.at - 1 \in DOMAIN row.levels
                            /\ TokensOf(row) - row.levels[row.at - 1].tokens \in Nat
<1>1. row.levels \in Seq(C) /\ row.at \in 1..Len(row.levels) /\ DOMAIN row.levels = 1..Len(row.levels) /\ Len(row.levels) \in Nat
  BY DEF Row, GoodRow
<1>2. \A i \in 1..Len(row.levels) : row.levels[i].tokens \in Nat
  BY <1>1 DEF Tokens
<1>3. TokensOf(row) = row.levels[row.at].tokens
  BY DEF TokensOf
<1>4. ASSUME row.at # 1
      PROVE  /\ row.at - 1 \in DOMAIN row.levels
             /\ TokensOf(row) - row.levels[row.at - 1].tokens \in Nat
  <2>1. row.at - 1 \in 1..Len(row.levels) /\ row.at - 1 < row.at
    BY <1>1, <1>4
  <2>2. row.levels[row.at - 1].tokens <= row.levels[row.at].tokens
    BY <1>1, <2>1 DEF GoodRow, Ascending
  <2>3. \A a, b \in Nat : b <= a => a - b \in Nat
    OBVIOUS
  <2>4. TokensOf(row) - row.levels[row.at - 1].tokens \in Nat
    BY <1>1, <1>2, <1>3, <2>1, <2>2, <2>3
  <2> QED BY <1>1, <2>1, <2>4
<1> QED BY <1>1, <1>2, <1>3, <1>4

LEMMA CostsAre ==
    ASSUME NEW C, Tokens(C), NEW rows, GoodRows(C, rows)
    PROVE  /\ Costs(rows) \in Seq(Nat) /\ Len(Costs(rows)) = Len(rows)
           /\ Ats(rows) \in Seq(Nat) /\ Len(Ats(rows)) = Len(rows)
           /\ Total(rows) = SumOf(Costs(rows)) /\ Downgrades(rows) = SumOf(Ats(rows))
<1>1. Len(rows) \in Nat /\ DOMAIN rows = 1..Len(rows)
  BY DEF GoodRows
<1>2. \A i \in 1..Len(rows) : TokensOf(rows[i]) \in Nat /\ rows[i].at \in Nat
  BY <1>1, RowIs DEF GoodRows
<1> QED BY <1>1, <1>2 DEF Costs, Ats, Total, Downgrades

LEMMA TotalIsNat ==
    ASSUME NEW C, Tokens(C), NEW rows, GoodRows(C, rows)
    PROVE  Total(rows) \in Nat /\ Downgrades(rows) \in Nat
BY CostsAre, SumIsNat

\* Rows that are moved cost the difference more.
LEMMA MovedIs ==
    ASSUME NEW C, NEW rows, GoodRows(C, rows), NEW i \in DOMAIN rows, NEW by \in Int,
           rows[i].at + by \in DOMAIN rows[i].levels
    PROVE  /\ GoodRows(C, Moved(rows, i, by)) /\ Len(Moved(rows, i, by)) = Len(rows)
           /\ DOMAIN Moved(rows, i, by) = DOMAIN rows
           /\ \A j \in DOMAIN rows :
                /\ Moved(rows, i, by)[j].id = rows[j].id /\ Moved(rows, i, by)[j].levels = rows[j].levels
                /\ j # i => Moved(rows, i, by)[j] = rows[j]
           /\ Moved(rows, i, by)[i].at = rows[i].at + by
<1> DEFINE new == [rows[i] EXCEPT !.at = rows[i].at + by]
<1>1. Len(rows) \in Nat /\ DOMAIN rows = 1..Len(rows) /\ \A j \in DOMAIN rows : rows[j] \in Row(C) /\ GoodRow(rows[j])
  BY DEF GoodRows
<1>2. rows[i].levels \in Seq(C) /\ rows[i].at \in Nat /\ rows[i].id \in Nat
  BY <1>1 DEF Row
<1>3. new \in Row(C) /\ new.id = rows[i].id /\ new.levels = rows[i].levels /\ new.at = rows[i].at + by
  <2>1. rows[i].at + by \in Nat
    BY <1>2
  <2> QED BY <1>1, <2>1 DEF Row
<1>4. GoodRow(new)
  BY <1>1, <1>3 DEF GoodRow
<1> HIDE DEF new
<1> DEFINE m == Moved(rows, i, by)
<1>5. m = [rows EXCEPT ![i] = new]
  BY DEF Moved, new
<1>6. m \in Seq(Row(C)) /\ Len(m) = Len(rows) /\ DOMAIN m = DOMAIN rows
      /\ m[i] = new /\ \A j \in DOMAIN rows : j # i => m[j] = rows[j]
  <2>1. rows \in [1..Len(rows) -> Row(C)]
    BY <1>1 DEF GoodRows
  <2>2. m \in [1..Len(rows) -> Row(C)]
    BY <1>3, <1>5, <2>1
  <2> QED BY <1>1, <1>5, <2>1, <2>2
<1> HIDE DEF m
<1>7. \A j \in DOMAIN rows : GoodRow(m[j])
  BY <1>1, <1>4, <1>6
<1>8. GoodRows(C, m)
  BY <1>6, <1>7 DEF GoodRows
<1> QED BY <1>3, <1>6, <1>8 DEF m

\* There and back.
LEMMA MovedBack ==
    ASSUME NEW C, NEW rows, GoodRows(C, rows), NEW i \in DOMAIN rows, rows[i].at # 1
    PROVE  Moved(Moved(rows, i, -1), i, 1) = rows
<1>1. rows \in Seq(Row(C)) /\ rows[i] \in Row(C)
  BY DEF GoodRows
<1>2. rows = [j \in DOMAIN rows |-> rows[j]]
  BY <1>1
<1>3. rows[i] = [id |-> rows[i].id, levels |-> rows[i].levels, at |-> rows[i].at] /\ rows[i].at \in Nat
  BY <1>1 DEF Row
<1> DEFINE less == [rows[i] EXCEPT !.at = rows[i].at + (-1)]
           more == [less EXCEPT !.at = less.at + 1]
<1>4. more = rows[i]
  <2>1. less = [id |-> rows[i].id, levels |-> rows[i].levels, at |-> rows[i].at + (-1)]
    BY <1>3
  <2> HIDE DEF less
  <2>2. more = [id |-> rows[i].id, levels |-> rows[i].levels, at |-> (rows[i].at + (-1)) + 1]
    BY <2>1
  <2>3. (rows[i].at + (-1)) + 1 = rows[i].at
    BY <1>3
  <2> QED BY <1>3, <2>2, <2>3
<1> DEFINE m == [rows EXCEPT ![i] = less]
<1>5. m[i] = less /\ DOMAIN m = DOMAIN rows /\ \A j \in DOMAIN rows : j # i => m[j] = rows[j]
  OBVIOUS
<1>6. Moved(Moved(rows, i, -1), i, 1) = [m EXCEPT ![i] = [m[i] EXCEPT !.at = m[i].at + 1]]
  BY DEF Moved
<1> HIDE DEF m, less
<1>7. Moved(Moved(rows, i, -1), i, 1) = [m EXCEPT ![i] = more]
  BY <1>5, <1>6
<1> HIDE DEF more
<1> QED BY <1>2, <1>4, <1>5, <1>7

-----------------------------------------------------------------------------
(* Degradation *)

\* Of the last of the largest there is one.
LEMMA LastLargest ==
    ASSUME NEW L \in Nat, L # 0, NEW f \in [1..L -> Nat]
    PROVE  \E i \in 1..L : \A j \in 1..L : f[j] <= f[i] /\ (j > i => f[j] < f[i])
<1> DEFINE S == {n \in Nat : n # 0 /\ n <= L =>
                    \E i \in 1..n : \A j \in 1..n : f[j] <= f[i] /\ (j > i => f[j] < f[i])}
<1>1. 0 \in S
  OBVIOUS
<1>2. ASSUME NEW n \in Nat, n \in S PROVE n + 1 \in S
  <2> SUFFICES ASSUME n + 1 <= L
               PROVE  \E i \in 1..(n + 1) : \A j \in 1..(n + 1) : f[j] <= f[i] /\ (j > i => f[j] < f[i])
    OBVIOUS
  <2>1. \A j \in 1..(n + 1) : j \in 1..L /\ f[j] \in Nat /\ (j \in 1..n \/ j = n + 1)
    OBVIOUS
  <2>2. CASE n = 0
    <3>1. \A j \in 1..(n + 1) : j = n + 1
      BY <2>2
    <3>2. n + 1 \in 1..(n + 1) /\ f[n + 1] \in Nat
      BY <2>1
    <3>3. \A j \in 1..(n + 1) : f[j] <= f[n + 1] /\ ~(j > n + 1)
      BY <3>1, <3>2
    <3> QED BY <3>2, <3>3
  <2>3. CASE n # 0
    <3>1. PICK i \in 1..n : \A j \in 1..n : f[j] <= f[i] /\ (j > i => f[j] < f[i])
      BY <1>2, <2>3
    <3>2. i \in 1..(n + 1) /\ n + 1 \in 1..(n + 1) /\ f[i] \in Nat /\ f[n + 1] \in Nat /\ n + 1 > i
      BY <2>1
    <3>3. CASE f[n + 1] < f[i]
      <4>1. \A j \in 1..(n + 1) : f[j] <= f[i] /\ (j > i => f[j] < f[i])
        BY <2>1, <3>1, <3>2, <3>3
      <4> QED BY <3>2, <4>1
    <3>4. CASE ~(f[n + 1] < f[i])
      <4>1. \A j \in 1..(n + 1) : f[j] <= f[n + 1] /\ ~(j > n + 1)
        BY <2>1, <3>1, <3>2, <3>4
      <4> QED BY <3>2, <4>1
    <3> QED BY <3>3, <3>4
  <2> QED BY <2>2, <2>3
<1> HIDE DEF S
<1>3. L \in S
  BY <1>1, <1>2, Induction
<1> QED BY <1>3 DEF S

\* One unit gives up a level, unless the budget is kept or no unit would free anything by it.
Settled(rows, max) == Total(rows) <= max \/ \A i \in DOMAIN rows : Saving(rows[i]) = 0

LEMMA DegradeIs ==
    ASSUME NEW C, Tokens(C), NEW rows, GoodRows(C, rows), NEW max \in Nat
    PROVE  \/ Settled(rows, max) /\ Degrade(rows, max) = rows
           \/ /\ Total(rows) > max
              /\ \E i \in DOMAIN rows :
                    rows[i].at # 1 /\ Saving(rows[i]) # 0 /\ Degrade(rows, max) = Moved(rows, i, -1)
<1>1. CASE Total(rows) <= max
  BY <1>1 DEF Settled, Degrade
<1>2. CASE ~(Total(rows) <= max)
  <2>1. Total(rows) > max /\ Degrade(rows, max) = Lowered(rows, MostSaved(rows))
    BY <1>2, TotalIsNat DEF Degrade
  <2>2. Len(rows) \in Nat /\ DOMAIN rows = 1..Len(rows)
    BY DEF GoodRows
  <2>3. Len(rows) # 0
    <3>1. Len(rows) = 0 => Total(rows) = 0
      BY CostsAre, SumOfNothing
    <3> QED BY <1>2, <3>1
  <2>4. ASSUME NEW i \in DOMAIN rows
        PROVE  Saving(rows[i]) \in Nat /\ (Saving(rows[i]) # 0 => rows[i].at # 1)
    <3>1. rows[i] \in Row(C) /\ GoodRow(rows[i])
      BY <2>2 DEF GoodRows
    <3>2. rows[i].at # 1 => TokensOf(rows[i]) - rows[i].levels[rows[i].at - 1].tokens \in Nat
      BY <3>1, RowIs
    <3> QED BY <3>2 DEF Saving
  <2> DEFINE f == [i \in 1..Len(rows) |-> Saving(rows[i])]
  <2>5. f \in [1..Len(rows) -> Nat]
    BY <2>2, <2>4
  <2>6. PICK k \in 1..Len(rows) : \A j \in 1..Len(rows) : f[j] <= f[k] /\ (j > k => f[j] < f[k])
    <3> HIDE DEF f
    <3> QED BY <2>2, <2>3, <2>5, LastLargest
  <2> DEFINE most == Saving(rows[k])
  <2>7. \A j \in 1..Len(rows) : Saving(rows[j]) <= most /\ (j > k => Saving(rows[j]) < most)
    BY <2>6
  <2>8. MostSaved(rows) = most
    <3> DEFINE A == {Saving(rows[i]) : i \in DOMAIN rows}
    <3>1. most \in A /\ \A i \in DOMAIN rows : Saving(rows[i]) <= most
      BY <2>2, <2>7
    <3>2. ASSUME NEW n \in A, \A i \in DOMAIN rows : Saving(rows[i]) <= n PROVE n = most
      <4>1. n \in Nat /\ most \in Nat /\ most <= n
        BY <2>2, <2>4, <3>2
      <4>2. n <= most
        BY <3>1
      <4> QED BY <4>1, <4>2
    <3> HIDE DEF A, most
    <3>3. MostSaved(rows) = CHOOSE n \in A : \A i \in DOMAIN rows : Saving(rows[i]) <= n
      BY DEF MostSaved, A
    <3> QED BY <3>1, <3>2, <3>3
  <2>9. CASE most = 0
    <3>1. \A i \in DOMAIN rows : Saving(rows[i]) = 0
      BY <2>2, <2>4, <2>7, <2>9
    <3>2. Lowered(rows, most) = rows
      BY <2>9 DEF Lowered
    <3> QED BY <2>1, <2>8, <3>1, <3>2 DEF Settled
  <2>10. CASE most # 0
    <3> DEFINE i == LastSaving(rows, most)
    <3>1. i \in DOMAIN rows /\ Saving(rows[i]) = most
      <4>1. \A j \in (k + 1)..Len(rows) : j \in 1..Len(rows) /\ j > k
        BY <2>2
      <4>2. k \in DOMAIN rows /\ Saving(rows[k]) = most /\ \A j \in (k + 1)..Len(rows) : Saving(rows[j]) < most
        BY <2>2, <2>7, <4>1
      <4> HIDE DEF most
      <4> QED BY <4>2 DEF LastSaving
    <3>2. rows[i].at # 1 /\ Saving(rows[i]) # 0
      BY <2>4, <2>10, <3>1
    <3>3. Lowered(rows, most) = Moved(rows, i, -1)
      BY <2>10 DEF Lowered
    <3> HIDE DEF i, most
    <3> QED BY <2>1, <2>8, <3>1, <3>2, <3>3
  <2> QED BY <2>9, <2>10
<1> QED BY <1>1, <1>2

LEMMA FewerLevels ==
    ASSUME NEW C, Tokens(C), NEW rows, GoodRows(C, rows), NEW i \in DOMAIN rows, rows[i].at # 1
    PROVE  /\ GoodRows(C, Moved(rows, i, -1))
           /\ Moved(rows, i, -1)[i].at < Len(Moved(rows, i, -1)[i].levels)
           /\ Downgrades(Moved(rows, i, -1)) + 1 = Downgrades(rows)
<1> DEFINE m == Moved(rows, i, -1)
<1>1. rows[i] \in Row(C) /\ GoodRow(rows[i]) /\ Len(rows) \in Nat /\ DOMAIN rows = 1..Len(rows)
  BY DEF GoodRows
<1>2. /\ rows[i].at \in Nat /\ rows[i].at <= Len(rows[i].levels)
      /\ rows[i].at - 1 \in DOMAIN rows[i].levels
  BY <1>1, RowIs
<1>3. rows[i].at + (-1) = rows[i].at - 1
  BY <1>2
<1>4. /\ GoodRows(C, m) /\ Len(m) = Len(rows) /\ DOMAIN m = DOMAIN rows
      /\ \A j \in DOMAIN rows : m[j].levels = rows[j].levels /\ (j # i => m[j] = rows[j])
      /\ m[i].at = rows[i].at - 1
  BY <1>2, <1>3, MovedIs
<1> HIDE DEF m
<1>5. m[i].at < Len(m[i].levels)
  <2>1. Len(rows[i].levels) \in Nat
    BY <1>1 DEF Row
  <2> QED BY <1>2, <1>4, <2>1
<1>6. /\ Ats(rows) \in Seq(Nat) /\ Len(Ats(rows)) = Len(rows) /\ Downgrades(rows) = SumOf(Ats(rows))
      /\ Ats(m) \in Seq(Nat) /\ Len(Ats(m)) = Len(rows) /\ Downgrades(m) = SumOf(Ats(m))
  BY <1>4, CostsAre
<1>7. /\ \A j \in 1..Len(rows) : j # i => Ats(rows)[j] = Ats(m)[j]
      /\ Ats(rows)[i] = rows[i].at /\ Ats(m)[i] = rows[i].at - 1
  BY <1>1, <1>4 DEF Ats
<1>8. SumOf(Ats(rows)) + (rows[i].at - 1) = SumOf(Ats(m)) + rows[i].at
  <2>1. i \in 1..Len(Ats(rows)) /\ \A j \in 1..Len(Ats(rows)) : j # i => Ats(rows)[j] = Ats(m)[j]
    BY <1>1, <1>6, <1>7
  <2>2. SumOf(Ats(rows)) + Ats(m)[i] = SumOf(Ats(m)) + Ats(rows)[i]
    BY <1>6, <2>1, SumChanges
  <2> QED BY <1>7, <2>2
<1>9. SumOf(Ats(rows)) \in Nat /\ SumOf(Ats(m)) \in Nat
  BY <1>6, SumIsNat
<1>10. SumOf(Ats(m)) + 1 = SumOf(Ats(rows))
  <2>1. PICK a \in Nat, b \in Nat, c \in Nat : a = SumOf(Ats(rows)) /\ b = SumOf(Ats(m)) /\ c = rows[i].at
    BY <1>2, <1>9
  <2>2. a + (c - 1) = b + c
    BY <1>8, <2>1
  <2> QED BY <2>1, <2>2
<1>11. Downgrades(m) + 1 = Downgrades(rows)
  BY <1>6, <1>10
<1> QED BY <1>4, <1>5, <1>11 DEF m

\* Rows of the same units, which gave up no more levels than they had to.
SameUnits(rows, x) ==
    /\ Len(x) = Len(rows) /\ DOMAIN x = DOMAIN rows
    /\ \A j \in DOMAIN rows : x[j].id = rows[j].id /\ x[j].levels = rows[j].levels
Needed(x, max) == \E i \in DOMAIN x : x[i].at < Len(x[i].levels) /\ Total(Moved(x, i, 1)) > max
Degrades(C, rows, x, max) == GoodRows(C, x) /\ SameUnits(rows, x) /\ (x = rows \/ Needed(x, max))

LEMMA DegradeStep ==
    ASSUME NEW C, Tokens(C), NEW rows, NEW x, NEW max \in Nat, Degrades(C, rows, x, max)
    PROVE  /\ Degrades(C, rows, Degrade(x, max), max)
           /\ \/ Settled(Degrade(x, max), max)
              \/ ~Settled(x, max) /\ Downgrades(Degrade(x, max)) + 1 = Downgrades(x)
<1>1. GoodRows(C, x) /\ SameUnits(rows, x)
  BY DEF Degrades
<1>2. CASE Settled(x, max) /\ Degrade(x, max) = x
  BY <1>2
<1>3. ASSUME Total(x) > max, NEW i \in DOMAIN x, x[i].at # 1, Saving(x[i]) # 0, Degrade(x, max) = Moved(x, i, -1)
      PROVE  /\ Degrades(C, rows, Degrade(x, max), max)
             /\ ~Settled(x, max) /\ Downgrades(Degrade(x, max)) + 1 = Downgrades(x)
  <2> DEFINE m == Moved(x, i, -1)
  <2>1. GoodRows(C, m) /\ m[i].at < Len(m[i].levels) /\ Downgrades(m) + 1 = Downgrades(x)
    BY <1>1, <1>3, FewerLevels
  <2>2. DOMAIN m = DOMAIN x /\ Len(m) = Len(x) /\ \A j \in DOMAIN x : m[j].id = x[j].id /\ m[j].levels = x[j].levels
    <3>1. x[i] \in Row(C) /\ GoodRow(x[i])
      BY <1>1 DEF GoodRows
    <3>2. x[i].at \in Nat /\ x[i].at - 1 \in DOMAIN x[i].levels
      BY <1>3, <3>1, RowIs
    <3>3. x[i].at + (-1) \in DOMAIN x[i].levels
      <4>1. x[i].at + (-1) = x[i].at - 1
        BY <3>2
      <4> QED BY <3>2, <4>1
    <3> QED BY <1>1, <3>3, MovedIs
  <2>3. Moved(m, i, 1) = x
    BY <1>1, <1>3, MovedBack
  <2> HIDE DEF m
  <2>4. SameUnits(rows, m)
    BY <1>1, <2>2 DEF SameUnits
  <2>5. Needed(m, max)
    BY <1>3, <2>1, <2>2, <2>3 DEF Needed
  <2>6. ~Settled(x, max)
    <3>1. Total(x) \in Nat
      BY <1>1, TotalIsNat
    <3> QED BY <1>3, <3>1 DEF Settled
  <2>7. Degrade(x, max) = m
    BY <1>3 DEF m
  <2> QED BY <2>1, <2>4, <2>5, <2>6, <2>7 DEF Degrades
<1>4. \/ Settled(x, max) /\ Degrade(x, max) = x
      \/ /\ Total(x) > max
         /\ \E i \in DOMAIN x : x[i].at # 1 /\ Saving(x[i]) # 0 /\ Degrade(x, max) = Moved(x, i, -1)
  BY <1>1, DegradeIs
<1> QED BY <1>2, <1>3, <1>4

IsDegrading(rows, max, a) ==
    a = [n \in 0..Downgrades(rows) |-> IF n = 0 THEN rows ELSE Degrade(a[n - 1], max)]
Degrading(rows, max) == CHOOSE a : IsDegrading(rows, max, a)

LEMMA DegradedIsLast == \A rows, max : Degraded(rows, max) = Degrading(rows, max)[Downgrades(rows)]
BY DEF Degraded, Degrading, IsDegrading

LEMMA DegradingIs ==
    ASSUME NEW C, Tokens(C), NEW rows, GoodRows(C, rows), NEW max \in Nat
    PROVE  /\ Degrading(rows, max)[0] = rows
           /\ \A n \in 1..Downgrades(rows) : Degrading(rows, max)[n] = Degrade(Degrading(rows, max)[n - 1], max)
<1> DEFINE N == Downgrades(rows)
           V == {x \in Seq(Row(C)) : GoodRows(C, x)}
           g == [n \in 1..N |-> [x \in V |-> Degrade(x, max)]]
<1>1. N \in Nat
  BY TotalIsNat
<1>2. rows \in V
  BY DEF GoodRows
<1>3. ASSUME NEW x \in V PROVE Degrade(x, max) \in V
  <2>1. GoodRows(C, x)
    OBVIOUS
  <2>2. Degrades(C, x, x, max)
    BY <2>1 DEF Degrades, SameUnits
  <2>3. Degrades(C, x, Degrade(x, max), max)
    BY <2>2, DegradeStep
  <2> QED BY <2>3 DEF Degrades, GoodRows
<1> HIDE DEF V, N
<1>4. g \in [1..N -> [V -> V]]
  BY <1>3
<1>5. \A n \in 1..N, x \in V : g[n][x] = Degrade(x, max)
  OBVIOUS
<1> HIDE DEF g
<1>6. PICK a \in [0..N -> V] : Steps(a, N, rows, g)
  BY <1>1, <1>2, <1>4, StepsExist
<1>7. ASSUME NEW n \in 0..N PROVE a[n] = IF n = 0 THEN rows ELSE Degrade(a[n - 1], max)
  <2>1. a[n] = IF n = 0 THEN rows ELSE g[n][a[n - 1]]
    BY <1>6 DEF Steps
  <2>2. n # 0 => n \in 1..N /\ a[n - 1] \in V
    BY <1>1, <1>6
  <2> QED BY <1>5, <2>1, <2>2
<1>8. IsDegrading(rows, max, a)
  BY <1>6, <1>7 DEF IsDegrading, N
<1>9. IsDegrading(rows, max, Degrading(rows, max))
  BY <1>8 DEF Degrading
<1> DEFINE d == Degrading(rows, max)
<1> HIDE DEF d
<1>10. \A n \in 0..N : d[n] = IF n = 0 THEN rows ELSE Degrade(d[n - 1], max)
  BY <1>9 DEF IsDegrading, N, d
<1>11. d[0] = rows /\ \A n \in 1..N : d[n] = Degrade(d[n - 1], max)
  BY <1>1, <1>10
<1> QED BY <1>11 DEF d, N

\* As many steps as there are levels are enough.
LEMMA DegradedIs ==
    ASSUME NEW C, Tokens(C), NEW rows, GoodRows(C, rows), NEW max \in Nat
    PROVE  Degrades(C, rows, Degraded(rows, max), max) /\ Settled(Degraded(rows, max), max)
<1> DEFINE N == Downgrades(rows)
           d == Degrading(rows, max)
           Left(n) == Settled(d[n], max) \/ Downgrades(d[n]) + n = N
           S == {n \in Nat : n <= N => Degrades(C, rows, d[n], max) /\ Left(n)}
<1>1. N \in Nat
  BY TotalIsNat
<1>2. d[0] = rows /\ \A n \in 1..N : d[n] = Degrade(d[n - 1], max)
  BY DegradingIs
<1>3. 0 \in S
  <2>1. Degrades(C, rows, rows, max)
    BY DEF Degrades, SameUnits
  <2>2. N + 0 = N
    BY <1>1
  <2> HIDE DEF d
  <2> QED BY <1>2, <2>1, <2>2
<1> HIDE DEF d
<1>4. ASSUME NEW n \in Nat, n \in S PROVE n + 1 \in S
  <2> SUFFICES ASSUME n + 1 <= N PROVE Degrades(C, rows, d[n + 1], max) /\ Left(n + 1)
    OBVIOUS
  <2>1. n + 1 \in 1..N /\ (n + 1) - 1 = n /\ n <= N
    BY <1>1
  <2>2. Degrades(C, rows, d[n], max) /\ Left(n)
    BY <1>4, <2>1
  <2>3. d[n + 1] = Degrade(d[n], max)
    BY <1>2, <2>1
  <2>4. /\ Degrades(C, rows, d[n + 1], max)
        /\ \/ Settled(d[n + 1], max)
           \/ ~Settled(d[n], max) /\ Downgrades(d[n + 1]) + 1 = Downgrades(d[n])
    BY <2>2, <2>3, DegradeStep
  <2>5. Downgrades(d[n]) \in Nat /\ Downgrades(d[n + 1]) \in Nat
    BY <2>2, <2>4, TotalIsNat DEF Degrades
  <2>6. ASSUME Downgrades(d[n + 1]) + 1 = Downgrades(d[n]), Downgrades(d[n]) + n = N
        PROVE  Downgrades(d[n + 1]) + (n + 1) = N
    BY <1>1, <2>5, <2>6
  <2> HIDE DEF N
  <2> QED BY <2>2, <2>4, <2>6
<1> HIDE DEF S
<1>5. N \in S
  BY <1>1, <1>3, <1>4, Induction
<1>6. Degrades(C, rows, d[N], max) /\ Left(N)
  BY <1>1, <1>5 DEF S
<1>7. ASSUME Downgrades(d[N]) + N = N PROVE Settled(d[N], max)
  <2>1. GoodRows(C, d[N])
    BY <1>6 DEF Degrades
  <2>2. Downgrades(d[N]) = 0
    <3>1. Downgrades(d[N]) \in Nat
      BY <2>1, TotalIsNat
    <3> QED BY <1>1, <1>7, <3>1
  <2>3. Ats(d[N]) \in Seq(Nat) /\ Len(Ats(d[N])) = Len(d[N]) /\ Downgrades(d[N]) = SumOf(Ats(d[N]))
    BY <2>1, CostsAre
  <2>4. \A i \in 1..Len(Ats(d[N])) : Ats(d[N])[i] # 0
    <3>1. DOMAIN d[N] = 1..Len(d[N]) /\ \A i \in DOMAIN d[N] : d[N][i].at \in Nat /\ d[N][i].at >= 1
      BY <2>1, RowIs DEF GoodRows
    <3> QED BY <2>3, <3>1 DEF Ats
  <2>5. Len(d[N]) = 0
    BY <2>2, <2>3, <2>4, SumOfSome
  <2>6. DOMAIN d[N] = {}
    BY <2>1, <2>5 DEF GoodRows
  <2> QED BY <2>6 DEF Settled
<1>8. Degraded(rows, max) = d[N]
  BY DegradedIsLast DEF d
<1> HIDE DEF N
<1> QED BY <1>6, <1>7, <1>8

-----------------------------------------------------------------------------
(* What is kept *)

LEMMA TotalUpTo ==
    ASSUME NEW C, Tokens(C), NEW rows, GoodRows(C, rows)
    PROVE  /\ Total(SubSeq(rows, 1, 0)) = 0
           /\ SubSeq(rows, 1, Len(rows)) = rows
           /\ \A n \in 0..Len(rows) : Total(SubSeq(rows, 1, n)) \in Nat
           /\ \A n \in 1..Len(rows) : Total(SubSeq(rows, 1, n)) = Total(SubSeq(rows, 1, n - 1)) + TokensOf(rows[n])
<1> DEFINE L == Len(rows)
           s(n) == SubSeq(rows, 1, n)
<1>1. L \in Nat /\ rows \in Seq(Row(C)) /\ DOMAIN rows = 1..L /\ \A i \in 1..L : rows[i] \in Row(C) /\ GoodRow(rows[i])
  BY DEF GoodRows
<1>2. ASSUME NEW n \in 0..L
      PROVE  s(n) \in Seq(Row(C)) /\ Len(s(n)) = n /\ DOMAIN s(n) = 1..n /\ \A i \in 1..n : s(n)[i] = rows[i]
  BY <1>1
<1>3. s(L) = rows
  BY <1>1
<1> HIDE DEF s, L
<1>4. ASSUME NEW n \in 0..L
      PROVE  /\ GoodRows(C, s(n)) /\ Costs(s(n)) \in Seq(Nat) /\ Len(Costs(s(n))) = n
             /\ Total(s(n)) = SumOf(Costs(s(n))) /\ \A i \in 1..n : Costs(s(n))[i] = TokensOf(rows[i])
  <2>1. \A i \in 1..n : i \in 1..L
    BY <1>1
  <2>2. GoodRows(C, s(n))
    BY <1>1, <1>2, <2>1 DEF GoodRows
  <2>3. Costs(s(n)) \in Seq(Nat) /\ Len(Costs(s(n))) = n /\ Total(s(n)) = SumOf(Costs(s(n)))
    BY <1>2, <2>2, CostsAre
  <2>4. \A i \in 1..n : Costs(s(n))[i] = TokensOf(rows[i])
    BY <1>2 DEF Costs
  <2> QED BY <2>2, <2>3, <2>4
<1>5. Total(s(0)) = 0
  <2>1. 0 \in 0..L
    BY <1>1
  <2> QED BY <1>4, <2>1, SumOfNothing
<1>6. \A n \in 0..L : Total(s(n)) \in Nat
  BY <1>4, SumIsNat
<1>7. ASSUME NEW n \in 1..L PROVE Total(s(n)) = Total(s(n - 1)) + TokensOf(rows[n])
  <2>1. n \in 0..L /\ n - 1 \in 0..L /\ n = (n - 1) + 1 /\ n \in 1..n /\ \A i \in 1..(n - 1) : i \in 1..n
    BY <1>1
  <2> DEFINE f == Costs(s(n - 1))
             h == Costs(s(n))
  <2>2. f \in Seq(Nat) /\ h \in Seq(Nat) /\ Len(f) = n - 1 /\ Len(h) = n /\ Total(s(n)) = SumOf(h) /\ Total(s(n - 1)) = SumOf(f)
    BY <1>4, <2>1
  <2>3. (\A i \in 1..(n - 1) : f[i] = h[i]) /\ h[n] = TokensOf(rows[n])
    BY <1>4, <2>1
  <2> HIDE DEF f, h
  <2>4. SumOf(h) = SumOf(f) + h[Len(f) + 1]
    BY <2>1, <2>2, <2>3, SumOfOneMore
  <2> QED BY <2>1, <2>2, <2>3, <2>4
<1> QED BY <1>3, <1>5, <1>6, <1>7 DEF s, L

LEMMA KeptIs ==
    ASSUME NEW C, Tokens(C), NEW rows, GoodRows(C, rows), NEW max \in Nat
    PROVE  \E n \in 0..Len(rows) :
               /\ Kept(rows, max) = SubSeq(rows, 1, n) /\ Total(SubSeq(rows, 1, n)) <= max
               /\ \A k \in (n + 1)..Len(rows) : Total(SubSeq(rows, 1, k)) > max
<1> DEFINE L == Len(rows)
           tot(n) == Total(SubSeq(rows, 1, n))
           T == {n \in 0..L : tot(n) <= max}
           FinalRow(n) == tot(n) <= max /\ \A k \in (n + 1)..L : tot(k) > max
<1>1. L \in Nat
  BY DEF GoodRows
<1>2. tot(0) = 0 /\ \A n \in 0..L : tot(n) \in Nat
  BY TotalUpTo
<1>3. Kept(rows, max) = SubSeq(rows, 1, CHOOSE n \in 0..L : FinalRow(n))
  BY DEF Kept
<1> HIDE DEF tot, L
<1>4. 0 \in T /\ T \subseteq 0..L
  BY <1>1, <1>2
<1>5. PICK x \in T : \A y \in T : y <= x
  <2> HIDE DEF T
  <2> QED BY <1>1, <1>4, GreatestUpTo
<1>6. FinalRow(x)
  <2> SUFFICES ASSUME NEW k \in (x + 1)..L PROVE tot(k) > max
    BY <1>5
  <2>1. k \in 0..L /\ ~(k <= x) /\ tot(k) \in Nat
    BY <1>1, <1>2, <1>5
  <2>2. k \notin T
    BY <1>5, <2>1
  <2> QED BY <2>1, <2>2
<1> DEFINE n == CHOOSE m \in 0..L : FinalRow(m)
<1>7. n \in 0..L /\ FinalRow(n)
  <2> HIDE DEF FinalRow
  <2> QED BY <1>5, <1>6
<1> HIDE DEF n
<1> QED BY <1>3, <1>7 DEF L, tot, n

-----------------------------------------------------------------------------
(* The rows of the units *)

\* Units are given by their place, with levels that ascend.
Placed(C, units) ==
    /\ Len(units) \in Nat /\ DOMAIN units = 1..Len(units)
    /\ \A i \in 1..Len(units) : units[i].id = i /\ units[i].levels \in Seq(C) /\ Ascending(units[i].levels)
\* Of the units before place n, those with levels have a row each, in their order.
RowsUpTo(C, units, x, n) ==
    /\ GoodRows(C, x)
    /\ \A j \in DOMAIN x :
         /\ x[j].id \in 1..n /\ x[j].levels = units[x[j].id].levels
         /\ x[j].levels # << >> /\ x[j].at = Len(x[j].levels)
    /\ \A j, k \in DOMAIN x : j < k => x[j].id < x[k].id
    /\ \A i \in 1..n : units[i].levels # << >> => \E j \in DOMAIN x : x[j].id = i

IsRows(units, x) == x = [n \in 0..Len(units) |-> IF n = 0 THEN << >> ELSE x[n - 1] \o RowOf(units[n])]
RowsSoFar(units) == CHOOSE x : IsRows(units, x)

LEMMA RichestIsLast == \A units : Richest(units) = RowsSoFar(units)[Len(units)]
BY DEF Richest, RowsSoFar, IsRows

LEMMA RowsSoFarAre ==
    ASSUME NEW C, NEW units, Placed(C, units)
    PROVE  /\ RowsSoFar(units)[0] = << >>
           /\ \A n \in 1..Len(units) : RowsSoFar(units)[n] = RowsSoFar(units)[n - 1] \o RowOf(units[n])
<1> DEFINE N == Len(units)
           V == Seq(Row(C))
           g == [n \in 1..N |-> [x \in V |-> x \o RowOf(units[n])]]
<1>1. N \in Nat
  BY DEF Placed
<1>2. ASSUME NEW n \in 1..N PROVE RowOf(units[n]) \in V
  <2>1. units[n].id \in Nat /\ units[n].levels \in Seq(C)
    BY DEF Placed
  <2>2. Len(units[n].levels) \in Nat
    BY <2>1
  <2>3. [id |-> units[n].id, levels |-> units[n].levels, at |-> Len(units[n].levels)] \in Row(C)
    BY <2>1, <2>2 DEF Row
  <2> QED BY <2>3 DEF RowOf
<1>3. << >> \in V
  OBVIOUS
<1> HIDE DEF N
<1>4. ASSUME NEW n \in 1..N, NEW x \in V PROVE x \o RowOf(units[n]) \in V
  BY <1>2
<1> HIDE DEF V
<1>5. g \in [1..N -> [V -> V]]
  BY <1>4
<1>6. \A n \in 1..N, x \in V : g[n][x] = x \o RowOf(units[n])
  OBVIOUS
<1> HIDE DEF g
<1>7. PICK a \in [0..N -> V] : Steps(a, N, << >>, g)
  BY <1>1, <1>3, <1>5, StepsExist
<1>8. ASSUME NEW n \in 0..N PROVE a[n] = IF n = 0 THEN << >> ELSE a[n - 1] \o RowOf(units[n])
  <2>1. a[n] = IF n = 0 THEN << >> ELSE g[n][a[n - 1]]
    BY <1>7 DEF Steps
  <2>2. n # 0 => n \in 1..N /\ a[n - 1] \in V
    BY <1>1, <1>7
  <2> QED BY <1>6, <2>1, <2>2
<1>9. IsRows(units, a)
  BY <1>7, <1>8 DEF IsRows, N
<1>10. IsRows(units, RowsSoFar(units))
  BY <1>9 DEF RowsSoFar
<1> DEFINE d == RowsSoFar(units)
<1> HIDE DEF d
<1>11. \A n \in 0..N : d[n] = IF n = 0 THEN << >> ELSE d[n - 1] \o RowOf(units[n])
  BY <1>10 DEF IsRows, N, d
<1>12. d[0] = << >>
  BY <1>1, <1>11
<1>13. ASSUME NEW n \in 1..N PROVE d[n] = d[n - 1] \o RowOf(units[n])
  <2>1. n \in 0..N /\ n # 0
    BY <1>1
  <2> QED BY <1>11, <2>1
<1> QED BY <1>12, <1>13 DEF d, N

LEMMA OneMoreRow ==
    ASSUME NEW C, NEW units, Placed(C, units), NEW n \in Nat, n + 1 <= Len(units), NEW x, RowsUpTo(C, units, x, n)
    PROVE  RowsUpTo(C, units, x \o RowOf(units[n + 1]), n + 1)
<1> DEFINE u == units[n + 1]
<1>1. n + 1 \in 1..Len(units) /\ u.id = n + 1 /\ u.levels \in Seq(C) /\ Ascending(u.levels) /\ Len(u.levels) \in Nat
  BY DEF Placed
<1>2. GoodRows(C, x) /\ x \in Seq(Row(C)) /\ Len(x) \in Nat /\ DOMAIN x = 1..Len(x)
  BY DEF RowsUpTo, GoodRows
<1>3. \A i \in 1..(n + 1) : i \in 1..n \/ i = n + 1
  OBVIOUS
<1>4. \A j \in DOMAIN x : x[j].id \in 1..n /\ x[j].id \in 1..(n + 1) /\ x[j].id < n + 1
  BY DEF RowsUpTo
<1> HIDE DEF u
<1>5. CASE u.levels = << >>
  <2>1. x \o RowOf(u) = x
    BY <1>2, <1>5 DEF RowOf
  <2>2. \A i \in 1..(n + 1) : units[i].levels # << >> => i \in 1..n
    BY <1>3, <1>5 DEF u
  <2>3. RowsUpTo(C, units, x, n + 1)
    BY <1>4, <2>2 DEF RowsUpTo
  <2> QED BY <2>1, <2>3 DEF u
<1>6. CASE u.levels # << >>
  <2> DEFINE r == [id |-> u.id, levels |-> u.levels, at |-> Len(u.levels)]
             y == x \o <<r>>
             L == Len(x)
  <2>1. r \in Row(C) /\ r.id = n + 1 /\ r.levels = u.levels /\ r.at = Len(u.levels)
    BY <1>1 DEF Row
  <2>2. GoodRow(r)
    <3>1. Len(u.levels) # 0
      BY <1>1, <1>6
    <3>2. Len(u.levels) \in DOMAIN u.levels
      BY <1>1, <3>1
    <3> QED BY <1>1, <2>1, <3>2 DEF GoodRow
  <2> HIDE DEF r
  <2>3. y \in Seq(Row(C)) /\ Len(y) = L + 1 /\ DOMAIN y = 1..(L + 1) /\ y[L + 1] = r
        /\ \A j \in 1..L : y[j] = x[j]
    BY <1>2, <2>1
  <2>4. \A j \in DOMAIN y : j = L + 1 \/ j \in 1..L
    BY <1>2, <2>3
  <2>5. L \in Nat /\ DOMAIN x = 1..L
    BY <1>2
  <2> HIDE DEF y, L
  <2>6. GoodRows(C, y)
    BY <1>2, <2>2, <2>3, <2>4, <2>5 DEF GoodRows
  <2>7. ASSUME NEW j \in DOMAIN y
        PROVE  /\ y[j].id \in 1..(n + 1) /\ y[j].levels = units[y[j].id].levels
               /\ y[j].levels # << >> /\ y[j].at = Len(y[j].levels)
    <3>1. CASE j = L + 1
      BY <1>6, <2>1, <2>3, <3>1 DEF u
    <3>2. CASE j \in 1..L
      BY <1>4, <2>3, <2>5, <3>2 DEF RowsUpTo
    <3> QED BY <2>4, <3>1, <3>2
  <2>8. ASSUME NEW j \in DOMAIN y, NEW k \in DOMAIN y, j < k PROVE y[j].id < y[k].id
    <3>1. j \in 1..L
      BY <2>3, <2>4, <2>5, <2>8
    <3>2. CASE k = L + 1
      BY <1>4, <2>1, <2>3, <2>5, <3>1, <3>2
    <3>3. CASE k \in 1..L
      BY <2>3, <2>5, <2>8, <3>1, <3>3 DEF RowsUpTo
    <3> QED BY <2>4, <3>2, <3>3
  <2>9. ASSUME NEW i \in 1..(n + 1), units[i].levels # << >> PROVE \E j \in DOMAIN y : y[j].id = i
    <3>1. CASE i = n + 1
      <4>1. L + 1 \in DOMAIN y /\ y[L + 1].id = i
        BY <2>1, <2>3, <2>5, <3>1
      <4> QED BY <4>1
    <3>2. CASE i \in 1..n
      <4>1. PICK j \in DOMAIN x : x[j].id = i
        BY <2>9, <3>2 DEF RowsUpTo
      <4>2. j \in DOMAIN y /\ y[j].id = i
        BY <2>3, <2>5, <4>1
      <4> QED BY <4>2
    <3> QED BY <1>3, <3>1, <3>2
  <2>10. RowsUpTo(C, units, y, n + 1)
    BY <2>6, <2>7, <2>8, <2>9 DEF RowsUpTo
  <2>11. RowOf(u) = <<r>>
    BY <1>6 DEF RowOf, r
  <2> QED BY <2>10, <2>11 DEF y, u
<1> QED BY <1>5, <1>6

LEMMA RichestIs ==
    ASSUME NEW C, NEW units, Placed(C, units)
    PROVE  RowsUpTo(C, units, Richest(units), Len(units))
<1> DEFINE N == Len(units)
           d == RowsSoFar(units)
           S == {n \in Nat : n <= N => RowsUpTo(C, units, d[n], n)}
<1>1. N \in Nat
  BY DEF Placed
<1>2. d[0] = << >> /\ \A n \in 1..N : d[n] = d[n - 1] \o RowOf(units[n])
  BY RowsSoFarAre
<1> HIDE DEF d
<1>3. 0 \in S
  <2>1. RowsUpTo(C, units, << >>, 0)
    BY DEF RowsUpTo, GoodRows
  <2> QED BY <1>2, <2>1
<1>4. ASSUME NEW n \in Nat, n \in S PROVE n + 1 \in S
  <2> SUFFICES ASSUME n + 1 <= N PROVE RowsUpTo(C, units, d[n + 1], n + 1)
    OBVIOUS
  <2>1. n + 1 \in 1..N /\ (n + 1) - 1 = n /\ n <= N
    BY <1>1
  <2>2. RowsUpTo(C, units, d[n], n)
    BY <1>4, <2>1
  <2>3. d[n + 1] = d[n] \o RowOf(units[n + 1])
    BY <1>2, <2>1
  <2> QED BY <2>2, <2>3, OneMoreRow
<1> HIDE DEF S
<1>5. N \in S
  BY <1>1, <1>3, <1>4, Induction
<1> QED BY <1>1, <1>5, RichestIsLast DEF S, d, N

-----------------------------------------------------------------------------
(* The budget *)

LEMMA SpentWell ==
    ASSUME NEW C, Tokens(C), NEW units, Placed(C, units), NEW max \in Nat,
           NEW levelsOf, DOMAIN levelsOf = DOMAIN units, \A i \in DOMAIN units : levelsOf[i] = units[i].levels
    PROVE  Spent(levelsOf, SolveBudget(units, max), max)
<1> DEFINE R == Richest(units)
           D == Degraded(R, max)
           K == SolveBudget(units, max)
<1>1. RowsUpTo(C, units, R, Len(units)) /\ GoodRows(C, R)
  BY RichestIs DEF RowsUpTo
<1>2. Degrades(C, R, D, max) /\ Settled(D, max)
  <2> HIDE DEF R
  <2> QED BY <1>1, DegradedIs
<1>3. K = Kept(D, max)
  BY DEF SolveBudget
<1> HIDE DEF K, D, R
<1>4. GoodRows(C, D) /\ Len(D) \in Nat /\ DOMAIN D = 1..Len(D) /\ D \in Seq(Row(C))
  BY <1>2 DEF Degrades, GoodRows
<1>4a. \A j \in DOMAIN D : j \in Nat /\ D[j].id \in Nat /\ D[j].at \in Nat /\ Len(D[j].levels) \in Nat
  <2>1. \A j \in DOMAIN D : j \in Nat /\ D[j] \in Row(C)
    BY <1>4
  <2>2. \A row \in Row(C) : row.id \in Nat /\ row.at \in Nat /\ Len(row.levels) \in Nat
    BY DEF Row
  <2> QED BY <2>1, <2>2
<1>5. /\ \A j \in DOMAIN D : D[j].id \in DOMAIN units /\ D[j].levels = levelsOf[D[j].id] /\ D[j].levels # << >>
      /\ \A j, k \in DOMAIN D : j < k => D[j].id < D[k].id
      /\ \A i \in DOMAIN units : levelsOf[i] # << >> => \E j \in DOMAIN D : D[j].id = i
  <2>1. DOMAIN D = DOMAIN R /\ \A j \in DOMAIN R : D[j].id = R[j].id /\ D[j].levels = R[j].levels
    BY <1>2 DEF Degrades, SameUnits
  <2>2. DOMAIN units = 1..Len(units)
    BY DEF Placed
  <2>3. \A j \in DOMAIN R : R[j].id \in DOMAIN units /\ R[j].levels = levelsOf[R[j].id] /\ R[j].levels # << >>
    BY <1>1, <2>2 DEF RowsUpTo
  <2>4. \A j, k \in DOMAIN R : j < k => R[j].id < R[k].id
    BY <1>1 DEF RowsUpTo
  <2>5. \A i \in DOMAIN units : levelsOf[i] # << >> => \E j \in DOMAIN R : R[j].id = i
    BY <1>1, <2>2 DEF RowsUpTo
  <2> QED BY <2>1, <2>3, <2>4, <2>5
<1>6. PICK n \in 0..Len(D) : /\ K = SubSeq(D, 1, n) /\ Total(SubSeq(D, 1, n)) <= max
                            /\ \A k \in (n + 1)..Len(D) : Total(SubSeq(D, 1, k)) > max
  BY <1>3, <1>4, KeptIs
<1>7. DOMAIN K = 1..n /\ (\A i \in 1..n : K[i] = D[i] /\ i \in DOMAIN D) /\ Total(K) <= max
  BY <1>4, <1>6
<1> DEFINE kept == {K[i].id : i \in DOMAIN K}
           dropped == {i \in DOMAIN levelsOf : levelsOf[i] # << >>} \ kept
           poorer == {i \in DOMAIN K : K[i].at < Len(K[i].levels)}
<1>8. \A j \in DOMAIN D : D[j].id \in dropped <=> n < j
  <2> SUFFICES ASSUME NEW j \in DOMAIN D PROVE D[j].id \in dropped <=> n < j
    OBVIOUS
  <2>1. D[j].id \in DOMAIN levelsOf /\ levelsOf[D[j].id] # << >>
    BY <1>5
  <2>2. CASE n < j
    <3>1. \A i \in 1..n : i \in DOMAIN D /\ i < j
      BY <1>4, <1>7, <2>2
    <3>2. \A i \in 1..n : D[i].id < D[j].id /\ D[i].id \in Nat /\ D[j].id \in Nat
      BY <1>4a, <1>5, <3>1
    <3>3. \A i \in 1..n : D[i].id # D[j].id
      BY <3>2
    <3> QED BY <1>7, <2>1, <2>2, <3>3
  <2>3. CASE ~(n < j)
    <3>1. j \in 1..n
      BY <1>4, <2>3
    <3> QED BY <1>7, <2>3, <3>1
  <2> QED BY <2>2, <2>3
<1>9. \A d \in dropped : \E j \in DOMAIN D : n < j /\ D[j].id = d
  <2> SUFFICES ASSUME NEW d \in dropped PROVE \E j \in DOMAIN D : n < j /\ D[j].id = d
    OBVIOUS
  <2>1. PICK j \in DOMAIN D : D[j].id = d
    BY <1>5
  <2> HIDE DEF dropped
  <2> QED BY <1>8, <2>1
<1>10. \A k \in kept : \E i \in 1..n : D[i].id = k
  BY <1>7
<1> HIDE DEF kept, dropped
<1>11. ASSUME NEW d \in dropped, NEW k \in kept PROVE k < d
  <2>1. PICK j \in DOMAIN D : n < j /\ D[j].id = d
    BY <1>9
  <2>2. PICK i \in 1..n : D[i].id = k
    BY <1>10
  <2>3. i \in DOMAIN D /\ i < j
    BY <1>4, <1>7, <2>1
  <2> QED BY <1>5, <2>1, <2>2, <2>3
<1>12. ASSUME dropped # {}
       PROVE  /\ \A i \in DOMAIN K : Saving(K[i]) = 0
              /\ LET next == CHOOSE d \in dropped : \A e \in dropped : d <= e
                 IN \E at \in DOMAIN levelsOf[next] :
                        LET row == [levels |-> levelsOf[next], at |-> at]
                        IN Saving(row) = 0 /\ Total(K) + TokensOf(row) > max
  <2>1. n + 1 \in 1..Len(D) /\ n + 1 \in DOMAIN D /\ (n + 1) - 1 = n /\ n < n + 1
    <3>1. PICK j \in DOMAIN D : n < j
      BY <1>9, <1>12
    <3> QED BY <1>4, <3>1
  <2>2. Total(SubSeq(D, 1, n + 1)) > max
    <3>1. n + 1 \in (n + 1)..Len(D)
      BY <1>4, <2>1
    <3> QED BY <1>6, <3>1
  <2>3. Total(D) > max
    <3>1. SubSeq(D, 1, Len(D)) = D
      BY <1>4, TotalUpTo
    <3>2. Len(D) \in (n + 1)..Len(D)
      BY <1>4, <2>1
    <3> QED BY <1>6, <3>1, <3>2
  <2>4. \A j \in DOMAIN D : Saving(D[j]) = 0
    <3>1. Total(D) \in Nat
      BY <1>4, TotalIsNat
    <3> QED BY <1>2, <2>3, <3>1 DEF Settled
  <2>5. \A i \in DOMAIN K : Saving(K[i]) = 0
    BY <1>7, <2>4
  <2>6. Total(SubSeq(D, 1, n + 1)) = Total(K) + TokensOf(D[n + 1])
    <3>1. Total(SubSeq(D, 1, n + 1)) = Total(SubSeq(D, 1, (n + 1) - 1)) + TokensOf(D[n + 1])
      BY <1>4, <2>1, TotalUpTo
    <3> QED BY <1>6, <2>1, <3>1
  <2>7. ASSUME NEW d \in dropped, \A e \in dropped : d <= e PROVE d = D[n + 1].id
    <3>1. D[n + 1].id \in dropped
      BY <1>8, <2>1
    <3>2. PICK j \in DOMAIN D : n < j /\ D[j].id = d
      BY <1>9
    <3>3. j \in Nat /\ D[j].id \in Nat /\ D[n + 1].id \in Nat
      BY <1>4a, <2>1
    <3>4. CASE j = n + 1
      BY <3>2, <3>4
    <3>5. CASE j # n + 1
      <4>1. n + 1 < j
        BY <2>1, <3>2, <3>3, <3>5
      <4>2. D[n + 1].id < D[j].id /\ D[j].id <= D[n + 1].id
        BY <1>5, <2>1, <2>7, <3>1, <3>2, <4>1
      <4> QED BY <3>3, <4>2
    <3> QED BY <3>4, <3>5
  <2>8. \E d \in dropped : \A e \in dropped : d <= e
    <3>1. D[n + 1].id \in dropped
      BY <1>8, <2>1
    <3>2. ASSUME NEW e \in dropped PROVE D[n + 1].id <= e
      <4>1. PICK j \in DOMAIN D : n < j /\ D[j].id = e
        BY <1>9
      <4>2. j \in Nat /\ D[j].id \in Nat /\ D[n + 1].id \in Nat
        BY <1>4a, <2>1
      <4>3. j = n + 1 \/ n + 1 < j
        BY <2>1, <4>1, <4>2
      <4>4. n + 1 < j => D[n + 1].id < D[j].id
        BY <1>5, <2>1
      <4> QED BY <4>1, <4>2, <4>3, <4>4
    <3> QED BY <3>1, <3>2
  <2> DEFINE next == CHOOSE d \in dropped : \A e \in dropped : d <= e
  <2>9. next = D[n + 1].id
    BY <2>7, <2>8
  <2> HIDE DEF next
  <2>10. levelsOf[next] = D[n + 1].levels
    BY <1>5, <2>1, <2>9
  <2>11. \E at \in DOMAIN levelsOf[next] :
            LET row == [levels |-> levelsOf[next], at |-> at]
            IN Saving(row) = 0 /\ Total(K) + TokensOf(row) > max
    <3> DEFINE at == D[n + 1].at
               row == [levels |-> levelsOf[next], at |-> at]
    <3>1. at \in DOMAIN levelsOf[next]
      BY <1>4, <2>1, <2>10 DEF GoodRows, GoodRow
    <3>2. row.levels = D[n + 1].levels /\ row.at = D[n + 1].at
      BY <2>10
    <3> HIDE DEF row, at
    <3>3. TokensOf(row) = TokensOf(D[n + 1]) /\ Saving(row) = Saving(D[n + 1])
      BY <3>2 DEF TokensOf, Saving
    <3>4. Saving(row) = 0 /\ Total(K) + TokensOf(row) > max
      BY <2>1, <2>2, <2>4, <2>6, <3>3
    <3> QED BY <3>1, <3>4 DEF row
  <2> QED BY <2>5, <2>11 DEF next
<1>13. ASSUME dropped = {}, poorer # {} PROVE \E i \in poorer : Total(Moved(K, i, 1)) > max
  <2>1. n = Len(D)
    <3>1. ASSUME n # Len(D) PROVE FALSE
      <4>1. n + 1 \in DOMAIN D /\ n < n + 1
        <5>1. PICK last : last = Len(D)
          OBVIOUS
        <5>2. last \in Nat /\ n \in 0..last /\ DOMAIN D = 1..last
          BY <1>4, <5>1
        <5>3. n # last
          BY <3>1, <5>1
        <5>4. n + 1 \in 1..last /\ n < n + 1
          BY <5>2, <5>3
        <5> QED BY <5>2, <5>4
      <4>2. D[n + 1].id \in dropped
        BY <1>8, <4>1
      <4> QED BY <1>13, <4>2
    <3> QED BY <3>1
  <2>2. K = D
    BY <1>4, <1>6, <2>1, TotalUpTo
  <2>3. D # R
    <3>1. PICK i \in DOMAIN D : D[i].at < Len(D[i].levels)
      BY <1>13, <2>2
    <3>2. D[i].at \in Nat /\ Len(D[i].levels) \in Nat
      BY <1>4a
    <3>3. D = R => D[i].at = Len(D[i].levels)
      BY <1>1, <3>1 DEF RowsUpTo
    <3> QED BY <3>1, <3>2, <3>3
  <2>4. Needed(D, max)
    BY <1>2, <2>3 DEF Degrades
  <2> QED BY <2>2, <2>4 DEF Needed
<1>14. Total(K) <= max
  BY <1>7
<1>15. Spent(levelsOf, K, max)
  BY <1>11, <1>12, <1>13, <1>14 DEF Spent, kept, dropped
<1> QED BY <1>15 DEF K

\* The levels that apply to a unit ascend, and are levels of the catalog.
LEMMA CandidatesAscend ==
    ASSUME WellStocked, NEW routed, NEW unit, NEW consumer
    PROVE  LET seq == Candidates(Offered(Catalog, routed), unit, consumer)
           IN seq \in Seq(Catalog) /\ Ascending(seq)
<1> DEFINE O == Offered(Catalog, routed)
<1>1. PICK S \in SUBSET O : Candidates(O, unit, consumer) = CheapestFirst(S)
  <2> HIDE DEF O
  <2> QED BY DEF Candidates
<1>2. O \subseteq Catalog /\ \A d, e \in O : d.profile = e.profile
  BY DEF Offered, LevelsOf
<1> HIDE DEF O
<1>3. Priced(S)
  <2>1. IsFiniteSet(S)
    BY <1>2, FS_Subset DEF WellStocked
  <2> QED BY <1>2, <2>1 DEF WellStocked, Priced
<1>4. CheapestFirst(S) \in Seq(S) /\ Ascending(CheapestFirst(S))
  BY <1>3, CheapestFirstIs
<1>5. \A s \in Seq(S) : s \in Seq(Catalog)
  BY <1>2
<1> QED BY <1>1, <1>4, <1>5 DEF O

LEMMA RowsSpendWell ==
    ASSUME WellStocked, NEW scope \in DOMAIN Holdings, NEW request \in Projections, NEW routed
    PROVE  LET units == Holdings[scope]
               levels == Offered(Catalog, routed)
           IN Spent([i \in DOMAIN units |-> Candidates(levels, units[i], request.consumer)],
                    Rows(Catalog, routed, units, request), request.max)
<1> DEFINE units == Holdings[scope]
           O == Offered(Catalog, routed)
           L == [i \in DOMAIN units |-> Candidates(O, units[i], request.consumer)]
           placed == [i \in DOMAIN units |-> [id |-> i, levels |-> L[i]]]
<1>1. Len(units) \in Nat /\ DOMAIN units = 1..Len(units) /\ request.max \in Nat /\ Tokens(Catalog)
  BY DEF WellStocked, Tokens
<1>2. \A i \in DOMAIN units : L[i] \in Seq(Catalog) /\ Ascending(L[i])
  BY CandidatesAscend
<1>3. DOMAIN L = DOMAIN units
  OBVIOUS
<1>4. Rows(Catalog, routed, units, request) = SolveBudget(placed, request.max)
  BY DEF Rows, RowsOf
<1> HIDE DEF L
<1>5. DOMAIN placed = 1..Len(units) /\ Len(placed) = Len(units)
  BY <1>1
<1>6. \A i \in DOMAIN units : placed[i].id = i /\ placed[i].levels = L[i]
  OBVIOUS
<1> HIDE DEF placed, units, O
<1>7. Placed(Catalog, placed)
  BY <1>1, <1>2, <1>5, <1>6 DEF Placed
<1>8. Spent(L, SolveBudget(placed, request.max), request.max)
  BY <1>1, <1>3, <1>5, <1>6, <1>7, SpentWell
<1> QED BY <1>4, <1>8 DEF L, units, O

-----------------------------------------------------------------------------
(* The cache *)

\* What is kept is what the rules of some engine leave, which was asked in that scope under those
\* references; told of all who have been, in a set of meanings M.
UsedIn(M, scope, policies) == {m.rules : m \in {n \in M : n.scope = scope /\ n.policies = policies}}
CacheSound(M, c) ==
    \A scope \in DOMAIN Holdings : \A request \in Projections : \A i \in DOMAIN Holdings[scope] : \A level \in Catalog :
        EntryKey(scope, request, Holdings[scope][i], level) \in DOMAIN c =>
            \E rules \in UsedIn(M, scope, request.policies) :
                <<c[EntryKey(scope, request, Holdings[scope][i], level)]>>
                  = Fresh(rules, scope, request, Holdings[scope][i], level)

LEMMA MoreMeant ==
    ASSUME NEW M, NEW N, M \subseteq N, NEW c, CacheSound(M, c)
    PROVE  CacheSound(N, c)
<1>1. \A scope, policies : UsedIn(M, scope, policies) \subseteq UsedIn(N, scope, policies)
  BY DEF UsedIn
<1> QED BY <1>1 DEF CacheSound

LEMMA KeyTells ==
    ASSUME NEW s, NEW r, NEW u, NEW l, NEW t, NEW q, NEW v, NEW m, EntryKey(s, r, u, l) = EntryKey(t, q, v, m)
    PROVE  /\ s = t /\ r.policies = q.policies /\ u.id = v.id /\ l.profile = m.profile /\ l.level = m.level
           /\ r.consumer.transports[1] = q.consumer.transports[1]
<1>1. CacheKey(s, r, u, l) = CacheKey(t, q, v, m)
  BY DEF EntryKey
<1>2. /\ CacheKey(s, r, u, l).scope = s /\ CacheKey(t, q, v, m).scope = t
      /\ CacheKey(s, r, u, l).policies = r.policies /\ CacheKey(t, q, v, m).policies = q.policies
      /\ CacheKey(s, r, u, l).id = u.id /\ CacheKey(t, q, v, m).id = v.id
  BY DEF CacheKey
<1>3. /\ CacheKey(s, r, u, l).profile = l.profile /\ CacheKey(t, q, v, m).profile = m.profile
      /\ CacheKey(s, r, u, l).level = l.level /\ CacheKey(t, q, v, m).level = m.level
      /\ CacheKey(s, r, u, l).transport = r.consumer.transports[1] /\ CacheKey(t, q, v, m).transport = q.consumer.transports[1]
  BY DEF CacheKey
<1> QED BY <1>1, <1>2, <1>3

\* Two requests that share a key would get the same by the same rules.
LEMMA SameKeySameText ==
    ASSUME WellStocked, NEW s \in DOMAIN Holdings, NEW t \in DOMAIN Holdings, NEW rules,
           NEW i \in DOMAIN Holdings[s], NEW j \in DOMAIN Holdings[t], NEW r, NEW q, NEW l, NEW m,
           EntryKey(s, r, Holdings[s][i], l) = EntryKey(t, q, Holdings[t][j], m)
    PROVE  /\ s = t /\ r.policies = q.policies
           /\ Fresh(rules, s, r, Holdings[s][i], l) = Fresh(rules, t, q, Holdings[t][j], m)
<1>1. /\ s = t /\ r.policies = q.policies /\ Holdings[s][i].id = Holdings[t][j].id /\ l.profile = m.profile /\ l.level = m.level
      /\ r.consumer.transports[1] = q.consumer.transports[1]
  BY KeyTells
<1>2. i = j
  BY <1>1 DEF WellStocked
<1> DEFINE u == Holdings[s][i]
<1>3. Holdings[t][j] = u
  BY <1>1, <1>2
<1> HIDE DEF u
<1>4. Uri(s, u, l) = Uri(s, u, m)
  BY <1>1 DEF Uri
<1>5. Fresh(rules, s, r, u, l) = Fresh(rules, s, q, u, m)
  BY <1>1, <1>4 DEF Fresh
<1> QED BY <1>1, <1>3, <1>5 DEF u

LEMMA FreshHidesLiterals ==
    ASSUME NEW policy, NEW scope, NEW request, NEW unit, NEW level, NEW payload,
           <<payload>> = Fresh(policy, scope, request, unit, level)
    PROVE  payload.shows \cap Literals(policy, unit) = {}
<1> DEFINE transport == request.consumer.transports[1]
           path == unit.artifacts[level.level]
           lit == Literals(policy, unit)
           uri == Uri(scope, unit, level)
<1>1. <<payload>> # << >>
  OBVIOUS
<1>2. <<payload>> = FreshOf(transport, path, Removed(policy, unit), lit, uri)
  BY <1>1 DEF Fresh
<1> HIDE DEF transport, path, lit, uri
<1>3. <<payload>> = <<Payload(transport, path, path.shows \ lit, uri)>>
  BY <1>1, <1>2 DEF FreshOf
<1>4. payload = Payload(transport, path, path.shows \ lit, uri)
  BY <1>3
<1>5. payload.shows = IF transport = "uri" THEN {} ELSE path.shows \ lit
  BY <1>4 DEF Payload
<1> QED BY <1>5 DEF lit

LEMMA FilledIsSound ==
    ASSUME WellStocked, NEW M, NEW c, CacheSound(M, c), NEW scope \in DOMAIN Holdings, NEW request \in Projections,
           NEW i \in DOMAIN Holdings[scope], NEW level \in Catalog, NEW payload,
           NEW rules \in UsedIn(M, scope, request.policies),
           <<payload>> = Fresh(rules, scope, request, Holdings[scope][i], level)
    PROVE  LET key == EntryKey(scope, request, Holdings[scope][i], level)
           IN CacheSound(M, [k \in DOMAIN c \cup {key} |-> IF k = key THEN payload ELSE c[k]])
<1> DEFINE key == EntryKey(scope, request, Holdings[scope][i], level)
           d == [k \in DOMAIN c \cup {key} |-> IF k = key THEN payload ELSE c[k]]
<1>1. DOMAIN d = DOMAIN c \cup {key} /\ d[key] = payload /\ \A k \in DOMAIN c : k # key => d[k] = c[k]
  OBVIOUS
<1> HIDE DEF d, key
<1>2. ASSUME NEW t \in DOMAIN Holdings, NEW q \in Projections, NEW j \in DOMAIN Holdings[t], NEW m \in Catalog,
             EntryKey(t, q, Holdings[t][j], m) \in DOMAIN d
      PROVE  \E by \in UsedIn(M, t, q.policies) :
                 <<d[EntryKey(t, q, Holdings[t][j], m)]>> = Fresh(by, t, q, Holdings[t][j], m)
  <2> DEFINE k == EntryKey(t, q, Holdings[t][j], m)
  <2>1. CASE k = key
    <3>1. /\ scope = t /\ request.policies = q.policies
          /\ Fresh(rules, scope, request, Holdings[scope][i], level) = Fresh(rules, t, q, Holdings[t][j], m)
      BY <2>1, SameKeySameText DEF key
    <3>2. <<payload>> = Fresh(rules, t, q, Holdings[t][j], m) /\ rules \in UsedIn(M, t, q.policies)
      BY <3>1
    <3> QED BY <1>1, <2>1, <3>2
  <2>2. CASE k # key
    <3>1. k \in DOMAIN c
      BY <1>1, <1>2, <2>2
    <3>2. PICK by \in UsedIn(M, t, q.policies) : <<c[k]>> = Fresh(by, t, q, Holdings[t][j], m)
      BY <3>1 DEF CacheSound
    <3>3. d[k] = c[k]
      BY <1>1, <2>2, <3>1
    <3> HIDE DEF k
    <3>4. <<d[k]>> = Fresh(by, t, q, Holdings[t][j], m)
      BY <3>2, <3>3
    <3> QED BY <3>4 DEF k
  <2> QED BY <2>1, <2>2
<1>3. CacheSound(M, d)
  BY <1>2 DEF CacheSound
<1> QED BY <1>3 DEF d, key

\* What was served so far is what the rules of some engine leave, and what was not found in the cache is
\* what the engine's own leave; and the cache is sound.
ServedBy(rules, scope, request, s) == <<s.payload>> = Fresh(rules, scope, request, s.unit, s.level)
ServedFresh(M, own, scope, request, s) ==
    /\ s.hit \in BOOLEAN
    /\ \E rules \in UsedIn(M, scope, request.policies) : ServedBy(rules, scope, request, s)
    /\ s.hit = FALSE => ServedBy(own, scope, request, s)
DoneSound(M, own, scope, request, done) ==
    /\ \E S : done.units \in Seq(S)
    /\ \A i \in DOMAIN done.units : ServedFresh(M, own, scope, request, done.units[i])
    /\ CacheSound(M, done.cache)

LEMMA OneMoreServed ==
    ASSUME NEW M, NEW own, NEW scope, NEW request, NEW done, DoneSound(M, own, scope, request, done),
           NEW s, ServedFresh(M, own, scope, request, s), NEW c, CacheSound(M, c)
    PROVE  DoneSound(M, own, scope, request, [units |-> Append(done.units, s), cache |-> c])
<1> DEFINE us == done.units
           vs == Append(us, s)
<1>1. PICK S : us \in Seq(S)
  BY DEF DoneSound
<1>2. \A i \in DOMAIN us : ServedFresh(M, own, scope, request, us[i])
  BY DEF DoneSound
<1> HIDE DEF us
<1>3. us \in Seq(S \cup {s})
  BY <1>1
<1>4. /\ vs \in Seq(S \cup {s}) /\ DOMAIN vs = 1..(Len(us) + 1) /\ vs[Len(us) + 1] = s
      /\ DOMAIN us = 1..Len(us) /\ Len(us) \in Nat /\ \A i \in 1..Len(us) : vs[i] = us[i]
  BY <1>3
<1> HIDE DEF vs
<1>5. ASSUME NEW i \in DOMAIN vs PROVE ServedFresh(M, own, scope, request, vs[i])
  <2>1. i = Len(us) + 1 \/ i \in 1..Len(us)
    BY <1>4
  <2> QED BY <1>2, <1>4, <2>1
<1> DEFINE d == [units |-> vs, cache |-> c]
<1>6. d.units = vs /\ d.cache = c
  OBVIOUS
<1> HIDE DEF d
<1>7. DoneSound(M, own, scope, request, d)
  BY <1>4, <1>5, <1>6 DEF DoneSound
<1> QED BY <1>7 DEF d, vs, us

LEMMA ProjectOneIsSound ==
    ASSUME WellStocked, NEW M, NEW own, NEW scope \in DOMAIN Holdings, NEW request \in Projections,
           own \in UsedIn(M, scope, request.policies), NEW i \in DOMAIN Holdings[scope],
           NEW level \in Catalog, NEW done, DoneSound(M, own, scope, request, done)
    PROVE  DoneSound(M, own, scope, request,
                     ProjectOne(own, scope, request, done, Holdings[scope][i], level))
<1> DEFINE u == Holdings[scope][i]
           key == EntryKey(scope, request, u, level)
           fresh == Fresh(own, scope, request, u, level)
           one == ProjectOne(own, scope, request, done, u, level)
<1>1. one = HitOrFill(own, scope, request, done, u, level, key)
  BY DEF ProjectOne
<1>2. CacheSound(M, done.cache)
  BY DEF DoneSound
<1>3. CASE level.level \notin DOMAIN u.artifacts
  <2>1. one = done
    BY <1>1, <1>3 DEF HitOrFill
  <2> QED BY <2>1
<1>4. CASE level.level \in DOMAIN u.artifacts /\ key \in DOMAIN done.cache
  <2> DEFINE s == Served(u, level, done.cache[key], {}, TRUE)
  <2>1. one = [units |-> Append(done.units, s), cache |-> done.cache]
    BY <1>1, <1>4 DEF HitOrFill, Hit
  <2>2. \E rules \in UsedIn(M, scope, request.policies) : <<done.cache[key]>> = Fresh(rules, scope, request, u, level)
    BY <1>2, <1>4 DEF CacheSound
  <2>3. s.payload = done.cache[key] /\ s.unit = u /\ s.level = level /\ s.hit = TRUE
    BY DEF Served
  <2> HIDE DEF s
  <2>4. ServedFresh(M, own, scope, request, s)
    BY <2>2, <2>3 DEF ServedFresh, ServedBy
  <2> QED BY <1>2, <2>1, <2>4, OneMoreServed
<1>5. CASE level.level \in DOMAIN u.artifacts /\ key \notin DOMAIN done.cache
  <2>1. one = Fill(done, u, level, Removed(own, u), key, fresh)
    BY <1>1, <1>5 DEF HitOrFill
  <2>2. CASE fresh = << >>
    <3>1. one = done
      BY <2>1, <2>2 DEF Fill
    <3> QED BY <3>1
  <2>3. CASE fresh # << >>
    <3>1. \E payload : fresh = <<payload>>
      BY <2>3 DEF Fresh, FreshOf
    <3>2. fresh = <<fresh[1]>>
      BY <3>1
    <3> DEFINE s == Served(u, level, fresh[1], Removed(own, u), FALSE)
               c == [k \in DOMAIN done.cache \cup {key} |-> IF k = key THEN fresh[1] ELSE done.cache[k]]
    <3>3. one = [units |-> Append(done.units, s), cache |-> c]
      BY <2>1, <2>3 DEF Fill
    <3>4. s.payload = fresh[1] /\ s.unit = u /\ s.level = level /\ s.hit = FALSE
      BY DEF Served
    <3>5. CacheSound(M, c)
      BY <1>2, <3>2, FilledIsSound
    <3> HIDE DEF s, c
    <3>6. ServedFresh(M, own, scope, request, s)
      BY <3>2, <3>4 DEF ServedFresh, ServedBy
    <3> QED BY <3>3, <3>5, <3>6, OneMoreServed
  <2> QED BY <2>2, <2>3
<1> QED BY <1>3, <1>4, <1>5

-----------------------------------------------------------------------------
(* A request *)

\* Each row names a unit, and a level of the catalog.
Assigned(units, rows) ==
    /\ Len(rows) \in Nat
    /\ \A n \in 1..Len(rows) : rows[n].id \in DOMAIN units /\ rows[n].levels[rows[n].at] \in Catalog

LEMMA SolvedAreAssigned ==
    ASSUME Tokens(Catalog), NEW units, Placed(Catalog, units), NEW max \in Nat
    PROVE  Assigned(units, SolveBudget(units, max))
<1> DEFINE R == Richest(units)
           D == Degraded(R, max)
           K == SolveBudget(units, max)
<1>1. RowsUpTo(Catalog, units, R, Len(units)) /\ GoodRows(Catalog, R)
  BY RichestIs DEF RowsUpTo
<1>2. Degrades(Catalog, R, D, max)
  <2> HIDE DEF R
  <2> QED BY <1>1, DegradedIs
<1>3. K = Kept(D, max)
  BY DEF SolveBudget
<1> HIDE DEF K, D, R
<1>4. GoodRows(Catalog, D) /\ Len(D) \in Nat /\ DOMAIN D = 1..Len(D) /\ D \in Seq(Row(Catalog))
  BY <1>2 DEF Degrades, GoodRows
<1>5. PICK n \in 0..Len(D) : K = SubSeq(D, 1, n)
  BY <1>3, <1>4, KeptIs
<1>6. Len(K) = n /\ n \in Nat /\ \A i \in 1..n : K[i] = D[i] /\ i \in DOMAIN D
  BY <1>4, <1>5
<1>7. ASSUME NEW j \in DOMAIN D PROVE D[j].id \in DOMAIN units /\ D[j].levels[D[j].at] \in Catalog
  <2>1. D[j].id = R[j].id /\ j \in DOMAIN R
    BY <1>2 DEF Degrades, SameUnits
  <2>2. R[j].id \in 1..Len(units) /\ DOMAIN units = 1..Len(units)
    BY <1>1, <2>1 DEF RowsUpTo, Placed
  <2>3. D[j] \in Row(Catalog) /\ D[j].at \in DOMAIN D[j].levels
    BY <1>4 DEF GoodRows, GoodRow
  <2>4. D[j].levels \in Seq(Catalog)
    BY <2>3 DEF Row
  <2>5. D[j].levels[D[j].at] \in Catalog
    BY <2>3, <2>4
  <2> QED BY <2>1, <2>2, <2>5
<1>8. Assigned(units, K)
  BY <1>6, <1>7 DEF Assigned
<1> QED BY <1>8 DEF K

LEMMA RowsAreAssigned ==
    ASSUME WellStocked, NEW scope \in DOMAIN Holdings, NEW request \in Projections, NEW routed
    PROVE  Assigned(Holdings[scope], Rows(Catalog, routed, Holdings[scope], request))
<1> DEFINE units == Holdings[scope]
           O == Offered(Catalog, routed)
           L == [i \in DOMAIN units |-> Candidates(O, units[i], request.consumer)]
           placed == [i \in DOMAIN units |-> [id |-> i, levels |-> L[i]]]
<1>1. Len(units) \in Nat /\ DOMAIN units = 1..Len(units) /\ request.max \in Nat /\ Tokens(Catalog)
  BY DEF WellStocked, Tokens
<1>2. \A i \in DOMAIN units : L[i] \in Seq(Catalog) /\ Ascending(L[i])
  BY CandidatesAscend
<1>3. Rows(Catalog, routed, units, request) = SolveBudget(placed, request.max)
  BY DEF Rows, RowsOf
<1> HIDE DEF L
<1>4. DOMAIN placed = DOMAIN units /\ Len(placed) = Len(units)
  BY <1>1
<1>5. \A i \in DOMAIN units : placed[i].id = i /\ placed[i].levels = L[i]
  OBVIOUS
<1> HIDE DEF placed, units, O
<1>6. Placed(Catalog, placed)
  BY <1>1, <1>2, <1>4, <1>5 DEF Placed
<1>7. Assigned(placed, SolveBudget(placed, request.max))
  BY <1>1, <1>6, SolvedAreAssigned
<1> QED BY <1>3, <1>4, <1>7 DEF units, Assigned

\* What a request has done after each of its rows.
Served1(policy, units, request, scope, rows, done, n) ==
    ProjectOne(policy, scope, request, done, units[rows[n].id], rows[n].levels[rows[n].at])
IsServing(policy, units, request, scope, c, rows, f) ==
    f = [n \in 0..Len(rows) |->
            IF n = 0 THEN [units |-> << >>, cache |-> c] ELSE Served1(policy, units, request, scope, rows, f[n - 1], n)]
Serving(policy, units, request, scope, c, rows) == CHOOSE f : IsServing(policy, units, request, scope, c, rows, f)

LEMMA ProjectIsLast ==
    \A policy, units, request, scope, c, rows :
        ProjectRows(policy, units, request, scope, c, rows) = Serving(policy, units, request, scope, c, rows)[Len(rows)]
BY DEF ProjectRows, Serving, IsServing, Served1

LEMMA ServingExists ==
    ASSUME NEW policy, NEW units, NEW request, NEW scope, NEW c, NEW rows, Len(rows) \in Nat
    PROVE  \E f : IsServing(policy, units, request, scope, c, rows, f)
<1> DEFINE Next1(d, n) == Served1(policy, units, request, scope, rows, d, n)
           start == [units |-> << >>, cache |-> c]
           Upto(f, n) == f = [i \in 0..n |-> IF i = 0 THEN start ELSE Next1(f[i - 1], i)]
           S == {n \in Nat : \E f : Upto(f, n)}
<1> HIDE DEF Next1, start
<1>1. 0 \in S
  <2> DEFINE f == [i \in 0..0 |-> start]
  <2>1. Upto(f, 0)
    OBVIOUS
  <2> QED BY <2>1
<1>2. ASSUME NEW n \in Nat, n \in S PROVE n + 1 \in S
  <2>1. PICK g : Upto(g, n)
    BY <1>2
  <2> DEFINE new == Next1(g[n], n + 1)
             f == [i \in 0..(n + 1) |-> IF i = n + 1 THEN new ELSE g[i]]
  <2>2. ASSUME NEW i \in 0..(n + 1)
        PROVE  f[i] = IF i = 0 THEN start ELSE Next1(f[i - 1], i)
    <3>1. CASE i = n + 1
      <4>1. i # 0 /\ i - 1 = n /\ n \in 0..(n + 1) /\ n # n + 1
        BY <3>1
      <4>2. f[i] = new /\ f[i - 1] = g[n]
        BY <3>1, <4>1
      <4> HIDE DEF f
      <4> QED BY <3>1, <4>1, <4>2
    <3>2. CASE i # n + 1
      <4>1. i \in 0..n /\ f[i] = g[i]
        BY <3>2
      <4>2. i # 0 => i - 1 \in 0..(n + 1) /\ i - 1 # n + 1
        BY <4>1
      <4>3. i # 0 => f[i - 1] = g[i - 1]
        BY <4>2
      <4>4. g[i] = IF i = 0 THEN start ELSE Next1(g[i - 1], i)
        BY <2>1, <4>1
      <4> HIDE DEF f
      <4> QED BY <4>1, <4>3, <4>4
    <3> QED BY <3>1, <3>2
  <2>3. f = [i \in 0..(n + 1) |-> f[i]]
    OBVIOUS
  <2> HIDE DEF f
  <2>4. Upto(f, n + 1)
    BY <2>2, <2>3
  <2> QED BY <2>4
<1> HIDE DEF S
<1>3. Len(rows) \in S
  BY <1>1, <1>2, Induction
<1> QED BY <1>3 DEF S, Next1, start, IsServing

LEMMA ProjectIsSound ==
    ASSUME WellStocked, NEW M, NEW own, NEW scope \in DOMAIN Holdings, NEW request \in Projections,
           own \in UsedIn(M, scope, request.policies), NEW c, CacheSound(M, c),
           NEW rows, Assigned(Holdings[scope], rows)
    PROVE  DoneSound(M, own, scope, request, ProjectRows(own, Holdings[scope], request, scope, c, rows))
<1> DEFINE units == Holdings[scope]
           f == Serving(own, units, request, scope, c, rows)
           N == Len(rows)
           S == {n \in Nat : n <= N => DoneSound(M, own, scope, request, f[n])}
<1>1. N \in Nat
  BY DEF Assigned
<1>2. IsServing(own, units, request, scope, c, rows, f)
  BY <1>1, ServingExists DEF Serving
<1> HIDE DEF f
<1>3. /\ f[0] = [units |-> << >>, cache |-> c]
      /\ \A n \in 1..N : f[n] = ProjectOne(own, scope, request, f[n - 1], units[rows[n].id], rows[n].levels[rows[n].at])
  BY <1>1, <1>2 DEF IsServing, Served1
<1>4. 0 \in S
  <2> DEFINE d == [units |-> << >>, cache |-> c]
  <2>1. d.units \in Seq({}) /\ DOMAIN d.units = {} /\ d.cache = c
    OBVIOUS
  <2> HIDE DEF d
  <2>2. DoneSound(M, own, scope, request, d)
    BY <2>1 DEF DoneSound
  <2> QED BY <1>3, <2>2 DEF d
<1>5. ASSUME NEW n \in Nat, n \in S PROVE n + 1 \in S
  <2> SUFFICES ASSUME n + 1 <= N PROVE DoneSound(M, own, scope, request, f[n + 1])
    OBVIOUS
  <2>1. n + 1 \in 1..N /\ (n + 1) - 1 = n /\ DoneSound(M, own, scope, request, f[n])
    BY <1>1, <1>5
  <2> DEFINE i == rows[n + 1].id
             level == rows[n + 1].levels[rows[n + 1].at]
  <2>2. i \in DOMAIN Holdings[scope] /\ level \in Catalog
    BY <2>1 DEF Assigned
  <2>3. f[n + 1] = ProjectOne(own, scope, request, f[n], units[i], level)
    BY <1>3, <2>1
  <2> HIDE DEF i, level
  <2> QED BY <2>1, <2>2, <2>3, ProjectOneIsSound
<1> HIDE DEF S
<1>6. N \in S
  BY <1>1, <1>4, <1>5, Induction
<1> QED BY <1>1, <1>6, ProjectIsLast DEF S, f

-----------------------------------------------------------------------------
(* The theorem of the projection engine *)

EngineInv == CacheSound(meant, cache) /\ ProjectionIsLawful

LEMMA EngineStarts == EngineInit => EngineInv
<1> SUFFICES ASSUME EngineInit PROVE EngineInv
  OBVIOUS
<1>1. cache = << >> /\ projected = NothingYet
  BY DEF EngineInit
<1>2. CacheSound(meant, cache)
  BY <1>1 DEF CacheSound
<1>3. DOMAIN projected.units = {}
  BY <1>1 DEF NothingYet
<1>4. HitsAreFresh
  BY <1>3 DEF HitsAreFresh
<1>5. BudgetIsUsed
  BY <1>1 DEF BudgetIsUsed
<1> QED BY <1>2, <1>4, <1>5 DEF EngineInv, ProjectionIsLawful

LEMMA AskIsLawful ==
    ASSUME WellStocked, EngineInv, NEW engine \in Engines, NEW request \in Projections, Ask(engine, request)
    PROVE  EngineInv'
<1> DEFINE routed == Routing[request.purpose]
           scope == engine.scope
           own == engine.rules
           units == Holdings[scope]
           rows == Rows(Catalog, routed, units, request)
           done == Project(Catalog, routed, own, units, request, scope, cache)
<1>1. /\ cache' = done.cache /\ meant' = meant \cup {Intended(engine, request)}
      /\ projected' = [engine |-> engine, request |-> request, units |-> done.units, rows |-> rows]
  BY DEF Ask
<1>2. scope \in DOMAIN Holdings
  BY DEF WellStocked
<1>3. own \in UsedIn(meant', scope, request.policies)
  <2> DEFINE m == Intended(engine, request)
  <2>1. m.rules = own /\ m.scope = scope /\ m.policies = request.policies
    BY DEF Intended
  <2> HIDE DEF m, own, scope
  <2>2. m \in meant'
    BY <1>1 DEF m
  <2> QED BY <2>1, <2>2 DEF UsedIn
<1>4. CacheSound(meant', cache)
  <2>1. meant \subseteq meant'
    BY <1>1
  <2> QED BY <2>1, MoreMeant DEF EngineInv
<1>5. DoneSound(meant', own, scope, request, done)
  <2>1. Assigned(units, rows)
    BY <1>2, RowsAreAssigned
  <2>2. done = ProjectRows(own, units, request, scope, cache, rows)
    BY DEF Project
  <2> HIDE DEF rows, done, own, scope
  <2> QED BY <1>2, <1>3, <1>4, <2>1, <2>2, ProjectIsSound
<1>6. LET levels == Offered(Catalog, routed)
      IN Spent([i \in DOMAIN units |-> Candidates(levels, units[i], request.consumer)], rows, request.max)
  BY <1>2, RowsSpendWell
<1> HIDE DEF done, rows
<1>7. CacheSound(meant', cache')
  BY <1>1, <1>5 DEF DoneSound
<1>8. projected'.engine = engine /\ projected'.request = request /\ projected'.units = done.units /\ projected'.rows = rows
  BY <1>1
<1> DEFINE under == UsedIn(meant', scope, request.policies)
<1>9. ASSUME NEW i \in DOMAIN done.units
      PROVE  LET served == done.units[i]
             IN /\ \E rules \in under : ServedBy(rules, scope, request, served)
                /\ ~served.hit \/ under = {own} =>
                       ServedBy(own, scope, request, served) /\ served.payload.shows \cap Literals(own, served.unit) = {}
  <2> DEFINE served == done.units[i]
  <2>1. /\ served.hit \in BOOLEAN
        /\ \E rules \in under : ServedBy(rules, scope, request, served)
        /\ served.hit = FALSE => ServedBy(own, scope, request, served)
    BY <1>5 DEF DoneSound, ServedFresh
  <2> HIDE DEF served, under, own, scope
  <2>2. ~served.hit \/ under = {own} => ServedBy(own, scope, request, served)
    BY <2>1
  <2>3. ServedBy(own, scope, request, served) => served.payload.shows \cap Literals(own, served.unit) = {}
    BY FreshHidesLiterals DEF ServedBy
  <2> QED BY <2>1, <2>2, <2>3 DEF served
<1>10. RulesMeant(projected.engine.scope, projected.request.policies)' = under
  BY <1>8 DEF RulesMeant, UsedIn
<1>11. \A rules, served : FreshBy(rules, served)' <=> ServedBy(rules, scope, request, served)
  BY <1>8 DEF FreshBy, ServedBy
<1>12. HitsAreFresh'
  <2> HIDE DEF under
  <2> QED BY <1>8, <1>9, <1>10, <1>11 DEF HitsAreFresh, FreshBy, ServedBy
<1>13. BudgetIsUsed'
  BY <1>6, <1>8 DEF BudgetIsUsed
<1>14. CacheSound(meant, cache)'
  BY <1>7 DEF CacheSound, UsedIn
<1> QED BY <1>12, <1>13, <1>14 DEF EngineInv, ProjectionIsLawful

\* Whoever asks, and whatever was asked before: what is served is what the rules of an engine leave that
\* was asked in the same scope under the same references, the asking engine's own where they agree or
\* nothing was cached; and the budget of the request is kept, and used as budget.ts means it to be.
THEOREM ProjectionStaysLawful == ASSUME WellStocked PROVE EngineSpec => []ProjectionIsLawful
<1>1. EngineInit => EngineInv
  BY EngineStarts
<1>2. EngineInv /\ [EngineNext]_projectionVars => EngineInv'
  <2> SUFFICES ASSUME EngineInv, [EngineNext]_projectionVars PROVE EngineInv'
    OBVIOUS
  <2>1. CASE EngineNext
    BY <2>1, AskIsLawful DEF EngineNext
  <2>2. CASE UNCHANGED projectionVars
    BY <2>2 DEF projectionVars, EngineInv, CacheSound, UsedIn, ProjectionIsLawful, HitsAreFresh, FreshBy, RulesMeant, BudgetIsUsed
  <2> QED BY <2>1, <2>2
<1>3. EngineInv => ProjectionIsLawful
  BY DEF EngineInv
<1> QED BY <1>1, <1>2, <1>3, PTL DEF EngineSpec

-----------------------------------------------------------------------------
(* What a set of rules decides *)

LEMMA EarliestIs ==
    ASSUME NEW n \in Nat, NEW places, places \subseteq 1..n, places # {}
    PROVE  Earliest(places) \in places
<1>1. places \subseteq Nat
  OBVIOUS
<1>2. \E i \in places : \A j \in places : i <= j
  BY <1>1, LeastNat
<1> QED BY <1>2 DEF Earliest

\* Of the rules that match, one that denies decides if there is one.
LEMMA DecisiveIs ==
    ASSUME NEW rules, NEW n \in Nat, NEW matching, matching \subseteq 1..n, matching # {}
    PROVE  \E i \in matching : /\ Decisive(rules, matching) = rules[i]
                               /\ rules[i].effect # "deny" => \A j \in matching : rules[j].effect # "deny"
<1> DEFINE denying == {i \in matching : rules[i].effect = "deny"}
<1>1. CASE denying = {}
  <2>1. Decisive(rules, matching) = rules[Earliest(matching)] /\ Earliest(matching) \in matching
    BY <1>1, EarliestIs DEF Decisive
  <2> QED BY <1>1, <2>1
<1>2. CASE denying # {}
  <2>1. Decisive(rules, matching) = rules[Earliest(denying)]
    BY <1>2 DEF Decisive
  <2>2. denying \subseteq 1..n
    OBVIOUS
  <2>3. Earliest(denying) \in denying
    <3> HIDE DEF denying
    <3> QED BY <1>2, <2>2, EarliestIs
  <2> QED BY <2>1, <2>3
<1> QED BY <1>1, <1>2

\* What a decision says of the rules that agree, in whatever order they stand.
Granted(set, question) ==
    /\ Unclaimed(question.claim) \/ question.claim = set.name
    /\ Agreeing(set, question, "deny") = {}
    /\ Agreeing(set, question, "allow") # {} \/ set.default = "allow"

Grounded(decision, set, question) ==
    /\ decision.allowed \in BOOLEAN /\ (decision.allowed <=> Granted(set, question))
    /\ RestsOn(decision, set, question)

LEMMA ExplainIsLawful ==
    ASSUME NEW set, NEW question, IsPolicySet(set), set.rules \in Seq(ToSet(set.rules))
    PROVE  Grounded(Explain(set, question.claim, question.action, question.context), set, question)
<1> DEFINE decision == Explain(set, question.claim, question.action, question.context)
           rules == set.rules
           matching == {i \in DOMAIN rules : Matches(rules[i].match, question.action, question.context)}
           unbound == IF Unclaimed(question.claim) THEN {"policy-ref-unbound"} ELSE {}
<1>0. SUFFICES Grounded(decision, set, question)
  OBVIOUS
<1>1. CASE ~Unclaimed(question.claim) /\ question.claim # set.name
  <2>1. decision = Decision(FALSE, "mismatch", {"policy-ref-claimed"})
    BY <1>1 DEF Explain
  <2>2. decision.allowed = FALSE /\ decision.by = "mismatch"
    BY <2>1 DEF Decision
  <2> HIDE DEF decision
  <2> QED BY <1>1, <2>2 DEF Granted, Grounded, RestsOn
<1>2. CASE ~(~Unclaimed(question.claim) /\ question.claim # set.name)
  <2>1. decision = Decided(set, matching, unbound)
    BY <1>2 DEF Explain
  <2>2. PICK n \in Nat : DOMAIN rules = 1..n
    OBVIOUS
  <2>3. \A i \in DOMAIN rules : rules[i] \in ToSet(rules) /\ rules[i].effect \in {"allow", "deny"}
    BY DEF ToSet, IsPolicySet, Effects
  <2>4. ASSUME NEW effect
        PROVE  Agreeing(set, question, effect) = {rules[i] : i \in {j \in matching : rules[j].effect = effect}}
    BY DEF Agreeing, ToSet
  <2> DEFINE denies == {rules[i] : i \in {j \in matching : rules[j].effect = "deny"}}
             allows == {rules[i] : i \in {j \in matching : rules[j].effect = "allow"}}
  <2>5. Agreeing(set, question, "deny") = denies /\ Agreeing(set, question, "allow") = allows
    BY <2>4
  <2>6. Granted(set, question) <=> denies = {} /\ (allows # {} \/ set.default = "allow")
    BY <1>2, <2>5 DEF Granted
  <2>7. CASE matching = {}
    <3>1. decision = Decision(set.default = "allow", "default", unbound)
      BY <2>1, <2>7 DEF Decided
    <3>2. decision.allowed = (set.default = "allow") /\ decision.by = "default"
      BY <3>1 DEF Decision
    <3>3. denies = {} /\ allows = {}
      BY <2>7
    <3> HIDE DEF decision, denies, allows
    <3>4. RestsOn(decision, set, question)
      BY <2>5, <3>2, <3>3 DEF RestsOn
    <3> QED BY <2>6, <3>2, <3>3, <3>4 DEF Grounded
  <2>8. CASE matching # {}
    <3>1. decision = By(Decisive(rules, matching), unbound)
      BY <2>1, <2>8 DEF Decided
    <3>2. matching \subseteq 1..n
      BY <2>2
    <3>3. PICK i \in matching : /\ Decisive(rules, matching) = rules[i]
                                /\ rules[i].effect # "deny" => \A j \in matching : rules[j].effect # "deny"
      <4> HIDE DEF matching
      <4> QED BY <2>8, <3>2, DecisiveIs
    <3>4. decision = Decision(rules[i].effect = "allow", rules[i].id, unbound \cup Evident(rules[i].match))
      BY <3>1, <3>3 DEF By
    <3>5. /\ decision.allowed = (rules[i].effect = "allow") /\ decision.by = rules[i].id
          /\ Evident(rules[i].match) \subseteq decision.evidence
      BY <3>4 DEF Decision
    <3>6. i \in DOMAIN rules /\ rules[i].effect \in {"allow", "deny"}
      BY <2>3
    <3> HIDE DEF decision
    <3>7. CASE rules[i].effect = "deny"
      <4>1. rules[i] \in denies
        BY <3>7
      <4>2. decision.allowed = FALSE
        BY <3>5, <3>7
      <4>3. rules[i] \in Agreeing(set, question, IF decision.allowed THEN "allow" ELSE "deny")
        BY <2>5, <4>1, <4>2
      <4>4. RestsOn(decision, set, question)
        BY <3>5, <4>3 DEF RestsOn
      <4> HIDE DEF denies, allows
      <4> QED BY <2>6, <4>1, <4>2, <4>4 DEF Grounded
    <3>8. CASE rules[i].effect = "allow"
      <4>1. rules[i] \in allows /\ denies = {}
        BY <3>3, <3>8
      <4>2. decision.allowed = TRUE
        BY <3>5, <3>8
      <4>3. rules[i] \in Agreeing(set, question, IF decision.allowed THEN "allow" ELSE "deny")
        BY <2>5, <4>1, <4>2
      <4>4. RestsOn(decision, set, question)
        BY <3>5, <4>3 DEF RestsOn
      <4> HIDE DEF denies, allows
      <4> QED BY <2>6, <4>1, <4>2, <4>4 DEF Grounded
    <3> QED BY <3>6, <3>7, <3>8
  <2> QED BY <2>7, <2>8
<1> QED BY <1>1, <1>2

LEMMA ReverseIs ==
    ASSUME NEW s, s \in Seq(ToSet(s))
    PROVE  ToSet(Reverse(s)) = ToSet(s) /\ Reverse(s) \in Seq(ToSet(s))
<1>1. PICK n \in Nat : n = Len(s) /\ DOMAIN s = 1..n
  OBVIOUS
<1>2. Reverse(s) = [i \in 1..n |-> s[n - i + 1]]
  BY <1>1 DEF Reverse
<1>3. \A i \in 1..n : n - i + 1 \in 1..n /\ n - (n - i + 1) + 1 = i
  BY <1>1
<1>4. \A i \in 1..n : s[n - i + 1] \in ToSet(s)
  BY <1>1, <1>3 DEF ToSet
<1>5. Reverse(s) \in Seq(ToSet(s))
  BY <1>2, <1>4
<1>6. ASSUME NEW x \in ToSet(s) PROVE x \in ToSet(Reverse(s))
  <2>1. PICK i \in 1..n : x = s[i]
    BY <1>1 DEF ToSet
  <2>2. Reverse(s)[n - i + 1] = s[i] /\ n - i + 1 \in DOMAIN Reverse(s)
    BY <1>2, <1>3
  <2> QED BY <2>1, <2>2 DEF ToSet
<1>7. ASSUME NEW x \in ToSet(Reverse(s)) PROVE x \in ToSet(s)
  <2>1. PICK i \in 1..n : x = s[n - i + 1]
    BY <1>2 DEF ToSet
  <2> QED BY <1>4, <2>1
<1> QED BY <1>5, <1>6, <1>7

\* The order of the rules tells nothing.
LEMMA ExplainIgnoresOrder ==
    ASSUME NEW set, NEW question, IsPolicySet(set), set.rules \in Seq(ToSet(set.rules))
    PROVE  IsLawful(Explain(set, question.claim, question.action, question.context), set, question)
<1> DEFINE turned == Reversed(set)
<1>1. turned.name = set.name /\ turned.default = set.default /\ turned.rules = Reverse(set.rules)
  BY DEF Reversed
<1>2. ToSet(turned.rules) = ToSet(set.rules) /\ turned.rules \in Seq(ToSet(turned.rules))
  BY <1>1, ReverseIs
<1> HIDE DEF turned
<1>3. IsPolicySet(turned)
  BY <1>1, <1>2 DEF IsPolicySet
<1>4. \A effect : Agreeing(turned, question, effect) = Agreeing(set, question, effect)
  BY <1>2 DEF Agreeing
<1>5. Granted(turned, question) <=> Granted(set, question)
  BY <1>1, <1>4 DEF Granted
<1>6. Grounded(Explain(turned, question.claim, question.action, question.context), turned, question)
  BY <1>2, <1>3, ExplainIsLawful
<1>7. Grounded(Explain(set, question.claim, question.action, question.context), set, question)
  BY ExplainIsLawful
<1>8. Explain(turned, question.claim, question.action, question.context).allowed = Explain(set, question.claim, question.action, question.context).allowed
  BY <1>5, <1>6, <1>7 DEF Grounded
<1> QED BY <1>7, <1>8 DEF Grounded, IsLawful, Granted, turned

-----------------------------------------------------------------------------
(* What a directory holds *)

LEMMA RankIs ==
    ASSUME NEW n \in Nat, NEW k \in 1..n
    PROVE  (CHOOSE i \in 1..n : Cardinality({j \in 1..n : j < i}) = k - 1) = k
<1>1. ASSUME NEW i \in 1..n PROVE Cardinality({j \in 1..n : j < i}) = i - 1
  <2>1. {j \in 1..n : j < i} = 1..(i - 1)
    OBVIOUS
  <2>2. Cardinality(1..(i - 1)) = i - 1
    BY FS_Interval
  <2> QED BY <2>1, <2>2
<1> QED BY <1>1

\* A directory without a fault is read as a whole: each file is a set, and no two have one name.
LEMMA LoadsAll ==
    ASSUME NEW root, root.files \in Seq(ToSet(root.files)), LoadFaults(root) = {}
    PROVE  /\ AllOrNothing(root, SetsIn(root.files))
           /\ SetsIn(root.files) \in Seq(ToSet(SetsIn(root.files)))
           /\ \A i \in DOMAIN SetsIn(root.files) : IsPolicySet(SetsIn(root.files)[i]) /\ i \in DOMAIN root.files
<1> DEFINE files == root.files
           sets == SetsIn(files)
<1>1. PICK n \in Nat : n = Len(files) /\ DOMAIN files = 1..n
  OBVIOUS
<1>2. /\ \A file \in ToSet(files) : FileFaults(file) = {}
      /\ {"DUPLICATE_POLICY_SET" : i \in DoubledSets(sets)} = {}
  BY DEF LoadFaults
<1>3. DoubledSets(sets) = {}
  <2> HIDE DEF sets
  <2> QED BY <1>2
<1>4. ASSUME NEW i \in DOMAIN files
      PROVE  files[i].lies = "inside" /\ files[i].parses /\ IsPolicySet(files[i].set)
  <2>1. FileFaults(files[i]) = {}
    BY <1>2 DEF ToSet
  <2> QED BY <2>1 DEF FileFaults
<1>5. Readable(files) = 1..n
  BY <1>1, <1>4 DEF Readable
<1>6. Cardinality(1..n) = n
  BY FS_Interval
<1>7. sets = [k \in 1..n |-> files[CHOOSE i \in 1..n : Cardinality({j \in 1..n : j < i}) = k - 1].set]
  BY <1>5, <1>6 DEF SetsIn
<1>8. \A k \in 1..n : sets[k] = files[k].set
  <2> TAKE k \in 1..n
  <2>1. (CHOOSE i \in 1..n : Cardinality({j \in 1..n : j < i}) = k - 1) = k
    BY RankIs
  <2> HIDE DEF sets
  <2> QED BY <1>7, <2>1
<1>9. DOMAIN sets = 1..n
  BY <1>7
<1> HIDE DEF sets
<1>10. sets \in Seq(ToSet(sets)) /\ Len(sets) = n
  <2>1. sets = [k \in 1..n |-> sets[k]]
    BY <1>7
  <2>2. \A k \in 1..n : sets[k] \in ToSet(sets)
    BY <1>9 DEF ToSet
  <2>3. sets \in Seq(ToSet(sets))
    BY <2>1, <2>2
  <2> QED BY <1>9, <2>3
<1>11. ASSUME NEW i \in DOMAIN sets, NEW j \in DOMAIN sets, sets[i].name = sets[j].name PROVE i = j
  <2>1. i \notin DoubledSets(sets) /\ j \notin DoubledSets(sets)
    BY <1>3
  <2>2. ~(i < j) /\ ~(j < i)
    BY <1>9, <1>11, <2>1 DEF DoubledSets
  <2> QED BY <1>9, <2>2
<1>12. AllOrNothing(root, sets)
  BY <1>1, <1>8, <1>9, <1>10, <1>11 DEF AllOrNothing
<1>13. \A i \in DOMAIN sets : IsPolicySet(sets[i]) /\ i \in DOMAIN files
  BY <1>1, <1>4, <1>8, <1>9
<1> QED BY <1>10, <1>12, <1>13 DEF sets

-----------------------------------------------------------------------------
(* The theorem of the policy engine *)

AreLawful(sets) ==
    /\ sets \in Seq(ToSet(sets))
    /\ \A set \in ToSet(sets) : IsPolicySet(set) /\ set.rules \in Seq(ToSet(set.rules))

\* What holds at every step: what was asked is one of the requests, the sets that were loaded are all of
\* the directory's, the one that decides is one of them, and the decision is the one it makes.
PolicyInv ==
    /\ \E some \in PolicyInquiries : inquiry \in some
    /\ progress \in {"load", "select", "decide", "done", "failed"}
    /\ progress \in {"select", "decide", "done"} => AreLawful(ruling.sets)
    /\ ruling.sets # << >> => AllOrNothing(inquiry.directory, ruling.sets)
    /\ progress \in {"decide", "done"} => IsBound(ruling.set, ruling.sets, inquiry)
    /\ progress = "done" => ruling.decision = Explain(ruling.set, inquiry.claim, inquiry.action, inquiry.context)
    /\ progress = "failed" => ruling.decision = Unsaid

LEMMA RulingIs ==
    ASSUME NEW sets, NEW set, NEW decision, NEW faults, NEW made, made = Ruling(sets, set, decision, faults)
    PROVE  made.sets = sets /\ made.set = set /\ made.decision = decision
BY DEF Ruling

LEMMA PolicyStarts == PolicyInit => PolicyInv
BY RulingIs DEF PolicyInit, PolicyInv

LEMMA LoadIsLawful == WellRequested /\ PolicyInv /\ LoadPolicySets => PolicyInv'
<1> SUFFICES ASSUME WellRequested, PolicyInv, LoadPolicySets PROVE PolicyInv'
  OBVIOUS
<1> DEFINE root == inquiry.directory
           sets == SetsIn(root.files)
<1>1. inquiry' = inquiry /\ \E some \in PolicyInquiries : inquiry \in some
  BY DEF LoadPolicySets, PolicyInv
<1>2. CASE LoadFaults(root) # {}
  <2>1. progress' = "failed" /\ ruling'.sets = << >> /\ ruling'.decision = Unsaid
    BY <1>2, RulingIs DEF LoadPolicySets
  <2> QED BY <1>1, <2>1 DEF PolicyInv
<1>3. CASE LoadFaults(root) = {}
  <2>1. progress' = "select" /\ ruling'.sets = sets
    BY <1>3, RulingIs DEF LoadPolicySets
  <2>2. /\ root.files \in Seq(ToSet(root.files))
        /\ \A file \in ToSet(root.files) : file.set.rules \in Seq(ToSet(file.set.rules))
    BY <1>1 DEF WellRequested
  <2>3. /\ AllOrNothing(root, sets) /\ sets \in Seq(ToSet(sets))
        /\ \A i \in DOMAIN sets : IsPolicySet(sets[i]) /\ i \in DOMAIN root.files
    BY <1>3, <2>2, LoadsAll
  <2> HIDE DEF sets
  <2>4. \A i \in DOMAIN sets : sets[i] = root.files[i].set /\ root.files[i] \in ToSet(root.files)
    BY <2>3 DEF AllOrNothing, ToSet
  <2>5. ASSUME NEW set \in ToSet(sets) PROVE IsPolicySet(set) /\ set.rules \in Seq(ToSet(set.rules))
    <3>1. PICK i \in DOMAIN sets : set = sets[i]
      BY DEF ToSet
    <3>2. set = root.files[i].set /\ root.files[i] \in ToSet(root.files) /\ IsPolicySet(set)
      BY <2>3, <2>4, <3>1
    <3> QED BY <2>2, <3>2
  <2>6. AreLawful(ruling'.sets) /\ AllOrNothing(inquiry'.directory, ruling'.sets)
    BY <1>1, <2>1, <2>3, <2>5 DEF AreLawful
  <2> QED BY <1>1, <2>1, <2>6 DEF PolicyInv
<1> QED BY <1>2, <1>3

LEMMA SelectedIsBound ==
    ASSUME NEW sets, NEW question, NEW set, sets \in Seq(ToSet(sets)),
           set = SelectPolicySet(sets, Named(question)), set # Unsaid
    PROVE  IsBound(set, sets, question)
<1> DEFINE claim == Named(question)
           named == {i \in DOMAIN sets : IF Unclaimed(claim) THEN Len(sets) = 1 ELSE sets[i].name = claim}
<1>1. named # {} /\ set = sets[Earliest(named)]
  BY DEF SelectPolicySet
<1>2. PICK n \in Nat : DOMAIN sets = 1..n
  OBVIOUS
<1>3. named \subseteq 1..n
  BY <1>2
<1>4. Earliest(named) \in named
  <2> HIDE DEF named
  <2> QED BY <1>1, <1>3, EarliestIs
<1>5. PICK i \in named : set = sets[i]
  BY <1>1, <1>4
<1>6. set \in ToSet(sets)
  BY <1>5 DEF ToSet
<1> QED BY <1>5, <1>6 DEF IsBound

LEMMA SelectIsLawful == PolicyInv /\ Select => PolicyInv'
<1> SUFFICES ASSUME PolicyInv, Select PROVE PolicyInv'
  OBVIOUS
<1> DEFINE set == SelectPolicySet(ruling.sets, Named(inquiry))
<1>1. inquiry' = inquiry /\ \E some \in PolicyInquiries : inquiry \in some
  BY DEF Select, PolicyInv
<1>2. AreLawful(ruling.sets) /\ (ruling.sets # << >> => AllOrNothing(inquiry.directory, ruling.sets))
  BY DEF Select, PolicyInv
<1>3. CASE set = Unsaid
  <2>1. progress' = "failed" /\ ruling' = Ruling(ruling.sets, Unsaid, Unsaid, {"no such set"})
    BY <1>3 DEF Select, Bind
  <2>2. ruling'.sets = ruling.sets /\ ruling'.decision = Unsaid
    BY <2>1 DEF Ruling
  <2> QED BY <1>1, <1>2, <2>1, <2>2 DEF PolicyInv
<1>4. CASE set # Unsaid
  <2>1. progress' = "decide" /\ ruling'.sets = ruling.sets /\ ruling'.set = set
    BY <1>4, RulingIs DEF Select, Bind
  <2>2. IsBound(set, ruling.sets, inquiry)
    BY <1>2, <1>4, SelectedIsBound DEF AreLawful
  <2>3. IsBound(ruling'.set, ruling'.sets, inquiry')
    BY <1>1, <2>1, <2>2
  <2> QED BY <1>1, <1>2, <2>1, <2>3 DEF PolicyInv
<1> QED BY <1>3, <1>4

LEMMA DecideIsLawful == PolicyInv /\ Decide => PolicyInv'
<1> SUFFICES ASSUME PolicyInv, Decide PROVE PolicyInv'
  OBVIOUS
<1>1. /\ inquiry' = inquiry /\ progress' = "done"
      /\ ruling'.sets = ruling.sets /\ ruling'.set = ruling.set
      /\ ruling'.decision = Explain(ruling.set, inquiry.claim, inquiry.action, inquiry.context)
  BY RulingIs DEF Decide
<1>2. progress = "decide"
  BY DEF Decide
<1> QED BY <1>1, <1>2 DEF PolicyInv

LEMMA InvIsLawful == PolicyInv => DecisionIsLawful
<1> SUFFICES ASSUME PolicyInv PROVE DecisionIsLawful
  OBVIOUS
<1>1. CASE progress = "done"
  <2>1. PICK d : d = Explain(ruling.set, inquiry.claim, inquiry.action, inquiry.context)
    OBVIOUS
  <2>2. ruling.decision = d /\ IsBound(ruling.set, ruling.sets, inquiry) /\ AreLawful(ruling.sets)
    BY <1>1, <2>1 DEF PolicyInv
  <2>3. IsPolicySet(ruling.set) /\ ruling.set.rules \in Seq(ToSet(ruling.set.rules))
    BY <2>2 DEF AreLawful, IsBound
  <2>4. IsLawful(d, ruling.set, inquiry) /\ Grounded(d, ruling.set, inquiry)
    BY <2>1, <2>3, ExplainIsLawful, ExplainIgnoresOrder
  <2>5. RestsOn(d, ruling.set, inquiry)
    BY <2>4 DEF Grounded
  <2>6. /\ IsLawful(ruling.decision, ruling.set, inquiry)
        /\ RestsOn(ruling.decision, ruling.set, inquiry)
        /\ IsBound(ruling.set, ruling.sets, inquiry)
    BY <2>2, <2>4, <2>5
  <2> QED BY <1>1, <2>6 DEF DecisionIsLawful, PolicyInv
<1>2. CASE progress # "done"
  BY <1>2 DEF DecisionIsLawful, PolicyInv
<1> QED BY <1>1, <1>2

\* Whatever rules stand in whatever directory and whoever asks: a request is allowed if and only if the one
\* set that is bound to it has an agreeing allow or allows by default, and no agreeing deny (engine.ts
\* explain, load.ts loadPolicySets, selectPolicySet).
THEOREM DecisionStaysLawful == ASSUME WellRequested PROVE PolicySpec => []DecisionIsLawful
<1>1. PolicyInit => PolicyInv
  BY PolicyStarts
<1>2. PolicyInv /\ [PolicyNext]_policyVars => PolicyInv'
  <2> SUFFICES ASSUME PolicyInv, [PolicyNext]_policyVars PROVE PolicyInv'
    OBVIOUS
  <2>1. CASE LoadPolicySets
    BY <2>1, LoadIsLawful
  <2>2. CASE Select
    BY <2>2, SelectIsLawful
  <2>3. CASE Decide
    BY <2>3, DecideIsLawful
  <2>4. CASE UNCHANGED policyVars
    BY <2>4 DEF policyVars, PolicyInv
  <2> QED BY <2>1, <2>2, <2>3, <2>4 DEF PolicyNext
<1>3. PolicyInv => DecisionIsLawful
  BY InvIsLawful
<1> QED BY <1>1, <1>2, <1>3, PTL DEF PolicySpec
=============================================================================
