---------------------------- MODULE WriterProofs ----------------------------
(***************************************************************************)
(* Proofs about what writes into directories: BundleFinalizer, for any     *)
(* requests whose names stand in one order, any units, and any number of   *)
(* rounds and mishaps, and UnitEmitter, for any versions and projections,  *)
(* and any number of emissions and troubles.                               *)
(***************************************************************************)
EXTENDS BundleFinalizer, UnitEmitter, FiniteSetTheorems, SequenceTheorems, TLAPS

-----------------------------------------------------------------------------
(* Things in an order: each has a rank *)

StrictOn(R, S) ==
    /\ IsFiniteSet(S)
    /\ \A x \in S : <<x, x>> \notin R
    /\ \A x, y \in S : x # y => <<x, y>> \in R \/ <<y, x>> \in R
    /\ \A x, y, z \in S : <<x, y>> \in R /\ <<y, z>> \in R => <<x, z>> \in R
Under(R, S, x) == {y \in S : <<y, x>> \in R}

LEMMA RankIs ==
    ASSUME NEW R, NEW S, StrictOn(R, S)
    PROVE  /\ Cardinality(S) \in Nat
           /\ \A x, y \in S : Cardinality(Under(R, S, x)) = Cardinality(Under(R, S, y)) => x = y
           /\ \A k \in 1..Cardinality(S) : \E x \in S : Cardinality(Under(R, S, x)) = k - 1
           /\ \A x \in S : Cardinality(Under(R, S, x)) + 1 \in 1..Cardinality(S)
<1> DEFINE B(x) == Under(R, S, x)
           n == Cardinality(S)
           r == [x \in S |-> Cardinality(B(x)) + 1]
<1>1. IsFiniteSet(S) /\ n \in Nat
  BY FS_CardinalityType DEF StrictOn
<1>2. \A x \in S : B(x) \in SUBSET S /\ x \notin B(x)
  BY DEF StrictOn, Under
<1>3. \A x, y \in S : x # y => y \in B(x) \/ x \in B(y)
  BY DEF StrictOn, Under
<1>4. \A x, y \in S : x \in B(y) => B(x) \in SUBSET B(y)
  BY DEF StrictOn, Under
<1> HIDE DEF B, n
<1>5. ASSUME NEW x \in S PROVE IsFiniteSet(B(x)) /\ Cardinality(B(x)) \in Nat /\ Cardinality(B(x)) < n
  <2>1. B(x) \in SUBSET S /\ B(x) # S
    BY <1>2
  <2> QED BY <1>1, <2>1, FS_Subset, FS_CardinalityType DEF n
<1>6. ASSUME NEW x \in S, NEW y \in S, x \in B(y) PROVE Cardinality(B(x)) < Cardinality(B(y))
  <2>1. B(x) \in SUBSET B(y) /\ B(x) # B(y)
    BY <1>2, <1>4, <1>6
  <2>2. IsFiniteSet(B(y)) /\ Cardinality(B(x)) \in Nat /\ Cardinality(B(y)) \in Nat
    BY <1>5
  <2>3. Cardinality(B(x)) <= Cardinality(B(y)) /\ Cardinality(B(x)) # Cardinality(B(y))
    BY <2>1, <2>2, FS_Subset
  <2> QED BY <2>2, <2>3
<1>7. ASSUME NEW x \in S, NEW y \in S, Cardinality(B(x)) = Cardinality(B(y)) PROVE x = y
  <2>1. Cardinality(B(x)) \in Nat /\ Cardinality(B(y)) \in Nat
    BY <1>5
  <2> QED BY <1>3, <1>6, <1>7, <2>1
<1>8. r \in Injection(S, 1..n)
  <2>1. \A x \in S : Cardinality(B(x)) \in Nat /\ Cardinality(B(x)) + 1 \in 1..n
    BY <1>1, <1>5
  <2> QED BY <1>7, <2>1 DEF Injection, IsInjective
<1>9. r \in Surjection(S, 1..n)
  <2>1. IsFiniteSet(1..n) /\ Cardinality(1..n) = n
    BY <1>1, FS_Interval
  <2> HIDE DEF r
  <2>2. Cardinality(S) = Cardinality(1..n) <=> r \in Surjection(S, 1..n)
    BY <1>1, <1>8, <2>1, FS_Injection
  <2> QED BY <2>1, <2>2 DEF n
<1>10. ASSUME NEW k \in 1..n PROVE \E x \in S : Cardinality(B(x)) = k - 1
  <2>1. PICK x \in S : r[x] = k
    <3> HIDE DEF r
    <3> QED BY <1>9 DEF Surjection
  <2>2. Cardinality(B(x)) + 1 = k /\ Cardinality(B(x)) \in Nat
    BY <1>5, <2>1
  <2> QED BY <2>2
<1>11. \A x \in S : Cardinality(B(x)) + 1 \in 1..n
  BY <1>1, <1>5
<1> QED BY <1>1, <1>7, <1>10, <1>11 DEF B, n

\* A listing of S: its elements, once each.
Lists(f, S) ==
    /\ f = [i \in 1..Cardinality(S) |-> f[i]]
    /\ \A i \in 1..Cardinality(S) : f[i] \in S
    /\ \A i, j \in 1..Cardinality(S) : f[i] = f[j] => i = j
    /\ \A x \in S : \E i \in 1..Cardinality(S) : f[i] = x

Ranks(f, R, S) ==
    /\ f = [i \in 1..Cardinality(S) |-> f[i]]
    /\ \A i \in 1..Cardinality(S) : f[i] \in S /\ Cardinality(Under(R, S, f[i])) = i - 1

LEMMA RankedLists == ASSUME NEW R, NEW S, StrictOn(R, S), NEW f, Ranks(f, R, S) PROVE Lists(f, S)
<1> DEFINE n == Cardinality(S)
<1>1. n \in Nat
  BY RankIs
<1> HIDE DEF n
<1>2. ASSUME NEW i \in 1..n, NEW j \in 1..n, f[i] = f[j] PROVE i = j
  <2>1. i - 1 = j - 1
    BY <1>2 DEF n, Ranks
  <2> QED BY <1>1, <2>1
<1>3. ASSUME NEW x \in S PROVE \E i \in 1..n : f[i] = x
  <2>1. PICK i \in 1..n : i = Cardinality(Under(R, S, x)) + 1 /\ Cardinality(Under(R, S, x)) = i - 1
    <3>1. PICK c : c = Cardinality(Under(R, S, x))
      OBVIOUS
    <3>2. c + 1 \in 1..n
      BY <3>1, RankIs DEF n
    <3>3. c \in Nat
      <4>1. IsFiniteSet(S) /\ Under(R, S, x) \subseteq S
        BY DEF StrictOn, Under
      <4> QED BY <3>1, <4>1, FS_Subset, FS_CardinalityType
    <3>4. c = (c + 1) - 1
      BY <3>3
    <3> QED BY <3>1, <3>2, <3>4
  <2>2. f[i] \in S /\ Cardinality(Under(R, S, f[i])) = Cardinality(Under(R, S, x))
    BY <2>1 DEF n, Ranks
  <2> QED BY <2>2, RankIs
<1> QED BY <1>2, <1>3 DEF Lists, Ranks, n

LEMMA InOrderLists ==
    ASSUME NEW S, IsFiniteSet(S), Ordered(S)
    PROVE  Lists(InOrder(S), S)
<1> DEFINE R == {p \in S \X S : Precedes(p[1], p[2])}
           At1(i) == CHOOSE x \in S : Cardinality({y \in S : Precedes(y, x)}) = i - 1
           f == InOrder(S)
<1>1. StrictOn(R, S) /\ \A x \in S : Under(R, S, x) = {y \in S : Precedes(y, x)}
  BY DEF Ordered, StrictOn, Under
<1>2. f = [i \in 1..Cardinality(S) |-> At1(i)]
  BY DEF InOrder
<1> HIDE DEF R, f
<1>3. ASSUME NEW i \in 1..Cardinality(S) PROVE At1(i) \in S /\ Cardinality(Under(R, S, At1(i))) = i - 1
  <2>1. PICK x \in S : Cardinality(Under(R, S, x)) = i - 1
    BY <1>1, RankIs
  <2>2. Cardinality({y \in S : Precedes(y, x)}) = i - 1
    BY <1>1, <2>1
  <2>3. At1(i) \in S /\ Cardinality({y \in S : Precedes(y, At1(i))}) = i - 1
    BY <2>2
  <2> HIDE DEF At1
  <2> QED BY <1>1, <2>3
<1> HIDE DEF At1
<1>4. Lists(f, S)
  <2>1. f = [i \in 1..Cardinality(S) |-> f[i]] /\ \A i \in 1..Cardinality(S) : f[i] = At1(i)
    BY <1>2
  <2>2. \A i \in 1..Cardinality(S) : f[i] \in S /\ Cardinality(Under(R, S, f[i])) = i - 1
    BY <1>3, <2>1
  <2>3. Ranks(f, R, S)
    BY <2>1, <2>2 DEF Ranks
  <2> QED BY <1>1, <2>3, RankedLists
<1> QED BY <1>4 DEF f

LEMMA ByIdLists ==
    ASSUME NEW S, IsFiniteSet(S), Ordered({a.id : a \in S}), \A a, b \in S : a.id = b.id => a = b
    PROVE  Lists(ById(S), S)
<1> DEFINE R == {p \in S \X S : Precedes(p[1].id, p[2].id)}
           At1(i) == CHOOSE x \in S : Cardinality({y \in S : Precedes(y.id, x.id)}) = i - 1
           f == ById(S)
<1> DEFINE I == {a.id : a \in S}
<1>a. \A x \in S : x.id \in I
  OBVIOUS
<1>b. /\ \A u \in I : ~Precedes(u, u)
      /\ \A u, v \in I : u # v => Precedes(u, v) \/ Precedes(v, u)
      /\ \A u, v, w \in I : Precedes(u, v) /\ Precedes(v, w) => Precedes(u, w)
  BY DEF Ordered
<1> HIDE DEF I
<1>c. /\ \A x \in S : ~Precedes(x.id, x.id)
      /\ \A x, y \in S : x # y => Precedes(x.id, y.id) \/ Precedes(y.id, x.id)
      /\ \A x, y, z \in S : Precedes(x.id, y.id) /\ Precedes(y.id, z.id) => Precedes(x.id, z.id)
  BY <1>a, <1>b
<1>1. StrictOn(R, S) /\ \A x \in S : Under(R, S, x) = {y \in S : Precedes(y.id, x.id)}
  <2>1. \A x, y \in S : <<x, y>> \in R <=> Precedes(x.id, y.id)
    OBVIOUS
  <2>2. StrictOn(R, S)
    <3> HIDE DEF R
    <3> QED BY <1>c, <2>1 DEF StrictOn
  <2>3. \A x \in S : Under(R, S, x) = {y \in S : Precedes(y.id, x.id)}
    <3> HIDE DEF R
    <3> QED BY <2>1 DEF Under
  <2> QED BY <2>2, <2>3
<1>2. f = [i \in 1..Cardinality(S) |-> At1(i)]
  BY DEF ById
<1> HIDE DEF R, f
<1>3. ASSUME NEW i \in 1..Cardinality(S) PROVE At1(i) \in S /\ Cardinality(Under(R, S, At1(i))) = i - 1
  <2>1. PICK x \in S : Cardinality(Under(R, S, x)) = i - 1
    BY <1>1, RankIs
  <2>2. Cardinality({y \in S : Precedes(y.id, x.id)}) = i - 1
    BY <1>1, <2>1
  <2>3. At1(i) \in S /\ Cardinality({y \in S : Precedes(y.id, At1(i).id)}) = i - 1
    BY <2>2
  <2> HIDE DEF At1
  <2> QED BY <1>1, <2>3
<1> HIDE DEF At1
<1>4. Lists(f, S)
  <2>1. f = [i \in 1..Cardinality(S) |-> f[i]] /\ \A i \in 1..Cardinality(S) : f[i] = At1(i)
    BY <1>2
  <2>2. \A i \in 1..Cardinality(S) : f[i] \in S /\ Cardinality(Under(R, S, f[i])) = i - 1
    BY <1>3, <2>1
  <2>3. Ranks(f, R, S)
    BY <2>1, <2>2 DEF Ranks
  <2> QED BY <1>1, <2>3, RankedLists
<1> QED BY <1>4 DEF f

-----------------------------------------------------------------------------
(* The index of a corpus *)

Distinct(S) == \A a, b \in S : a.id = b.id => a = b
OrderedById(S) == Ordered({a.id : a \in S})

LEMMA ById1 ==
    ASSUME NEW S, IsFiniteSet(S), OrderedById(S), Distinct(S)
    PROVE  Lists(ById(S), S)
BY ByIdLists DEF OrderedById, Distinct

LEMMA ByIdOfSome ==
    ASSUME NEW S, IsFiniteSet(S), OrderedById(S), Distinct(S), NEW T, T \in SUBSET S
    PROVE  Lists(ById(T), T)
<1>1. IsFiniteSet(T)
  BY FS_Subset
<1>2. Distinct(T)
  BY DEF Distinct
<1>3. OrderedById(T)
  <2>1. \A x \in {a.id : a \in T} : x \in {a.id : a \in S}
    OBVIOUS
  <2> QED BY <2>1 DEF OrderedById, Ordered
<1> QED BY <1>1, <1>2, <1>3, ById1

\* What the names of a listing are.
LEMMA IdsOfListing ==
    ASSUME NEW S, NEW f, Lists(f, S)
    PROVE  /\ DOMAIN f = 1..Cardinality(S) /\ DOMAIN IdsOf(f) = 1..Cardinality(S)
           /\ \A i \in 1..Cardinality(S) : IdsOf(f)[i] = f[i].id
<1>1. DOMAIN f = 1..Cardinality(S)
  BY DEF Lists
<1> QED BY <1>1 DEF IdsOf

\* The atoms of a sequence whose ids differ.
LEMMA AtomsOf ==
    ASSUME NEW entries, entries \in Seq(ToSet(entries)), IsInjective(IdsOf(entries))
    PROVE  /\ IsFiniteSet(ToSet(entries)) /\ Distinct(ToSet(entries))
           /\ ToSet(IdsOf(entries)) = {a.id : a \in ToSet(entries)}
<1> DEFINE n == Len(entries)
           T == ToSet(entries)
<1>1. n \in Nat /\ DOMAIN entries = 1..n
  OBVIOUS
<1>2. T = {entries[i] : i \in 1..n}
  BY <1>1 DEF ToSet
<1>3. DOMAIN IdsOf(entries) = 1..n /\ \A i \in 1..n : IdsOf(entries)[i] = entries[i].id
  BY <1>1 DEF IdsOf
<1>4. IsFiniteSet(T)
  <2>1. entries \in Surjection(1..n, T)
    BY <1>1, <1>2 DEF Surjection
  <2>2. IsFiniteSet(1..n)
    BY <1>1, FS_Interval
  <2> HIDE DEF n, T
  <2> QED BY <2>1, <2>2, FS_Surjection
<1>5. ASSUME NEW a \in T, NEW b \in T, a.id = b.id PROVE a = b
  <2>1. PICK i \in 1..n, j \in 1..n : entries[i] = a /\ entries[j] = b
    BY <1>2
  <2>2. i = j
    BY <1>3, <1>5, <2>1 DEF IsInjective
  <2> QED BY <2>1, <2>2
<1>6. ToSet(IdsOf(entries)) = {a.id : a \in T}
  <2>1. ToSet(IdsOf(entries)) = {entries[i].id : i \in 1..n}
    BY <1>3 DEF ToSet
  <2> QED BY <1>2, <2>1
<1> QED BY <1>4, <1>5, <1>6 DEF Distinct

\* The names of clusters are finitely many, and stand in the order of names.
LEMMA ClusterNames ==
    ASSUME NEW A, IsFiniteSet(A), Ordered({Cluster(a) : a \in A})
    PROVE  Lists(InOrder({Cluster(a) : a \in A}), {Cluster(a) : a \in A})
<1> DEFINE N == {Cluster(a) : a \in A}
           g == [a \in A |-> Cluster(a)]
<1>1. g \in Surjection(A, N)
  BY DEF Surjection
<1> HIDE DEF N, g
<1>2. IsFiniteSet(N)
  BY <1>1, FS_Surjection
<1>3. Ordered(N)
  BY DEF N
<1>4. Lists(InOrder(N), N)
  BY <1>2, <1>3, InOrderLists
<1> QED BY <1>4 DEF N

\* The parts of the index of a corpus: who stands where.
LEMMA IndexIs ==
    ASSUME NEW entries, entries \in Seq(ToSet(entries)), IsInjective(IdsOf(entries)), Ordered(NamesIn(entries)),
           NEW N, N = {Cluster(a) : a \in Active(entries)}, NEW index, index = BuildGlobalIndex(entries)
    PROVE  /\ Lists(InOrder(N), N) /\ Cardinality(N) \in Nat
           /\ Lists(ById(Deprecated(entries)), Deprecated(entries))
           /\ DOMAIN index.deprecated = 1..Cardinality(Deprecated(entries))
           /\ \A j \in DOMAIN index.deprecated : index.deprecated[j] = ById(Deprecated(entries))[j].id
           /\ DOMAIN index.clusters = 1..Cardinality(N)
           /\ \A c \in DOMAIN index.clusters : \A G : G = GroupByDomain(Active(entries), InOrder(N)[c]) =>
                /\ Lists(ById(G), G)
                /\ DOMAIN index.clusters[c].atoms = 1..Cardinality(G)
                /\ \A j \in DOMAIN index.clusters[c].atoms : index.clusters[c].atoms[j] = ById(G)[j].id
<1> DEFINE T == ToSet(entries)
           A == Active(entries)
           D == Deprecated(entries)
<1>1. IsFiniteSet(T) /\ Distinct(T)
  BY AtomsOf
<1>2. OrderedById(T)
  <2>1. {a.id : a \in T} \subseteq NamesIn(entries)
    BY DEF NamesIn
  <2> QED BY <2>1 DEF OrderedById, Ordered
<1>3. A \in SUBSET T /\ D \in SUBSET T
  BY DEF Active, Deprecated
<1>4. Lists(ById(D), D)
  BY <1>1, <1>2, <1>3, ByIdOfSome
<1>5. \A name : GroupByDomain(A, name) \in SUBSET T
  BY <1>3 DEF GroupByDomain
<1>6. \A name : Lists(ById(GroupByDomain(A, name)), GroupByDomain(A, name))
  BY <1>1, <1>2, <1>5, ByIdOfSome
<1>7. Lists(InOrder(N), N)
  <2>1. IsFiniteSet(A)
    BY <1>1, <1>3, FS_Subset
  <2>2. Ordered({Cluster(a) : a \in A})
    <3>1. {Cluster(a) : a \in A} \subseteq NamesIn(entries)
      BY <1>3 DEF NamesIn
    <3> HIDE DEF A
    <3> QED BY <3>1 DEF Ordered
  <2> HIDE DEF A
  <2>3. Lists(InOrder({Cluster(a) : a \in A}), {Cluster(a) : a \in A})
    BY <2>1, <2>2, ClusterNames
  <2> QED BY <2>3 DEF A
<1>8. Cardinality(N) \in Nat
  <2>1. IsFiniteSet(A)
    BY <1>1, <1>3, FS_Subset
  <2> DEFINE g == [a \in A |-> Cluster(a)]
  <2>2. g \in Surjection(A, N)
    BY DEF Surjection
  <2> HIDE DEF A, g
  <2> QED BY <2>1, <2>2, FS_Surjection, FS_CardinalityType
<1>9. index.deprecated = IdsOf(ById(D)) /\ index.clusters = Clusters(A)
  BY DEF BuildGlobalIndex
<1>10. Clusters(A) = [i \in DOMAIN InOrder(N) |-> Clustered(InOrder(N)[i], ById(GroupByDomain(A, InOrder(N)[i])))]
  BY DEF Clusters
<1>11. DOMAIN InOrder(N) = 1..Cardinality(N)
  BY <1>7 DEF Lists
<1> HIDE DEF A, D, T
<1>12. DOMAIN index.clusters = 1..Cardinality(N)
  BY <1>9, <1>10, <1>11
<1>13. \A c \in 1..Cardinality(N) : index.clusters[c].atoms = IdsOf(ById(GroupByDomain(A, InOrder(N)[c])))
  BY <1>9, <1>10, <1>11 DEF Clustered
<1>14. ASSUME NEW c \in DOMAIN index.clusters, NEW G, G = GroupByDomain(A, InOrder(N)[c])
       PROVE  /\ Lists(ById(G), G)
              /\ DOMAIN index.clusters[c].atoms = 1..Cardinality(G)
              /\ \A j \in DOMAIN index.clusters[c].atoms : index.clusters[c].atoms[j] = ById(G)[j].id
  <2>1. Lists(ById(G), G)
    BY <1>6, <1>14
  <2>2. index.clusters[c].atoms = IdsOf(ById(G))
    BY <1>12, <1>13, <1>14
  <2> QED BY <2>1, <2>2, IdsOfListing
<1>15. DOMAIN index.deprecated = 1..Cardinality(D) /\ \A j \in DOMAIN index.deprecated : index.deprecated[j] = ById(D)[j].id
  BY <1>4, <1>9, IdsOfListing
<1> QED BY <1>4, <1>7, <1>8, <1>12, <1>14, <1>15 DEF A, D

\* The index of a corpus names each of its atoms once.
LEMMA IndexNamesOnce ==
    ASSUME NEW entries, entries \in Seq(ToSet(entries)), IsInjective(IdsOf(entries)), Ordered(NamesIn(entries))
    PROVE  NamesOnce(BuildGlobalIndex(entries), ToSet(IdsOf(entries)))
<1> DEFINE T == ToSet(entries)
           A == Active(entries)
           D == Deprecated(entries)
           N == {Cluster(a) : a \in A}
           index == BuildGlobalIndex(entries)
           d == ById(D)
           names == InOrder(N)
           G(c) == GroupByDomain(A, names[c])
           g(c) == ById(G(c))
           atom(p) == IF p[1] = 0 THEN d[p[2]] ELSE g(p[1])[p[2]]
<1>1. Distinct(T) /\ ToSet(IdsOf(entries)) = {a.id : a \in T}
  BY AtomsOf
<1>2. /\ Lists(names, N) /\ Cardinality(N) \in Nat /\ Lists(d, D)
      /\ DOMAIN index.deprecated = 1..Cardinality(D)
      /\ \A j \in DOMAIN index.deprecated : index.deprecated[j] = d[j].id
      /\ DOMAIN index.clusters = 1..Cardinality(N)
  BY IndexIs
<1>3. \A c \in DOMAIN index.clusters :
        /\ Lists(g(c), G(c))
        /\ DOMAIN index.clusters[c].atoms = 1..Cardinality(G(c))
        /\ \A j \in DOMAIN index.clusters[c].atoms : index.clusters[c].atoms[j] = g(c)[j].id
  BY IndexIs
<1>4. /\ \A a \in T : a \in A \/ a \in D
      /\ \A a \in A : a \in T /\ a \notin D /\ Cluster(a) \in N
      /\ D \subseteq T
  BY DEF Active, Deprecated
<1>5. \A c, a : a \in G(c) <=> a \in A /\ Cluster(a) = names[c]
  BY DEF GroupByDomain
<1>6. \A p : p \in Places(index) <=>
        \/ \E j \in DOMAIN index.deprecated : p = <<0, j>>
        \/ \E c \in DOMAIN index.clusters : \E j \in DOMAIN index.clusters[c].atoms : p = <<c, j>>
  BY DEF Places
<1> HIDE DEF T, A, D, N, index, d, names, G, g
<1>7. \A c \in DOMAIN index.clusters : c # 0
  BY <1>2
<1>8. ASSUME NEW j \in DOMAIN index.deprecated
      PROVE  At(index, <<0, j>>) = d[j].id /\ atom(<<0, j>>) = d[j] /\ d[j] \in D
  BY <1>2 DEF At, Lists
<1>9. ASSUME NEW c \in DOMAIN index.clusters, NEW j \in DOMAIN index.clusters[c].atoms
      PROVE  At(index, <<c, j>>) = g(c)[j].id /\ atom(<<c, j>>) = g(c)[j] /\ g(c)[j] \in G(c)
  BY <1>3, <1>7 DEF At, Lists
<1> HIDE DEF atom
<1>10. ASSUME NEW p \in Places(index) PROVE At(index, p) = atom(p).id /\ atom(p) \in T
  <2>1. CASE \E j \in DOMAIN index.deprecated : p = <<0, j>>
    BY <1>4, <1>8, <2>1
  <2>2. CASE \E c \in DOMAIN index.clusters : \E j \in DOMAIN index.clusters[c].atoms : p = <<c, j>>
    BY <1>4, <1>5, <1>9, <2>2
  <2> QED BY <1>6, <2>1, <2>2
<1>11. ASSUME NEW a \in T PROVE \E p \in Places(index) : atom(p) = a
  <2>1. CASE a \in D
    <3>1. PICK j \in 1..Cardinality(D) : d[j] = a
      BY <1>2, <2>1 DEF Lists
    <3>2. j \in DOMAIN index.deprecated /\ <<0, j>> \in Places(index)
      BY <1>2, <1>6
    <3> QED BY <1>8, <3>1, <3>2
  <2>2. CASE a \in A
    <3>1. PICK c \in 1..Cardinality(N) : names[c] = Cluster(a)
      BY <1>2, <1>4, <2>2 DEF Lists
    <3>2. c \in DOMAIN index.clusters /\ a \in G(c)
      BY <1>2, <1>5, <2>2, <3>1
    <3>3. PICK j \in 1..Cardinality(G(c)) : g(c)[j] = a
      BY <1>3, <3>2 DEF Lists
    <3>4. j \in DOMAIN index.clusters[c].atoms
      BY <1>3, <3>2
    <3>5. <<c, j>> \in Places(index)
      BY <1>6, <3>2, <3>4
    <3> QED BY <1>9, <3>2, <3>3, <3>4, <3>5
  <2> QED BY <1>4, <2>1, <2>2
<1>12. ASSUME NEW p \in Places(index), NEW q \in Places(index), atom(p) = atom(q) PROVE p = q
  <2>1. CASE (\E j \in DOMAIN index.deprecated : p = <<0, j>>) /\ (\E j \in DOMAIN index.deprecated : q = <<0, j>>)
    <3>1. PICK i \in DOMAIN index.deprecated, j \in DOMAIN index.deprecated : p = <<0, i>> /\ q = <<0, j>>
      BY <2>1
    <3>2. d[i] = d[j]
      BY <1>8, <1>12, <3>1
    <3> QED BY <1>2, <3>1, <3>2 DEF Lists
  <2>2. ASSUME NEW i \in DOMAIN index.deprecated, NEW c \in DOMAIN index.clusters, NEW j \in DOMAIN index.clusters[c].atoms,
               atom(<<0, i>>) = atom(<<c, j>>)
        PROVE  FALSE
    <3>1. d[i] \in D /\ g(c)[j] \in G(c) /\ d[i] = g(c)[j]
      BY <1>8, <1>9, <2>2
    <3> QED BY <1>4, <1>5, <3>1
  <2>3. ASSUME NEW b \in DOMAIN index.clusters, NEW i \in DOMAIN index.clusters[b].atoms, p = <<b, i>>,
               NEW c \in DOMAIN index.clusters, NEW j \in DOMAIN index.clusters[c].atoms, q = <<c, j>>
        PROVE  p = q
    <3>1. g(b)[i] \in G(b) /\ g(c)[j] \in G(c) /\ g(b)[i] = g(c)[j]
      BY <1>9, <1>12, <2>3
    <3>2. names[b] = names[c]
      BY <1>5, <3>1
    <3>3. b = c
      BY <1>2, <3>2 DEF Lists
    <3>4. PICK f, S : f = g(b) /\ S = G(b)
      OBVIOUS
    <3>5. Lists(f, S) /\ i \in 1..Cardinality(S) /\ j \in 1..Cardinality(S) /\ f[i] = f[j]
      BY <1>3, <3>1, <3>3, <3>4
    <3>6. i = j
      BY <3>5 DEF Lists
    <3> QED BY <2>3, <3>3, <3>6
  <2>4. /\ \/ \E j \in DOMAIN index.deprecated : p = <<0, j>>
           \/ \E c \in DOMAIN index.clusters : \E j \in DOMAIN index.clusters[c].atoms : p = <<c, j>>
        /\ \/ \E j \in DOMAIN index.deprecated : q = <<0, j>>
           \/ \E c \in DOMAIN index.clusters : \E j \in DOMAIN index.clusters[c].atoms : q = <<c, j>>
    BY <1>6
  <2> QED BY <1>12, <2>1, <2>2, <2>3, <2>4
<1>13. {At(index, p) : p \in Places(index)} = {a.id : a \in T}
  BY <1>10, <1>11
<1>14. ASSUME NEW p \in Places(index), NEW q \in Places(index), At(index, p) = At(index, q) PROVE p = q
  <2>1. atom(p) = atom(q)
    BY <1>1, <1>10, <1>14 DEF Distinct
  <2> QED BY <1>12, <2>1
<1>15. NamesOnce(index, ToSet(IdsOf(entries)))
  BY <1>1, <1>13, <1>14 DEF NamesOnce
<1> QED BY <1>15 DEF index

-----------------------------------------------------------------------------
(* Directories *)

LEMMA FileIs == \A x : File(x).bytes = x /\ File(x).kind = "file"
BY DEF File

\* Every entry but that of the unit is a file.
Filed(b) == \A n \in DOMAIN b.entries : n # "unit.yaml" => b.entries[n] = File(b.entries[n].bytes)

LEMMA PutIs ==
    ASSUME NEW b, NEW name, NEW bytes, NEW c, c = Put(b, name, bytes)
    PROVE  /\ DOMAIN c.entries = DOMAIN b.entries \cup {name}
           /\ c.entries[name] = File(bytes)
           /\ \A n \in DOMAIN b.entries : n # name => c.entries[n] = b.entries[n]
           /\ Filed(b) => Filed(c)
<1>1. /\ DOMAIN c.entries = DOMAIN b.entries \cup {name}
      /\ \A n \in DOMAIN c.entries : c.entries[n] = IF n = name THEN File(bytes) ELSE b.entries[n]
  BY DEF Put
<1>2. Filed(b) => Filed(c)
  BY <1>1, FileIs DEF Filed
<1> QED BY <1>1, <1>2

LEMMA WithoutIs ==
    ASSUME NEW b, NEW names, NEW c, c = Without(b, names)
    PROVE  /\ c.linked = b.linked
           /\ DOMAIN c.entries = DOMAIN b.entries \ names
           /\ \A n \in DOMAIN c.entries : c.entries[n] = b.entries[n]
           /\ Filed(b) => Filed(c)
<1>1. /\ c.linked = b.linked
      /\ DOMAIN c.entries = DOMAIN b.entries \ names
      /\ \A n \in DOMAIN c.entries : c.entries[n] = b.entries[n]
  BY DEF Without
<1> QED BY <1>1 DEF Filed

LEMMA MoveIs ==
    ASSUME NEW b, NEW from, NEW to, from # to, NEW c, c = Move(b, from, to)
    PROVE  /\ DOMAIN c.entries = (DOMAIN b.entries \cup {to}) \ {from}
           /\ c.entries[to] = File(b.entries[from].bytes)
           /\ \A n \in DOMAIN b.entries : n # to /\ n # from => c.entries[n] = b.entries[n]
           /\ Filed(b) => Filed(c)
<1> DEFINE d == Put(b, to, Bytes(b, from))
<1>1. c = Without(d, {from}) /\ Bytes(b, from) = b.entries[from].bytes
  BY DEF Move, Bytes
<1>2. /\ DOMAIN d.entries = DOMAIN b.entries \cup {to}
      /\ d.entries[to] = File(b.entries[from].bytes)
      /\ \A n \in DOMAIN b.entries : n # to => d.entries[n] = b.entries[n]
      /\ Filed(b) => Filed(d)
  BY <1>1, PutIs
<1> HIDE DEF d
<1>3. /\ DOMAIN c.entries = DOMAIN d.entries \ {from}
      /\ \A n \in DOMAIN c.entries : c.entries[n] = d.entries[n]
      /\ Filed(d) => Filed(c)
  BY <1>1, WithoutIs
<1> QED BY <1>2, <1>3

\* What the loader accepts, it accepts without what is staged or moved aside.
Loads(b) == LoadError(b, Required) = ""
LEMMA LoadIs ==
    \A b : Loads(b) <=>
        /\ ~b.linked /\ Has(b, Index) /\ Regular(b, Index) /\ Has(b, ManifestFile) /\ Regular(b, ManifestFile)
        /\ ManifestError(Bytes(b, ManifestFile)) = ""
        /\ Bytes(b, ManifestFile).index = Bytes(b, Index)
        /\ ~Unhashable(b)
        /\ Bytes(b, ManifestFile).content = ContentDigest(b)
BY DEF Loads, LoadError, DigestError, Required

Names == <<Index, ManifestFile, IndexStage, IndexBackup, ManifestStage, ManifestBackup>>
LEMMA NamesDiffer ==
    /\ Index # ManifestFile /\ Index \notin Ephemeral /\ ManifestFile \notin Ephemeral
    /\ \A i, j \in 1..6 : Names[i] = Names[j] => i = j
    /\ "unit.yaml" # Index /\ "unit.yaml" # ManifestFile /\ "unit.yaml" \notin Ephemeral
    /\ Ephemeral = {IndexStage, IndexBackup, ManifestStage, ManifestBackup}
BY DEF Names, Index, ManifestFile, Ephemeral, IndexStage, IndexBackup, ManifestStage, ManifestBackup

LEMMA LoadKeeps ==
    ASSUME NEW b, NEW c, c = Without(b, Ephemeral), Loads(b)
    PROVE  Loads(c)
<1>1. /\ c.linked = b.linked
      /\ DOMAIN c.entries = DOMAIN b.entries \ Ephemeral
      /\ \A n \in DOMAIN c.entries : c.entries[n] = b.entries[n]
  BY WithoutIs
<1>2. Index \notin Ephemeral /\ ManifestFile \notin Ephemeral
  BY NamesDiffer
<1>3. Has(b, Index) /\ Has(b, ManifestFile) /\ ~Unhashable(b)
  BY LoadIs
<1>4. Has(c, Index) /\ Has(c, ManifestFile) /\ c.entries[Index] = b.entries[Index] /\ c.entries[ManifestFile] = b.entries[ManifestFile]
  BY <1>1, <1>2, <1>3 DEF Has
<1>5. ~Unhashable(c)
  BY <1>1, <1>3 DEF Unhashable, Regular
<1>6. ContentDigest(c) = ContentDigest(b)
  <2>1. Hashed(c) = Hashed(b)
    BY <1>1 DEF Hashed
  <2>2. \A n \in Hashed(b) : Bytes(c, n) = Bytes(b, n)
    BY <1>1 DEF Hashed, Bytes
  <2> QED BY <2>1, <2>2 DEF ContentDigest
<1>7. Bytes(c, Index) = Bytes(b, Index) /\ Bytes(c, ManifestFile) = Bytes(b, ManifestFile)
  BY <1>4 DEF Bytes
<1>8. Regular(c, Index) /\ Regular(c, ManifestFile)
  BY <1>4, LoadIs DEF Regular
<1> QED BY <1>1, <1>4, <1>5, <1>6, <1>7, <1>8, LoadIs

-----------------------------------------------------------------------------
(* The invariant: where the old pair and the new one are at each step *)

\* What was called so at the start is in its place now.
Stands(b, o, name, place) ==
    /\ name \in DOMAIN o.before <=> Has(b, place)
    /\ Has(b, place) => b.entries[place] = o.before[name]
OldPair(b, o) == Stands(b, o, Index, Index) /\ Stands(b, o, ManifestFile, ManifestFile)
NewIndex(b, w, place) == Has(b, place) /\ b.entries[place] = File(BuildGlobalIndex(w.entries))
Knows(o) == o.oldIndex <=> Index \in DOMAIN o.before

Untouched(b, o) == OldPair(b, o) /\ ~Has(b, IndexBackup) /\ ~Has(b, ManifestBackup) /\ ~o.oldManifest
IndexStaged(b, o, w) == Untouched(b, o) /\ NewIndex(b, w, IndexStage)
IndexMoved(b, o, w) ==
    /\ Stands(b, o, Index, IndexBackup) /\ Stands(b, o, ManifestFile, ManifestFile) /\ ~Has(b, ManifestBackup)
    /\ ~o.oldManifest /\ NewIndex(b, w, IndexStage)
IndexWritten(b, o, w) ==
    /\ Stands(b, o, Index, IndexBackup) /\ Stands(b, o, ManifestFile, ManifestFile) /\ ~Has(b, ManifestBackup)
    /\ ~o.oldManifest /\ NewIndex(b, w, Index) /\ Knows(o)
ManifestMoved(b, o, w) ==
    /\ Stands(b, o, Index, IndexBackup) /\ Stands(b, o, ManifestFile, ManifestBackup)
    /\ (o.oldManifest => ManifestFile \in DOMAIN o.before) /\ NewIndex(b, w, Index) /\ Knows(o)
\* What is known to have been moved away is beside; where nothing is, no manifest will be left.
ManifestToUndo(b, o) ==
    o.oldManifest =>
        /\ Stands(b, o, Index, IndexBackup) /\ Stands(b, o, ManifestFile, ManifestBackup) /\ Knows(o)
        /\ ManifestFile \in DOMAIN o.before
IndexToUndo(b, o) ==
    /\ o.oldManifest <=> Has(b, ManifestFile)
    /\ Has(b, ManifestFile) => Stands(b, o, Index, IndexBackup) /\ Stands(b, o, ManifestFile, ManifestFile) /\ Knows(o)
\* Whatever was done so far, a file is the old one, the new one or missing; a new manifest is of the new index.
IsOld(b, o, name) == Has(b, name) => name \in DOMAIN o.before /\ b.entries[name] = o.before[name]
Fits(b, w, place) == Has(b, place) /\ Bytes(b, place).index = BuildGlobalIndex(w.entries)
Unmixed(b, o, w) ==
    /\ IsOld(b, o, Index) \/ NewIndex(b, w, Index)
    /\ IsOld(b, o, ManifestFile) \/ (Fits(b, w, ManifestFile) /\ NewIndex(b, w, Index))
\* Between two finalizations.
Rests(b, o, w) ==
    o.log # << >> =>
        /\ Last(o.log) = "written" => Loads(b) /\ NamesOnce(Bytes(b, Index), ToSet(IdsOf(w.entries)))
        /\ Last(o.log) = "refused" => OldPair(b, o)
        /\ Last(o.log) = "failed" => IF o.oldManifest THEN OldPair(b, o) ELSE ~Has(b, ManifestFile)
        /\ Last(o.log) \in {"stopped", "abandoned"} => Unmixed(b, o, w)

\* At the step `at` of the request w.
Law(at, b, o, w) ==
    /\ at = "idle" => Rests(b, o, w)
    /\ at = "stage index" => Untouched(b, o)
    /\ at = "index aside" => IndexStaged(b, o, w)
    /\ at = "index in" => IndexMoved(b, o, w)
    /\ at \in {"stage manifest", "manifest aside"} => IndexWritten(b, o, w)
    /\ at = "manifest in" => ManifestMoved(b, o, w) /\ ~o.oldManifest
    /\ at = "verify" => ManifestMoved(b, o, w)
    /\ at = "clean" => NewIndex(b, w, Index) /\ Loads(b)
    /\ at = "undo manifest" => ManifestToUndo(b, o)
    /\ at = "undo index" => IndexToUndo(b, o)

Endings == {"written", "failed", "refused", "abandoned", "stopped", "changed"}
Logged(o) == o.log \in Seq(Endings)
Posed(w) == w.entries \in Seq(ToSet(w.entries)) /\ IsInjective(IdsOf(w.entries)) /\ Ordered(NamesIn(w.entries)) /\ "index" \in DOMAIN w.manifest

FinalizerInv ==
    /\ Law(step, directory, outcome, wanted)
    /\ step # "idle" => Posed(wanted) /\ Unmixed(directory, outcome, wanted)
    /\ step \in {"manifest aside", "manifest in"} => Fits(directory, wanted, ManifestStage)
    /\ Filed(directory) /\ Logged(outcome)

-----------------------------------------------------------------------------
(* What a move does to it *)

\* Names other than that of the unit are as they were.
Alike(b, c) == \A n : n # "unit.yaml" => (Has(c, n) <=> Has(b, n)) /\ (Has(b, n) => c.entries[n] = b.entries[n])

LEMMA MoveAsideStands ==
    ASSUME NEW b, Filed(b), NEW c, NEW o, NEW name, NEW beside, name # beside, name # "unit.yaml",
           Stands(b, o, name, name), ~Has(b, beside),
           c = IF Has(b, name) THEN Move(b, name, beside) ELSE b
    PROVE  /\ Stands(c, o, name, beside) /\ Filed(c)
           /\ \A n : n # name /\ n # beside => (Has(c, n) <=> Has(b, n)) /\ (Has(b, n) => c.entries[n] = b.entries[n])
<1>1. CASE Has(b, name)
  <2>1. /\ DOMAIN c.entries = (DOMAIN b.entries \cup {beside}) \ {name}
        /\ c.entries[beside] = File(b.entries[name].bytes)
        /\ \A n \in DOMAIN b.entries : n # beside /\ n # name => c.entries[n] = b.entries[n]
        /\ Filed(c)
    BY <1>1, MoveIs
  <2>2. b.entries[name] = File(b.entries[name].bytes) /\ name \in DOMAIN b.entries
    BY <1>1 DEF Filed, Has
  <2> QED BY <2>1, <2>2 DEF Stands, Has
<1>2. CASE ~Has(b, name)
  BY <1>2 DEF Stands, Has
<1> QED BY <1>1, <1>2

LEMMA MoveBackStands ==
    ASSUME NEW b, Filed(b), NEW c, NEW o, NEW name, NEW beside, name # beside, beside # "unit.yaml",
           Stands(b, o, name, beside), Has(b, beside), c = Move(b, beside, name)
    PROVE  /\ Stands(c, o, name, name) /\ Filed(c)
           /\ \A n : n # name /\ n # beside => (Has(c, n) <=> Has(b, n)) /\ (Has(b, n) => c.entries[n] = b.entries[n])
<1>1. /\ DOMAIN c.entries = (DOMAIN b.entries \cup {name}) \ {beside}
      /\ c.entries[name] = File(b.entries[beside].bytes)
      /\ \A n \in DOMAIN b.entries : n # beside /\ n # name => c.entries[n] = b.entries[n]
      /\ Filed(c)
  BY MoveIs
<1>2. b.entries[beside] = File(b.entries[beside].bytes) /\ beside \in DOMAIN b.entries
  BY DEF Filed, Has
<1> QED BY <1>1, <1>2 DEF Stands, Has

-----------------------------------------------------------------------------
(* Each step, of the directory and the log it leads to *)

LEMMA StartLaw ==
    ASSUME NEW b, NEW c, NEW q, c = Without(b, Ephemeral), q.before = Pair(c), ~q.oldManifest
    PROVE  Untouched(c, q)
<1>1. ~Has(c, IndexBackup) /\ ~Has(c, ManifestBackup)
  BY WithoutIs, NamesDiffer DEF Has
<1>2. OldPair(c, q)
  BY DEF OldPair, Stands, Pair, Has
<1> QED BY <1>1, <1>2 DEF Untouched

LEMMA StageIndexLaw ==
    ASSUME NEW b, Filed(b), NEW c, NEW o, NEW w, Untouched(b, o), c = Put(b, IndexStage, BuildGlobalIndex(w.entries))
    PROVE  IndexStaged(c, o, w) /\ Filed(c)
<1>1. /\ DOMAIN c.entries = DOMAIN b.entries \cup {IndexStage}
      /\ c.entries[IndexStage] = File(BuildGlobalIndex(w.entries))
      /\ \A n \in DOMAIN b.entries : n # IndexStage => c.entries[n] = b.entries[n]
      /\ Filed(c)
  BY PutIs
<1>2. NewIndex(c, w, IndexStage)
  BY <1>1 DEF NewIndex, Has
<1>3. Index # IndexStage /\ ManifestFile # IndexStage /\ IndexBackup # IndexStage /\ ManifestBackup # IndexStage
  BY DEF Index, ManifestFile, IndexStage, IndexBackup, ManifestBackup
<1>4. Untouched(c, o)
  BY <1>1, <1>3 DEF Untouched, OldPair, Stands, Has
<1> QED BY <1>1, <1>2, <1>4 DEF IndexStaged

LEMMA IndexAsideLaw ==
    ASSUME NEW b, Filed(b), NEW c, NEW o, NEW w, IndexStaged(b, o, w),
           c = IF Has(b, Index) THEN Move(b, Index, IndexBackup) ELSE b
    PROVE  IndexMoved(c, o, w) /\ Filed(c)
<1>1. /\ Stands(b, o, Index, Index) /\ Stands(b, o, ManifestFile, ManifestFile) /\ ~Has(b, IndexBackup)
      /\ ~Has(b, ManifestBackup) /\ ~o.oldManifest /\ NewIndex(b, w, IndexStage)
  BY DEF IndexStaged, Untouched, OldPair
<1>2. Index # IndexBackup /\ Index # "unit.yaml"
  BY DEF Index, IndexBackup
<1>3. /\ Stands(c, o, Index, IndexBackup) /\ Filed(c)
      /\ \A n : n # Index /\ n # IndexBackup => (Has(c, n) <=> Has(b, n)) /\ (Has(b, n) => c.entries[n] = b.entries[n])
  BY <1>1, <1>2, MoveAsideStands
<1>4. /\ ManifestFile # Index /\ ManifestFile # IndexBackup /\ ManifestBackup # Index /\ ManifestBackup # IndexBackup
      /\ IndexStage # Index /\ IndexStage # IndexBackup
  BY DEF Index, ManifestFile, IndexStage, IndexBackup, ManifestBackup
<1>5. Stands(c, o, ManifestFile, ManifestFile) /\ ~Has(c, ManifestBackup) /\ NewIndex(c, w, IndexStage)
  BY <1>1, <1>3, <1>4 DEF Stands, NewIndex
<1> QED BY <1>1, <1>3, <1>5 DEF IndexMoved

LEMMA IndexInLaw ==
    ASSUME NEW b, Filed(b), NEW c, NEW o, NEW q, NEW w, IndexMoved(b, o, w), c = Move(b, IndexStage, Index),
           q.before = o.before, q.oldManifest = o.oldManifest, q.oldIndex = Has(b, IndexBackup)
    PROVE  IndexWritten(c, q, w) /\ Filed(c)
<1>1. /\ Stands(b, o, Index, IndexBackup) /\ Stands(b, o, ManifestFile, ManifestFile)
      /\ ~Has(b, ManifestBackup) /\ ~o.oldManifest /\ NewIndex(b, w, IndexStage)
  BY DEF IndexMoved
<1>2. IndexStage # Index
  BY DEF Index, IndexStage
<1>3. /\ DOMAIN c.entries = (DOMAIN b.entries \cup {Index}) \ {IndexStage}
      /\ c.entries[Index] = File(b.entries[IndexStage].bytes)
      /\ \A n \in DOMAIN b.entries : n # Index /\ n # IndexStage => c.entries[n] = b.entries[n]
      /\ Filed(c)
  BY <1>2, MoveIs
<1>4. NewIndex(c, w, Index)
  BY <1>1, <1>2, <1>3, FileIs DEF NewIndex, Has
<1>5. /\ IndexBackup # Index /\ IndexBackup # IndexStage /\ ManifestFile # Index /\ ManifestFile # IndexStage
      /\ ManifestBackup # Index /\ ManifestBackup # IndexStage
  BY DEF Index, ManifestFile, IndexStage, IndexBackup, ManifestBackup
<1>6. Stands(c, q, Index, IndexBackup) /\ Stands(c, q, ManifestFile, ManifestFile) /\ ~Has(c, ManifestBackup)
  BY <1>1, <1>3, <1>5 DEF Stands, Has
<1>7. Knows(q) /\ ~q.oldManifest
  BY <1>1 DEF Knows, Stands
<1> QED BY <1>3, <1>4, <1>6, <1>7 DEF IndexWritten

LEMMA StageManifestLaw ==
    ASSUME NEW b, Filed(b), NEW c, NEW o, NEW w, IndexWritten(b, o, w), NEW bytes, c = Put(b, ManifestStage, bytes)
    PROVE  IndexWritten(c, o, w) /\ Filed(c)
<1>1. /\ DOMAIN c.entries = DOMAIN b.entries \cup {ManifestStage}
      /\ \A n \in DOMAIN b.entries : n # ManifestStage => c.entries[n] = b.entries[n]
      /\ Filed(c)
  BY PutIs
<1>2. /\ Index # ManifestStage /\ ManifestFile # ManifestStage /\ IndexBackup # ManifestStage
      /\ ManifestBackup # ManifestStage
  BY DEF Index, ManifestFile, ManifestStage, IndexBackup, ManifestBackup
<1> QED BY <1>1, <1>2 DEF IndexWritten, Stands, NewIndex, Has

LEMMA ManifestAsideLaw ==
    ASSUME NEW b, Filed(b), NEW c, NEW o, NEW w, IndexWritten(b, o, w),
           c = IF Has(b, ManifestFile) THEN Move(b, ManifestFile, ManifestBackup) ELSE b
    PROVE  ManifestMoved(c, o, w) /\ ~o.oldManifest /\ Filed(c)
<1>1. /\ Stands(b, o, Index, IndexBackup) /\ Stands(b, o, ManifestFile, ManifestFile) /\ ~Has(b, ManifestBackup)
      /\ ~o.oldManifest /\ NewIndex(b, w, Index) /\ Knows(o)
  BY DEF IndexWritten
<1>2. ManifestFile # ManifestBackup /\ ManifestFile # "unit.yaml"
  BY DEF ManifestFile, ManifestBackup
<1>3. /\ Stands(c, o, ManifestFile, ManifestBackup) /\ Filed(c)
      /\ \A n : n # ManifestFile /\ n # ManifestBackup =>
            (Has(c, n) <=> Has(b, n)) /\ (Has(b, n) => c.entries[n] = b.entries[n])
  BY <1>1, <1>2, MoveAsideStands
<1>4. Index # ManifestFile /\ Index # ManifestBackup /\ IndexBackup # ManifestFile /\ IndexBackup # ManifestBackup
  BY DEF Index, ManifestFile, IndexBackup, ManifestBackup
<1>5. Stands(c, o, Index, IndexBackup) /\ NewIndex(c, w, Index)
  BY <1>1, <1>3, <1>4 DEF Stands, NewIndex
<1> QED BY <1>1, <1>3, <1>5 DEF ManifestMoved

LEMMA ManifestInLaw ==
    ASSUME NEW b, Filed(b), NEW c, NEW o, NEW q, NEW w, ManifestMoved(b, o, w), c = Move(b, ManifestStage, ManifestFile),
           q.before = o.before, q.oldIndex = o.oldIndex, q.oldManifest = Has(b, ManifestBackup)
    PROVE  ManifestMoved(c, q, w) /\ Filed(c)
<1>1. /\ Stands(b, o, Index, IndexBackup) /\ Stands(b, o, ManifestFile, ManifestBackup)
      /\ NewIndex(b, w, Index) /\ Knows(o)
  BY DEF ManifestMoved
<1>2. ManifestStage # ManifestFile
  BY DEF ManifestStage, ManifestFile
<1>3. /\ DOMAIN c.entries = (DOMAIN b.entries \cup {ManifestFile}) \ {ManifestStage}
      /\ \A n \in DOMAIN b.entries : n # ManifestFile /\ n # ManifestStage => c.entries[n] = b.entries[n]
      /\ Filed(c)
  BY <1>2, MoveIs
<1>4. /\ Index # ManifestFile /\ Index # ManifestStage /\ IndexBackup # ManifestFile /\ IndexBackup # ManifestStage
      /\ ManifestBackup # ManifestFile /\ ManifestBackup # ManifestStage
  BY DEF Index, ManifestFile, ManifestStage, IndexBackup, ManifestBackup
<1>5. Stands(c, q, Index, IndexBackup) /\ Stands(c, q, ManifestFile, ManifestBackup) /\ NewIndex(c, w, Index)
  BY <1>1, <1>3, <1>4 DEF Stands, NewIndex, Has
<1>6. Knows(q) /\ (q.oldManifest => ManifestFile \in DOMAIN q.before)
  BY <1>1 DEF Knows, Stands
<1> QED BY <1>3, <1>5, <1>6 DEF ManifestMoved

LEMMA CleanLaw ==
    ASSUME NEW b, Filed(b), NEW c, NEW q, NEW w, NewIndex(b, w, Index), Loads(b), Posed(w),
           c = Without(b, Ephemeral) \/ c = b
    PROVE  Loads(c) /\ NamesOnce(Bytes(c, Index), ToSet(IdsOf(w.entries))) /\ Filed(c)
<1>1. Loads(c) /\ Filed(c)
  BY LoadKeeps, WithoutIs
<1>2. c.entries[Index] = b.entries[Index]
  <2>1. CASE c = Without(b, Ephemeral)
    <3>1. Index \in DOMAIN c.entries /\ \A n \in DOMAIN c.entries : c.entries[n] = b.entries[n]
      BY <2>1, WithoutIs, NamesDiffer DEF NewIndex, Has
    <3> QED BY <3>1
  <2> QED BY <2>1
<1>3. Bytes(c, Index) = BuildGlobalIndex(w.entries)
  BY <1>2, FileIs DEF NewIndex, Bytes
<1>4. NamesOnce(BuildGlobalIndex(w.entries), ToSet(IdsOf(w.entries)))
  BY IndexNamesOnce DEF Posed
<1> QED BY <1>1, <1>3, <1>4

LEMMA RestoreManifestLaw ==
    ASSUME NEW b, Filed(b), NEW c, NEW o, ManifestToUndo(b, o), c = Restored(b, ManifestFile, ManifestBackup, o.oldManifest)
    PROVE  IndexToUndo(c, o) /\ Filed(c)
<1>1. CASE ~o.oldManifest
  <2>1. c = Without(b, {ManifestFile})
    BY <1>1 DEF Restored
  <2>2. ~Has(c, ManifestFile) /\ Filed(c)
    BY <2>1, WithoutIs DEF Has
  <2> QED BY <1>1, <2>2 DEF IndexToUndo
<1>2. CASE o.oldManifest
  <2>1. /\ Stands(b, o, Index, IndexBackup) /\ Stands(b, o, ManifestFile, ManifestBackup) /\ Knows(o)
        /\ Has(b, ManifestBackup)
    BY <1>2 DEF ManifestToUndo, Stands
  <2>2. c = Move(b, ManifestBackup, ManifestFile)
    BY <1>2, <2>1 DEF Restored
  <2>3. ManifestFile # ManifestBackup /\ ManifestBackup # "unit.yaml"
    BY DEF ManifestFile, ManifestBackup
  <2>4. /\ Stands(c, o, ManifestFile, ManifestFile) /\ Filed(c)
        /\ \A n : n # ManifestFile /\ n # ManifestBackup =>
              (Has(c, n) <=> Has(b, n)) /\ (Has(b, n) => c.entries[n] = b.entries[n])
    BY <2>1, <2>2, <2>3, MoveBackStands
  <2>5. IndexBackup # ManifestFile /\ IndexBackup # ManifestBackup
    BY DEF ManifestFile, IndexBackup, ManifestBackup
  <2>6. Stands(c, o, Index, IndexBackup)
    BY <2>1, <2>4, <2>5 DEF Stands
  <2>7. Has(c, ManifestFile)
    BY <2>1, <2>4 DEF Stands
  <2> QED BY <1>2, <2>1, <2>4, <2>6, <2>7 DEF IndexToUndo
<1> QED BY <1>1, <1>2

LEMMA RestoreIndexLaw ==
    ASSUME NEW b, Filed(b), NEW c, NEW d, NEW o, NEW q, q.before = o.before, IndexToUndo(b, o),
           d = Restored(b, Index, IndexBackup, o.oldIndex), c = Without(d, Ephemeral)
    PROVE  (IF o.oldManifest THEN OldPair(c, q) ELSE ~Has(c, ManifestFile)) /\ Filed(c)
<1>1. /\ Index # IndexBackup /\ IndexBackup # "unit.yaml" /\ ManifestFile # Index /\ ManifestFile # IndexBackup
      /\ Index \notin Ephemeral /\ ManifestFile \notin Ephemeral
  BY DEF Index, ManifestFile, IndexBackup, IndexStage, ManifestStage, ManifestBackup, Ephemeral
<1>2. Filed(d) /\ (Has(d, ManifestFile) <=> Has(b, ManifestFile))
      /\ (Has(b, ManifestFile) => d.entries[ManifestFile] = b.entries[ManifestFile])
  <2>1. CASE d = Without(b, {Index})
    BY <1>1, <2>1, WithoutIs DEF Has
  <2>2. CASE d = Move(b, IndexBackup, Index)
    BY <1>1, <2>2, MoveIs DEF Has
  <2>3. CASE d = b
    BY <2>3
  <2> QED BY <2>1, <2>2, <2>3 DEF Restored
<1>3. /\ DOMAIN c.entries = DOMAIN d.entries \ Ephemeral
      /\ \A n \in DOMAIN c.entries : c.entries[n] = d.entries[n]
      /\ Filed(c)
  BY <1>2, WithoutIs
<1>4. ASSUME Has(c, ManifestFile) PROVE OldPair(c, q)
  <2>1. Stands(b, o, Index, IndexBackup) /\ Stands(b, o, ManifestFile, ManifestFile) /\ Knows(o)
    BY <1>2, <1>3, <1>4 DEF IndexToUndo, Has
  <2>2. Stands(d, o, Index, Index)
    <3>1. CASE ~o.oldIndex
      <4>1. d = Without(b, {Index}) /\ Index \notin DOMAIN o.before
        BY <2>1, <3>1 DEF Restored, Knows
      <4>2. Index \notin DOMAIN d.entries
        BY <4>1, WithoutIs
      <4> QED BY <4>1, <4>2 DEF Stands, Has
    <3>2. CASE o.oldIndex
      <4>1. Has(b, IndexBackup)
        BY <2>1, <3>2 DEF Knows, Stands
      <4>2. d = Move(b, IndexBackup, Index)
        BY <3>2, <4>1 DEF Restored
      <4> QED BY <1>1, <2>1, <4>1, <4>2, MoveBackStands
    <3> QED BY <3>1, <3>2
  <2>3. Stands(d, o, ManifestFile, ManifestFile)
    BY <1>2, <2>1 DEF Stands
  <2>4. \A n : n \notin Ephemeral => (Has(c, n) <=> Has(d, n)) /\ (Has(c, n) => c.entries[n] = d.entries[n])
    BY <1>3 DEF Has
  <2> QED BY <1>1, <2>2, <2>3, <2>4 DEF OldPair, Stands
<1>5. Has(c, ManifestFile) <=> o.oldManifest
  BY <1>1, <1>2, <1>3 DEF IndexToUndo, Has
<1> QED BY <1>3, <1>4, <1>5

LEMMA WriteUnitLaw ==
    ASSUME NEW b, Filed(b), NEW c, Alike(b, c), NEW at, at # "clean", at # "idle", NEW o, NEW w, Law(at, b, o, w)
    PROVE  Law(at, c, o, w)
<1>1. \A place \in {Index, ManifestFile, IndexStage, IndexBackup, ManifestStage, ManifestBackup} :
        (Has(c, place) <=> Has(b, place)) /\ (Has(b, place) => c.entries[place] = b.entries[place])
  BY DEF Alike, Index, ManifestFile, IndexStage, IndexBackup, ManifestStage, ManifestBackup
<1>2. \A name : \A place \in {Index, ManifestFile, IndexBackup, ManifestBackup} : Stands(c, o, name, place) <=> Stands(b, o, name, place)
  BY <1>1 DEF Stands
<1>3. \A place \in {Index, IndexStage} : NewIndex(b, w, place) => NewIndex(c, w, place)
  BY <1>1 DEF NewIndex
<1>4. Untouched(b, o) => Untouched(c, o)
  BY <1>1, <1>2 DEF Untouched, OldPair
<1>5. IndexStaged(b, o, w) => IndexStaged(c, o, w)
  BY <1>3, <1>4 DEF IndexStaged
<1>6. IndexMoved(b, o, w) => IndexMoved(c, o, w)
  BY <1>1, <1>2, <1>3 DEF IndexMoved
<1>7. IndexWritten(b, o, w) => IndexWritten(c, o, w)
  BY <1>1, <1>2, <1>3 DEF IndexWritten
<1>8. ManifestMoved(b, o, w) => ManifestMoved(c, o, w)
  BY <1>2, <1>3 DEF ManifestMoved
<1>9. ManifestToUndo(b, o) => ManifestToUndo(c, o)
  BY <1>2 DEF ManifestToUndo
<1>10. IndexToUndo(b, o) => IndexToUndo(c, o)
  BY <1>1, <1>2 DEF IndexToUndo
<1> QED BY <1>4, <1>5, <1>6, <1>7, <1>8, <1>9, <1>10 DEF Law

\* What leaves the index and the manifest alone leaves them unmixed, also if the manifest goes.
LEMMA UnmixedKeeps ==
    ASSUME NEW b, NEW c, NEW o, NEW q, NEW w, Unmixed(b, o, w), q.before = o.before,
           \A n \in {Index, ManifestFile} : (Has(c, n) <=> Has(b, n)) /\ (Has(b, n) => c.entries[n] = b.entries[n])
    PROVE  Unmixed(c, q, w)
<1>1. \A n \in {Index, ManifestFile} : IsOld(b, o, n) => IsOld(c, q, n)
  BY DEF IsOld
<1>2. NewIndex(b, w, Index) => NewIndex(c, w, Index)
  BY DEF NewIndex
<1>3. Fits(b, w, ManifestFile) => Fits(c, w, ManifestFile)
  BY DEF Fits, Bytes
<1> QED BY <1>1, <1>2, <1>3 DEF Unmixed
LEMMA UnmixedAside ==
    ASSUME NEW b, NEW c, c = Without(b, Ephemeral), NEW o, NEW q, q.before = o.before, NEW w, Unmixed(b, o, w)
    PROVE  Unmixed(c, q, w)
<1>1. \A n \in {Index, ManifestFile} : (Has(c, n) <=> Has(b, n)) /\ (Has(b, n) => c.entries[n] = b.entries[n])
  BY WithoutIs, NamesDiffer DEF Has
<1> QED BY <1>1, UnmixedKeeps
LEMMA OldIsUnmixed ==
    ASSUME NEW b, NEW o, NEW w, Stands(b, o, ManifestFile, ManifestFile) \/ ~Has(b, ManifestFile),
           Stands(b, o, Index, Index) \/ ~Has(b, Index) \/ NewIndex(b, w, Index)
    PROVE  Unmixed(b, o, w)
BY DEF Unmixed, IsOld, Stands
LEMMA HalfRestoredIs ==
    ASSUME FinalizerInv, step # "idle", NEW c \in HalfRestored
    PROVE  Unmixed(c, outcome, wanted) /\ Filed(c)
<1>1. PICK b, o, w : b = directory /\ o = outcome /\ w = wanted
  OBVIOUS
<1>2. Unmixed(b, o, w) /\ Filed(b) /\ Law(step, b, o, w)
  BY <1>1 DEF FinalizerInv
<1>3. CASE c = b
  BY <1>1, <1>2, <1>3
<1>4. CASE c = Without(b, {ManifestFile})
  <2>1. Filed(c) /\ ~Has(c, ManifestFile) /\ (Has(c, Index) <=> Has(b, Index)) /\ (Has(b, Index) => c.entries[Index] = b.entries[Index])
    BY <1>2, <1>4, WithoutIs, NamesDiffer DEF Has
  <2>2. IsOld(c, o, ManifestFile)
    BY <2>1 DEF IsOld
  <2>3. IsOld(c, o, Index) \/ NewIndex(c, w, Index)
    BY <1>2, <2>1 DEF Unmixed, IsOld, NewIndex
  <2> QED BY <1>1, <2>1, <2>2, <2>3 DEF Unmixed
<1>5. CASE c = Without(b, {Index}) /\ step = "undo index"
  <2>1. Filed(c) /\ ~Has(c, Index) /\ (Has(c, ManifestFile) <=> Has(b, ManifestFile))
        /\ (Has(b, ManifestFile) => c.entries[ManifestFile] = b.entries[ManifestFile])
    <3>1. c = Without(b, {Index}) /\ Index # ManifestFile /\ Filed(b)
      BY <1>2, <1>5, NamesDiffer
    <3>2. /\ DOMAIN c.entries = DOMAIN b.entries \ {Index} /\ Filed(c)
          /\ \A n \in DOMAIN c.entries : c.entries[n] = b.entries[n]
      BY <3>1, WithoutIs
    <3> QED BY <3>1, <3>2 DEF Has
  <2>2. Has(b, ManifestFile) => Stands(b, o, ManifestFile, ManifestFile)
    BY <1>2, <1>5 DEF Law, IndexToUndo
  <2>3. Stands(c, o, ManifestFile, ManifestFile) \/ ~Has(c, ManifestFile)
    BY <2>1, <2>2 DEF Stands
  <2> QED BY <1>1, <2>1, <2>3, OldIsUnmixed
<1> QED BY <1>1, <1>3, <1>4, <1>5 DEF HalfRestored

-----------------------------------------------------------------------------
(* Each step, of the specification *)

LEMMA LawAt ==
    \A b, o, w :
        /\ Law("idle", b, o, w) <=> Rests(b, o, w)
        /\ Law("stage index", b, o, w) <=> Untouched(b, o)
        /\ Law("index aside", b, o, w) <=> IndexStaged(b, o, w)
        /\ Law("index in", b, o, w) <=> IndexMoved(b, o, w)
        /\ Law("stage manifest", b, o, w) <=> IndexWritten(b, o, w)
        /\ Law("manifest aside", b, o, w) <=> IndexWritten(b, o, w)
        /\ Law("manifest in", b, o, w) <=> ManifestMoved(b, o, w) /\ ~o.oldManifest
        /\ Law("verify", b, o, w) <=> ManifestMoved(b, o, w)
        /\ Law("clean", b, o, w) <=> NewIndex(b, w, Index) /\ Loads(b)
        /\ Law("undo manifest", b, o, w) <=> ManifestToUndo(b, o)
        /\ Law("undo index", b, o, w) <=> IndexToUndo(b, o)
BY DEF Law

LEMMA OutcomeIs ==
    ASSUME NEW log, NEW before, NEW oldIndex, NEW oldManifest, NEW q, q = Outcome(log, before, oldIndex, oldManifest)
    PROVE  /\ q.log = log /\ q.before = before /\ q.oldIndex = oldIndex /\ q.oldManifest = oldManifest
           /\ log \in Seq(Endings) => Logged(q)
<1>1. q.log = log /\ q.before = before /\ q.oldIndex = oldIndex /\ q.oldManifest = oldManifest
  BY DEF Outcome
<1> QED BY <1>1 DEF Logged

EndsAs(q, o, how) == q = Outcome(Append(o.log, how), o.before, o.oldIndex, o.oldManifest)
LEMMA EndIs ==
    ASSUME NEW o, Logged(o), NEW how \in Endings, NEW q, EndsAs(q, o, how)
    PROVE  /\ Logged(q) /\ Last(q.log) = how
           /\ q.before = o.before /\ q.oldIndex = o.oldIndex /\ q.oldManifest = o.oldManifest
<1>1. PICK l \in Seq(Endings) : l = o.log
  BY DEF Logged
<1>2. PICK m \in Seq(Endings) : m = Append(l, how) /\ m[Len(m)] = how
  <2>1. Append(l, how) \in Seq(Endings) /\ Append(l, how)[Len(Append(l, how))] = how
    OBVIOUS
  <2> QED BY <2>1
<1>3. q = Outcome(m, o.before, o.oldIndex, o.oldManifest)
  BY <1>1, <1>2 DEF EndsAs
<1>4. q.log = m /\ q.before = o.before /\ q.oldIndex = o.oldIndex /\ q.oldManifest = o.oldManifest /\ Logged(q)
  BY <1>3, OutcomeIs
<1> QED BY <1>2, <1>4 DEF Last

\* One that ended otherwise than well or undone leaves the two unmixed, unless somebody wrote a unit at rest.
Unkept == {"abandoned", "stopped", "changed"}
LEMMA UnkeptEnds ==
    ASSUME NEW o, Logged(o), NEW how \in Unkept, NEW q, EndsAs(q, o, how), NEW b, NEW w, how # "changed" => Unmixed(b, q, w)
    PROVE  Logged(q) /\ Law("idle", b, q, w)
<1>1. how \in Endings /\ how # "written" /\ how # "failed" /\ how # "refused"
  BY DEF Unkept, Endings
<1>2. Logged(q) /\ Last(q.log) = how
  BY <1>1, EndIs
<1>3. how \in {"stopped", "abandoned"} => how # "changed"
  OBVIOUS
<1>4. Rests(b, q, w)
  BY <1>1, <1>2, <1>3 DEF Rests
<1> QED BY <1>2, <1>4, LawAt
LEMMA EndKeeps ==
    ASSUME Logged(outcome), Filed(directory'), NEW how \in Unkept, Ends(how), how # "changed" => Unmixed(directory', outcome', wanted')
    PROVE  FinalizerInv'
<1>1. EndsAs(outcome', outcome, how) /\ step' = "idle"
  BY DEF Ends, EndsAs
<1>2. PICK o, q, d, w : o = outcome /\ q = outcome' /\ d = directory' /\ w = wanted'
  OBVIOUS
<1>3. Logged(o) /\ EndsAs(q, o, how) /\ (how # "changed" => Unmixed(d, q, w))
  BY <1>1, <1>2
<1>4. Logged(q) /\ Law("idle", d, q, w)
  <2>1. Logged(o) /\ EndsAs(q, o, how) /\ how \in Unkept /\ (how # "changed" => Unmixed(d, q, w))
    BY <1>3
  <2> QED BY <2>1, UnkeptEnds
<1> QED BY <1>1, <1>2, <1>4 DEF FinalizerInv
LEMMA EndBefore == Ends("stopped") \/ Ends("abandoned") => outcome'.before = outcome.before
BY DEF Ends, Outcome

LEMMA Known ==
    ASSUME FinalizerInv
    PROVE  /\ Law(step, directory, outcome, wanted) /\ Filed(directory) /\ Logged(outcome)
           /\ step # "idle" => Posed(wanted) /\ Unmixed(directory, outcome, wanted)
           /\ step \in {"manifest aside", "manifest in"} => Fits(directory, wanted, ManifestStage)
BY DEF FinalizerInv

\* A step that leaves the request alone, and its log but for what it knows of the old pair.
LEMMA StepKeeps ==
    ASSUME FinalizerInv, UNCHANGED wanted, step # "idle", NEW at, step' = at, Law(at, directory', outcome', wanted),
           Filed(directory'), Logged(outcome'), Unmixed(directory', outcome', wanted),
           at \in {"manifest aside", "manifest in"} => Fits(directory', wanted, ManifestStage)
    PROVE  FinalizerInv'
BY DEF FinalizerInv

LEMMA FinalizeKeeps == ASSUME WellAsked, FinalizerInv, Finalize PROVE FinalizerInv'
<1>1. PICK b, c, o, q, w : b = directory /\ c = directory' /\ o = outcome /\ q = outcome' /\ w = wanted'
  OBVIOUS
<1>2. Filed(b) /\ Logged(o) /\ w \in Finalizations
  BY <1>1, Known DEF Finalize
<1>3. CASE TurnedAway /\ c \in {b, Without(b, Ephemeral)}
  <2>1. Filed(c)
    BY <1>2, <1>3, WithoutIs
  <2>2. q = Outcome(Append(o.log, "refused"), Pair(b), FALSE, FALSE) /\ step' = "idle"
    BY <1>1, <1>3 DEF TurnedAway
  <2>3. Logged(q) /\ Last(q.log) = "refused" /\ q.before = Pair(b)
    <3>1. PICK p, f : p = Pair(b) /\ f = FALSE /\ q = Outcome(Append(o.log, "refused"), p, f, f)
      BY <2>2
    <3>2. PICK l : l = o.log /\ l \in Seq(Endings)
      BY <1>2 DEF Logged
    <3>3. PICK m \in Seq(Endings) : m = Append(l, "refused") /\ m[Len(m)] = "refused"
      <4>1. "refused" \in Endings
        BY DEF Endings
      <4>2. Append(l, "refused") \in Seq(Endings) /\ Append(l, "refused")[Len(Append(l, "refused"))] = "refused"
        BY <3>2, <4>1
      <4> QED BY <4>2
    <3>4. q = Outcome(m, p, f, f)
      BY <3>1, <3>2, <3>3
    <3>5. q.log = m /\ q.before = p
      BY <3>4, OutcomeIs
    <3> QED BY <3>1, <3>3, <3>5 DEF Last, Logged
  <2>4. OldPair(c, q)
    <3>1. \A n \in {Index, ManifestFile} : (Has(c, n) <=> Has(b, n)) /\ (Has(b, n) => c.entries[n] = b.entries[n])
      BY <1>3, WithoutIs, NamesDiffer DEF Has
    <3> QED BY <2>3, <3>1 DEF OldPair, Stands, Pair, Has
  <2>5. Law("idle", c, q, w)
    <3>1. Rests(c, q, w)
      BY <2>3, <2>4 DEF Rests
    <3> QED BY <3>1, LawAt
  <2> QED BY <1>1, <2>1, <2>2, <2>3, <2>5 DEF FinalizerInv
<1>4. CASE /\ step' = "stage index" /\ ~Refuses(w) /\ c = Without(b, Ephemeral)
           /\ q = Outcome(o.log, Pair(c), FALSE, FALSE)
  <2>1. Posed(w)
    BY <1>2, <1>4 DEF WellAsked, Posed, Refuses
  <2>2. Filed(c) /\ Logged(q) /\ Untouched(c, q)
    <3>1. c = Without(b, Ephemeral) /\ q = Outcome(o.log, Pair(c), FALSE, FALSE) /\ o.log \in Seq(Endings) /\ Filed(b)
      BY <1>2, <1>4 DEF Logged
    <3>2. Logged(q) /\ q.before = Pair(c) /\ ~q.oldManifest
      <4>1. PICK l, p, f : l \in Seq(Endings) /\ p = Pair(c) /\ f = FALSE /\ q = Outcome(l, p, f, f)
        BY <3>1
      <4>2. q.log = l /\ q.before = p /\ q.oldManifest = f
        BY <4>1, OutcomeIs
      <4> QED BY <4>1, <4>2 DEF Logged
    <3>3. Untouched(c, q)
      BY <3>1, <3>2, StartLaw
    <3>4. Filed(c)
      BY <3>1, WithoutIs
    <3> QED BY <3>2, <3>3, <3>4
  <2>3. Law("stage index", c, q, w)
    BY <2>2, LawAt
  <2>4. Unmixed(c, q, w)
    BY <2>2, OldIsUnmixed DEF Untouched, OldPair
  <2> QED BY <1>1, <1>4, <2>1, <2>2, <2>3, <2>4 DEF FinalizerInv
<1> QED BY <1>1, <1>3, <1>4 DEF Finalize, Started

LEMMA StageIndexKeeps == ASSUME FinalizerInv, StageIndex PROVE FinalizerInv'
<1>1. PICK b, c, o, w : b = directory /\ c = directory' /\ o = outcome /\ w = wanted
  OBVIOUS
<1>2. step = "stage index" /\ step' = "index aside" /\ wanted' = w /\ outcome' = o
  BY <1>1 DEF StageIndex, Now, Goes
<1>3. Law("stage index", b, o, w) /\ Filed(b) /\ Logged(o)
  BY <1>1, <1>2, Known
<1>4. c = Put(b, IndexStage, BuildGlobalIndex(w.entries))
  BY <1>1 DEF StageIndex
<1>5. IndexStaged(c, o, w) /\ Filed(c)
  <2>1. Untouched(b, o) /\ Filed(b)
    BY <1>3, LawAt
  <2> QED BY <1>4, <2>1, StageIndexLaw
<1>6. Law("index aside", c, o, w)
  BY <1>5, LawAt
<1>7. Unmixed(c, o, w)
  BY <1>5, OldIsUnmixed DEF IndexStaged, Untouched, OldPair
<1> QED BY <1>1, <1>2, <1>3, <1>5, <1>6, <1>7, StepKeeps

LEMMA IndexAsideKeeps == ASSUME FinalizerInv, IndexAside PROVE FinalizerInv'
<1>1. PICK b, c, o, w : b = directory /\ c = directory' /\ o = outcome /\ w = wanted
  OBVIOUS
<1>2. step = "index aside" /\ step' = "index in" /\ wanted' = w /\ outcome' = o
  BY <1>1 DEF IndexAside, Now, Goes
<1>3. Law("index aside", b, o, w) /\ Filed(b) /\ Logged(o)
  BY <1>1, <1>2, Known
<1>4. c = IF Has(b, Index) THEN Move(b, Index, IndexBackup) ELSE b
  BY <1>1 DEF IndexAside
<1>5. IndexMoved(c, o, w) /\ Filed(c)
  <2>1. IndexStaged(b, o, w) /\ Filed(b)
    BY <1>3, LawAt
  <2> QED BY <1>4, <2>1, IndexAsideLaw
<1>6. Law("index in", c, o, w)
  BY <1>5, LawAt
<1>7. ~Has(c, Index)
  <2>1. CASE Has(b, Index)
    <3>1. Index # IndexBackup /\ c = Move(b, Index, IndexBackup)
      BY <1>4, <2>1 DEF Index, IndexBackup
    <3> QED BY <3>1, MoveIs DEF Has
  <2> QED BY <1>4, <2>1
<1>8. Unmixed(c, o, w)
  BY <1>5, <1>7, OldIsUnmixed DEF IndexMoved
<1> QED BY <1>1, <1>2, <1>3, <1>5, <1>6, <1>8, StepKeeps

LEMMA ManifestAsideKeeps == ASSUME FinalizerInv, ManifestAside PROVE FinalizerInv'
<1>1. PICK b, c, o, w : b = directory /\ c = directory' /\ o = outcome /\ w = wanted
  OBVIOUS
<1>2. step = "manifest aside" /\ step' = "manifest in" /\ wanted' = w /\ outcome' = o
  BY <1>1 DEF ManifestAside, Now, Goes
<1>3. Law("manifest aside", b, o, w) /\ Filed(b) /\ Logged(o)
  BY <1>1, <1>2, Known
<1>4. c = IF Has(b, ManifestFile) THEN Move(b, ManifestFile, ManifestBackup) ELSE b
  BY <1>1 DEF ManifestAside
<1>5. ManifestMoved(c, o, w) /\ ~o.oldManifest /\ Filed(c)
  <2>1. IndexWritten(b, o, w) /\ Filed(b)
    BY <1>3, LawAt
  <2> QED BY <1>4, <2>1, ManifestAsideLaw
<1>6. Law("manifest in", c, o, w)
  BY <1>5, LawAt
<1>7. ~Has(c, ManifestFile) /\ Fits(c, w, ManifestStage)
  <2>1. ManifestFile # ManifestBackup /\ ManifestStage # ManifestFile /\ ManifestStage # ManifestBackup
    BY DEF ManifestFile, ManifestBackup, ManifestStage
  <2>2. Fits(b, w, ManifestStage)
    BY <1>1, <1>2, Known
  <2>3. CASE Has(b, ManifestFile)
    BY <1>4, <2>1, <2>2, <2>3, MoveIs DEF Has, Fits, Bytes
  <2> QED BY <1>4, <2>2, <2>3
<1>8. Unmixed(c, o, w)
  BY <1>5, <1>7, OldIsUnmixed DEF ManifestMoved
<1> QED BY <1>1, <1>2, <1>3, <1>5, <1>6, <1>7, <1>8, StepKeeps

LEMMA RestoreManifestKeeps == ASSUME FinalizerInv, RestoreManifest PROVE FinalizerInv'
<1>1. PICK b, c, o, w : b = directory /\ c = directory' /\ o = outcome /\ w = wanted
  OBVIOUS
<1>2. step = "undo manifest" /\ step' = "undo index" /\ wanted' = w /\ outcome' = o
  BY <1>1 DEF RestoreManifest, Now, Goes
<1>3. Law("undo manifest", b, o, w) /\ Filed(b) /\ Logged(o)
  BY <1>1, <1>2, Known
<1>4. c = Restored(b, ManifestFile, ManifestBackup, o.oldManifest)
  BY <1>1 DEF RestoreManifest
<1>5. IndexToUndo(c, o) /\ Filed(c)
  <2>1. ManifestToUndo(b, o) /\ Filed(b)
    BY <1>3, LawAt
  <2> QED BY <1>4, <2>1, RestoreManifestLaw
<1>6. Law("undo index", c, o, w)
  BY <1>5, LawAt
<1>7. (Has(c, Index) <=> Has(b, Index)) /\ (Has(b, Index) => c.entries[Index] = b.entries[Index])
  <2>1. Index # ManifestFile /\ Index # ManifestBackup /\ ManifestBackup # ManifestFile
    BY DEF Index, ManifestFile, ManifestBackup
  <2>2. CASE c = Without(b, {ManifestFile})
    BY <2>1, <2>2, WithoutIs DEF Has
  <2>3. CASE c = Move(b, ManifestBackup, ManifestFile)
    BY <2>1, <2>3, MoveIs DEF Has
  <2> QED BY <1>4, <2>2, <2>3 DEF Restored
<1>8. Unmixed(c, o, w)
  <2>1. Unmixed(b, o, w)
    BY <1>1, <1>2, Known
  <2>2. IsOld(c, o, Index) \/ NewIndex(c, w, Index)
    BY <1>7, <2>1 DEF Unmixed, IsOld, NewIndex
  <2>3. IsOld(c, o, ManifestFile)
    BY <1>5 DEF IndexToUndo, IsOld, Stands
  <2> QED BY <2>2, <2>3 DEF Unmixed
<1> QED BY <1>1, <1>2, <1>3, <1>5, <1>6, <1>8, StepKeeps

LEMMA StageManifestKeeps == ASSUME FinalizerInv, StageManifest PROVE FinalizerInv'
<1>1. PICK b, c, o, w : b = directory /\ c = directory' /\ o = outcome /\ w = wanted
  OBVIOUS
<1>2. step = "stage manifest" /\ step' = "manifest aside" /\ wanted' = w /\ outcome' = o
  BY <1>1 DEF StageManifest, Now, Goes
<1>3. Law("stage manifest", b, o, w) /\ Filed(b) /\ Logged(o)
  BY <1>1, <1>2, Known
<1>4. PICK bytes : c = Put(b, ManifestStage, bytes) /\ bytes.index = Bytes(b, Index)
  <2>1. c = Put(b, ManifestStage, ManifestOf(b))
    BY <1>1 DEF StageManifest
  <2>2. "index" \in DOMAIN w.manifest
    BY <1>1, <1>2, Known DEF Posed
  <2>3. PICK m, x, y : m = w.manifest /\ x = ContentDigest(b) /\ y = Bytes(b, Index)
    OBVIOUS
  <2>4. ManifestOf(b) = [m EXCEPT !.content = x, !.index = y]
    BY <1>1, <2>3 DEF ManifestOf
  <2>5. [m EXCEPT !.content = x, !.index = y].index = y
    BY <2>2, <2>3
  <2>6. ManifestOf(b).index = Bytes(b, Index)
    BY <2>3, <2>4, <2>5
  <2> QED BY <2>1, <2>6
<1>5. IndexWritten(c, o, w) /\ Filed(c)
  <2>1. IndexWritten(b, o, w) /\ Filed(b)
    BY <1>3, LawAt
  <2> QED BY <1>4, <2>1, StageManifestLaw
<1>6. Law("manifest aside", c, o, w)
  BY <1>5, LawAt
<1>7. Fits(c, w, ManifestStage)
  <2>1. NewIndex(b, w, Index)
    BY <1>3, LawAt DEF IndexWritten
  <2>2. bytes.index = BuildGlobalIndex(w.entries)
    BY <1>4, <2>1, FileIs DEF NewIndex, Bytes
  <2>3. Has(c, ManifestStage) /\ Bytes(c, ManifestStage) = bytes
    BY <1>4, PutIs, FileIs DEF Has, Bytes
  <2> QED BY <2>2, <2>3 DEF Fits
<1>8. Unmixed(c, o, w)
  BY <1>5, OldIsUnmixed DEF IndexWritten
<1> QED BY <1>1, <1>2, <1>3, <1>5, <1>6, <1>7, <1>8, StepKeeps

LEMMA IndexInKeeps == ASSUME FinalizerInv, IndexIn PROVE FinalizerInv'
<1>1. PICK b, c, o, q, w : b = directory /\ c = directory' /\ o = outcome /\ q = outcome' /\ w = wanted
  OBVIOUS
<1>2. step = "index in" /\ step' = "stage manifest" /\ wanted' = w
  BY <1>1 DEF IndexIn, Now
<1>3. Law("index in", b, o, w) /\ Filed(b) /\ Logged(o)
  BY <1>1, <1>2, Known
<1>4. c = Move(b, IndexStage, Index) /\ q = Outcome(o.log, o.before, Has(b, IndexBackup), o.oldManifest)
  BY <1>1 DEF IndexIn
<1>5. Logged(q) /\ q.before = o.before /\ q.oldManifest = o.oldManifest /\ q.oldIndex = Has(b, IndexBackup)
  <2>1. PICK l, f : l \in Seq(Endings) /\ f = Has(b, IndexBackup) /\ q = Outcome(l, o.before, f, o.oldManifest)
    BY <1>3, <1>4 DEF Logged
  <2>2. q.log = l /\ q.before = o.before /\ q.oldManifest = o.oldManifest /\ q.oldIndex = f
    BY <2>1, OutcomeIs
  <2> QED BY <2>1, <2>2 DEF Logged
<1>6. IndexWritten(c, q, w) /\ Filed(c)
  <2>1. IndexMoved(b, o, w) /\ Filed(b) /\ c = Move(b, IndexStage, Index)
    BY <1>3, <1>4, LawAt
  <2> QED BY <1>5, <2>1, IndexInLaw
<1>7. Law("stage manifest", c, q, w)
  BY <1>6, LawAt
<1>8. Unmixed(c, q, w)
  BY <1>6, OldIsUnmixed DEF IndexWritten
<1> QED BY <1>1, <1>2, <1>5, <1>6, <1>7, <1>8, StepKeeps

LEMMA ManifestInKeeps == ASSUME FinalizerInv, ManifestIn PROVE FinalizerInv'
<1>1. PICK b, c, o, q, w : b = directory /\ c = directory' /\ o = outcome /\ q = outcome' /\ w = wanted
  OBVIOUS
<1>2. step = "manifest in" /\ step' = "verify" /\ wanted' = w
  BY <1>1 DEF ManifestIn, Now
<1>3. Law("manifest in", b, o, w) /\ Filed(b) /\ Logged(o)
  BY <1>1, <1>2, Known
<1>4. c = Move(b, ManifestStage, ManifestFile) /\ q = Outcome(o.log, o.before, o.oldIndex, Has(b, ManifestBackup))
  BY <1>1 DEF ManifestIn
<1>5. Logged(q) /\ q.before = o.before /\ q.oldIndex = o.oldIndex /\ q.oldManifest = Has(b, ManifestBackup)
  <2>1. PICK l, f : l \in Seq(Endings) /\ f = Has(b, ManifestBackup) /\ q = Outcome(l, o.before, o.oldIndex, f)
    BY <1>3, <1>4 DEF Logged
  <2>2. q.log = l /\ q.before = o.before /\ q.oldIndex = o.oldIndex /\ q.oldManifest = f
    BY <2>1, OutcomeIs
  <2> QED BY <2>1, <2>2 DEF Logged
<1>6. ManifestMoved(c, q, w) /\ Filed(c)
  <2>1. ManifestMoved(b, o, w) /\ Filed(b) /\ c = Move(b, ManifestStage, ManifestFile)
    BY <1>3, <1>4, LawAt
  <2> QED BY <1>5, <2>1, ManifestInLaw
<1>7. Law("verify", c, q, w)
  BY <1>6, LawAt
<1>8. Unmixed(c, q, w)
  <2>1. Fits(b, w, ManifestStage) /\ ManifestStage # ManifestFile
    BY <1>1, <1>2, Known DEF ManifestStage, ManifestFile
  <2>2. Has(c, ManifestFile) /\ Bytes(c, ManifestFile) = Bytes(b, ManifestStage)
    BY <1>4, <2>1, MoveIs, FileIs DEF Has, Bytes
  <2>3. Fits(c, w, ManifestFile) /\ NewIndex(c, w, Index)
    BY <1>6, <2>1, <2>2 DEF Fits, ManifestMoved
  <2> QED BY <2>3 DEF Unmixed
<1> QED BY <1>1, <1>2, <1>5, <1>6, <1>7, <1>8, StepKeeps

\* Whatever the step, undoing begins with what is known to have been moved away.
LEMMA UndoLaw ==
    ASSUME NEW b, NEW o, NEW w, NEW at, Law(at, b, o, w),
           at \in {"stage index", "index aside", "index in", "stage manifest", "manifest aside", "manifest in", "verify"},
           NEW c, at = "verify" => c = b
    PROVE  Law("undo manifest", c, o, w)
<1>1. CASE ~o.oldManifest
  BY <1>1 DEF Law, ManifestToUndo
<1>2. CASE o.oldManifest
  <2>1. at = "verify"
    BY <1>2 DEF Law, Untouched, IndexStaged, IndexMoved, IndexWritten
  <2>2. ManifestMoved(b, o, w) /\ c = b
    BY <2>1, LawAt
  <2>3. ManifestToUndo(c, o)
    BY <1>2, <2>2 DEF ManifestMoved, ManifestToUndo
  <2> QED BY <2>3, LawAt
<1> QED BY <1>1, <1>2

LEMMA VerifyKeeps == ASSUME FinalizerInv, Verify PROVE FinalizerInv'
<1>1. PICK b, o, w : b = directory /\ o = outcome /\ w = wanted
  OBVIOUS
<1>2. /\ step = "verify" /\ wanted' = w /\ outcome' = o /\ directory' = b
      /\ step' = IF Loads(b) THEN "clean" ELSE "undo manifest"
  BY <1>1 DEF Verify, Now, Goes, Loads
<1>3. Law("verify", b, o, w) /\ Filed(b) /\ Logged(o)
  BY <1>1, <1>2, Known
<1>4. ASSUME Loads(b) PROVE Law("clean", b, o, w)
  BY <1>3, <1>4, LawAt DEF ManifestMoved
<1>5. Law("undo manifest", b, o, w)
  BY <1>3, UndoLaw
<1>6. Unmixed(b, o, w)
  BY <1>1, <1>2, Known
<1>7. CASE Loads(b)
  BY <1>1, <1>2, <1>3, <1>4, <1>6, <1>7, StepKeeps
<1>8. CASE ~Loads(b)
  BY <1>1, <1>2, <1>3, <1>5, <1>6, <1>8, StepKeeps
<1> QED BY <1>7, <1>8

LEMMA FailHalfwayKeeps == ASSUME FinalizerInv, FailHalfway PROVE FinalizerInv'
<1>1. PICK b, o, w : b = directory /\ o = outcome /\ w = wanted
  OBVIOUS
<1>2. step = "stage manifest" /\ step' = "undo manifest" /\ wanted' = w /\ outcome' = o /\ directory' = b
  BY <1>1 DEF FailHalfway, Now, Goes
<1>3. Law("stage manifest", b, o, w) /\ Filed(b) /\ Logged(o)
  BY <1>1, <1>2, Known
<1>4. Law("undo manifest", b, o, w)
  BY <1>3, UndoLaw
<1>5. Unmixed(b, o, w)
  BY <1>1, <1>2, Known
<1> QED BY <1>1, <1>2, <1>3, <1>4, <1>5, StepKeeps

LEMMA BackInFiled == ASSUME NEW b, Filed(b), NEW name, NEW beside, name # beside PROVE Filed(BackIn(b, name, beside))
<1>1. PICK c : c = Move(b, beside, name)
  OBVIOUS
<1>2. Filed(c)
  BY <1>1, MoveIs
<1> QED BY <1>1, <1>2 DEF BackIn

\* A file that comes back at once is the old one.
LEMMA BackInUnmixed ==
    ASSUME NEW b, Filed(b), NEW o, NEW w, NEW at, Law(at, b, o, w), Unmixed(b, o, w), NEW c,
           \/ c = b
           \/ at = "index in" /\ c = BackIn(b, Index, IndexBackup)
           \/ at = "manifest in" /\ c = BackIn(b, ManifestFile, ManifestBackup)
    PROVE  Unmixed(c, o, w)
<1>1. /\ Index # IndexBackup /\ Index # ManifestFile /\ Index # ManifestBackup /\ ManifestFile # IndexBackup
      /\ ManifestFile # ManifestBackup /\ IndexBackup # "unit.yaml" /\ ManifestBackup # "unit.yaml"
  BY DEF Index, ManifestFile, IndexBackup, ManifestBackup
<1>2. CASE at = "index in" /\ Has(b, IndexBackup) /\ c = Move(b, IndexBackup, Index)
  <2>1. Stands(b, o, Index, IndexBackup) /\ Stands(b, o, ManifestFile, ManifestFile)
    BY <1>2, LawAt DEF IndexMoved
  <2>2. /\ Stands(c, o, Index, Index)
        /\ \A n : n # Index /\ n # IndexBackup => (Has(c, n) <=> Has(b, n)) /\ (Has(b, n) => c.entries[n] = b.entries[n])
    <3>1. Has(b, IndexBackup) /\ c = Move(b, IndexBackup, Index) /\ Stands(b, o, Index, IndexBackup) /\ Filed(b)
          /\ Index # IndexBackup /\ IndexBackup # "unit.yaml"
      BY <1>1, <1>2, <2>1
    <3> QED BY ONLY <3>1, MoveBackStands
  <2>3. Stands(c, o, ManifestFile, ManifestFile)
    BY <1>1, <2>1, <2>2 DEF Stands
  <2> QED BY <2>2, <2>3, OldIsUnmixed
<1>3. CASE at = "manifest in" /\ Has(b, ManifestBackup) /\ c = Move(b, ManifestBackup, ManifestFile)
  <2>1. Stands(b, o, ManifestFile, ManifestBackup) /\ NewIndex(b, w, Index)
    BY <1>3, LawAt DEF ManifestMoved
  <2>2. /\ Stands(c, o, ManifestFile, ManifestFile)
        /\ \A n : n # ManifestFile /\ n # ManifestBackup =>
              (Has(c, n) <=> Has(b, n)) /\ (Has(b, n) => c.entries[n] = b.entries[n])
    <3>1. Has(b, ManifestBackup) /\ c = Move(b, ManifestBackup, ManifestFile) /\ Stands(b, o, ManifestFile, ManifestBackup)
          /\ Filed(b) /\ ManifestFile # ManifestBackup /\ ManifestBackup # "unit.yaml"
      BY <1>1, <1>3, <2>1
    <3> QED BY ONLY <3>1, MoveBackStands
  <2>3. NewIndex(c, w, Index)
    BY <1>1, <2>1, <2>2 DEF NewIndex
  <2> QED BY <2>2, <2>3, OldIsUnmixed
<1> QED BY <1>2, <1>3 DEF BackIn

LEMMA FailKeeps == ASSUME FinalizerInv, Fail PROVE FinalizerInv'
<1>1. PICK at, b, c, o, w : at = step /\ b = directory /\ c = directory' /\ o = outcome /\ w = wanted
  OBVIOUS
<1>2. /\ at \in {"stage index", "index aside", "index in", "stage manifest", "manifest aside", "manifest in", "verify"}
      /\ step' = "undo manifest" /\ wanted' = w /\ outcome' = o
      /\ \/ c = b
         \/ at = "index in" /\ c = BackIn(b, Index, IndexBackup)
         \/ at = "manifest in" /\ c = BackIn(b, ManifestFile, ManifestBackup)
  BY <1>1 DEF Fail
<1>3. Law(at, b, o, w) /\ Filed(b) /\ Logged(o)
  BY <1>1, Known
<1>4. Law("undo manifest", c, o, w)
  BY <1>2, <1>3, UndoLaw
<1>5. Filed(c)
  <2>1. Index # IndexBackup /\ ManifestFile # ManifestBackup
    BY DEF Index, IndexBackup, ManifestFile, ManifestBackup
  <2> QED BY <1>2, <1>3, <2>1, BackInFiled
<1>6. step # "idle"
  BY <1>1, <1>2
<1>7. Unmixed(c, o, w)
  <2>1. Unmixed(b, o, w)
    BY <1>1, <1>6, Known
  <2> QED BY <1>2, <1>3, <2>1, BackInUnmixed
<1> QED BY <1>1, <1>2, <1>3, <1>4, <1>5, <1>6, <1>7, StepKeeps

LEMMA CleanKeeps == ASSUME FinalizerInv, Clean PROVE FinalizerInv'
<1>1. PICK b, c, o, q, w : b = directory /\ c = directory' /\ o = outcome /\ q = outcome' /\ w = wanted
  OBVIOUS
<1>2. step = "clean" /\ step' = "idle" /\ wanted' = w /\ EndsAs(q, o, "written")
  BY <1>1 DEF Clean, Now, Ends, EndsAs
<1>3. Law("clean", b, o, w) /\ Filed(b) /\ Logged(o) /\ Posed(w)
  BY <1>1, <1>2, Known
<1>4. c = Without(b, Ephemeral) \/ c = b
  BY <1>1 DEF Clean
<1>5. Logged(q) /\ Last(q.log) = "written"
  <2>1. "written" \in Endings /\ Logged(o) /\ EndsAs(q, o, "written")
    BY <1>2, <1>3 DEF Endings
  <2> QED BY <2>1, EndIs
<1>6. Loads(c) /\ NamesOnce(Bytes(c, Index), ToSet(IdsOf(w.entries))) /\ Filed(c)
  <2>1. NewIndex(b, w, Index) /\ Loads(b) /\ Filed(b) /\ Posed(w)
    BY <1>3, LawAt
  <2> QED BY <1>4, <2>1, CleanLaw
<1>7. Rests(c, q, w)
  BY <1>5, <1>6 DEF Rests
<1>8. Law("idle", c, q, w)
  BY <1>7, LawAt
<1> QED BY <1>1, <1>2, <1>5, <1>6, <1>8 DEF FinalizerInv

LEMMA RestoreIndexKeeps == ASSUME FinalizerInv, RestoreIndex PROVE FinalizerInv'
<1>1. PICK b, c, o, q, w : b = directory /\ c = directory' /\ o = outcome /\ q = outcome' /\ w = wanted
  OBVIOUS
<1>2. step = "undo index" /\ step' = "idle" /\ wanted' = w /\ EndsAs(q, o, "failed")
  BY <1>1 DEF RestoreIndex, Now, Ends, EndsAs
<1>3. Law("undo index", b, o, w) /\ Filed(b) /\ Logged(o)
  BY <1>1, <1>2, Known
<1>4. PICK d : d = Restored(b, Index, IndexBackup, o.oldIndex) /\ c = Without(d, Ephemeral)
  BY <1>1 DEF RestoreIndex
<1>5. Logged(q) /\ Last(q.log) = "failed" /\ q.before = o.before /\ q.oldManifest = o.oldManifest
  <2>1. "failed" \in Endings /\ Logged(o) /\ EndsAs(q, o, "failed")
    BY <1>2, <1>3 DEF Endings
  <2> QED BY <2>1, EndIs
<1>6. (IF q.oldManifest THEN OldPair(c, q) ELSE ~Has(c, ManifestFile)) /\ Filed(c)
  <2>1. IndexToUndo(b, o) /\ Filed(b) /\ q.before = o.before
    BY <1>3, <1>5, LawAt
  <2> QED BY <1>4, <1>5, <2>1, RestoreIndexLaw
<1>7. Rests(c, q, w)
  BY <1>5, <1>6 DEF Rests
<1>8. Law("idle", c, q, w)
  BY <1>7, LawAt
<1> QED BY <1>1, <1>2, <1>5, <1>6, <1>8 DEF FinalizerInv

LEMMA GiveUpKeeps == ASSUME FinalizerInv, GiveUp PROVE FinalizerInv'
<1>1. PICK b \in HalfRestored : directory' = Without(b, Ephemeral)
  BY DEF GiveUp
<1>2. Ends("abandoned") /\ step # "idle" /\ wanted' = wanted
  BY DEF GiveUp
<1>3. Unmixed(b, outcome, wanted) /\ Filed(b)
  BY <1>1, <1>2, HalfRestoredIs
<1>4. Unmixed(directory', outcome', wanted') /\ Filed(directory')
  <2>1. PICK c, o, q, w : c = directory' /\ o = outcome /\ q = outcome' /\ w = wanted
    OBVIOUS
  <2>2. c = Without(b, Ephemeral) /\ q.before = o.before /\ Unmixed(b, o, w) /\ Filed(b)
    BY <1>1, <1>2, <1>3, <2>1, EndBefore
  <2>3. Unmixed(c, q, w) /\ Filed(c)
    BY <2>2, UnmixedAside, WithoutIs
  <2> QED BY <1>2, <2>1, <2>3
<1>5. "abandoned" \in Unkept
  BY DEF Unkept
<1> QED BY <1>2, <1>4, <1>5, Known, EndKeeps

LEMMA StopKeeps == ASSUME FinalizerInv, Stop PROVE FinalizerInv'
<1>1. Ends("stopped") /\ step # "idle" /\ wanted' = wanted /\ directory' \in HalfRestored
  BY DEF Stop
<1>2. Unmixed(directory', outcome, wanted) /\ Filed(directory')
  BY <1>1, HalfRestoredIs
<1>3. Unmixed(directory', outcome', wanted')
  <2>1. PICK c, o, q, w : c = directory' /\ o = outcome /\ q = outcome' /\ w = wanted
    OBVIOUS
  <2>2. q.before = o.before /\ Unmixed(c, o, w)
    BY <1>1, <1>2, <2>1, EndBefore
  <2>3. Unmixed(c, q, w)
    BY <2>2, UnmixedKeeps
  <2> QED BY <1>1, <2>1, <2>3
<1>4. "stopped" \in Unkept
  BY DEF Unkept
<1> QED BY <1>1, <1>2, <1>3, <1>4, Known, EndKeeps

LEMMA WriteUnitKeeps == ASSUME FinalizerInv, WriteUnit PROVE FinalizerInv'
<1>1. PICK at, b, c, o, w : at = step /\ b = directory /\ c = directory' /\ o = outcome /\ w = wanted
  OBVIOUS
<1>2. PICK entry : c = [linked |-> b.linked, entries |-> [b.entries EXCEPT !["unit.yaml"] = entry]]
  BY <1>1 DEF WriteUnit
<1>3. Alike(b, c)
  BY <1>2 DEF Alike, Has
<1>4. Law(at, b, o, w) /\ Filed(b) /\ Logged(o)
  BY <1>1, Known
<1>5. Filed(c)
  BY <1>2, <1>4 DEF Filed
<1>6. CASE step = "idle"
  <2>1. Ends("changed")
    BY <1>6 DEF WriteUnit
  <2>2. "changed" \in Unkept
    BY DEF Unkept
  <2> QED BY <1>1, <1>4, <1>5, <2>1, <2>2, EndKeeps
<1>7. CASE step # "idle"
  <2>1. step' = at /\ outcome' = o /\ wanted' = w /\ at # "clean" /\ at # "idle"
    BY <1>1, <1>7 DEF WriteUnit
  <2>2. Law(at, c, o, w)
    BY <1>3, <1>4, <2>1, WriteUnitLaw
  <2>3. Unmixed(c, o, w)
    <3>1. Unmixed(b, o, w)
      BY <1>1, <2>1, Known
    <3>2. \A n \in {Index, ManifestFile} : (Has(c, n) <=> Has(b, n)) /\ (Has(b, n) => c.entries[n] = b.entries[n])
      BY <1>3, NamesDiffer DEF Alike
    <3> QED BY <3>1, <3>2, UnmixedKeeps
  <2>4. at \in {"manifest aside", "manifest in"} => Fits(c, w, ManifestStage)
    <3>1. ManifestStage # "unit.yaml"
      BY DEF ManifestStage
    <3> QED BY <1>1, <1>3, <3>1, Known DEF Alike, Fits, Bytes
  <2> QED BY <1>1, <1>4, <1>5, <1>7, <2>1, <2>2, <2>3, <2>4, StepKeeps
<1> QED BY <1>6, <1>7

LEMMA InitHolds == ASSUME BundleInit PROVE FinalizerInv
<1>1. PICK entry, b, o : b = directory /\ o = outcome /\ b = [linked |-> FALSE, entries |-> [n \in {"unit.yaml"} |-> entry]]
                         /\ o = Outcome(<< >>, << >>, FALSE, FALSE)
  BY DEF BundleInit
<1>2. Filed(b)
  BY <1>1 DEF Filed
<1>3. o.log = << >> /\ Logged(o)
  BY <1>1 DEF Logged, Outcome
<1>4. Law("idle", b, o, wanted)
  BY <1>3, LawAt DEF Rests
<1> QED BY <1>1, <1>2, <1>3, <1>4 DEF FinalizerInv, BundleInit

LEMMA InvIsWhole == ASSUME FinalizerInv PROVE BundleIsWhole
<1>1. PICK at, b, o, w : at = step /\ b = directory /\ o = outcome /\ w = wanted
  OBVIOUS
<1>2. Law(at, b, o, w)
  BY <1>1, Known
<1>3. ASSUME step = "idle", outcome.log # << >> PROVE Rests(b, o, w) /\ o.log # << >>
  BY <1>1, <1>2, <1>3, LawAt
<1>4. EndedAs("written") => LoadError(directory, Required) = "" /\ NamesOnce(Bytes(directory, Index), ToSet(IdsOf(wanted.entries)))
  BY <1>1, <1>3 DEF EndedAs, Rests, Loads
<1>5. /\ EndedAs("refused") => Same(directory, Index) /\ Same(directory, ManifestFile)
      /\ EndedAs("failed") =>
            IF outcome.oldManifest THEN Same(directory, Index) /\ Same(directory, ManifestFile) ELSE ~Has(directory, ManifestFile)
  <2>1. ASSUME NEW name, Stands(b, o, name, name) PROVE Same(directory, name)
    BY <1>1, <2>1 DEF Stands, Same, Has
  <2>2. ASSUME EndedAs("refused") PROVE OldPair(b, o)
    BY <1>1, <1>3, <2>2 DEF EndedAs, Rests
  <2>3. ASSUME EndedAs("failed") PROVE IF outcome.oldManifest THEN OldPair(b, o) ELSE ~Has(directory, ManifestFile)
    BY <1>1, <1>3, <2>3 DEF EndedAs, Rests
  <2> QED BY <2>1, <2>2, <2>3 DEF OldPair
<1>8. EndedAs("stopped") \/ EndedAs("abandoned") => (IsNew(Index) => NewIndexStands) /\ (IsNew(ManifestFile) => NewManifestFits)
  <2>1. SUFFICES ASSUME EndedAs("stopped") \/ EndedAs("abandoned")
                 PROVE  (IsNew(Index) => NewIndexStands) /\ (IsNew(ManifestFile) => NewManifestFits)
    OBVIOUS
  <2>2. Unmixed(b, o, w)
    BY <1>1, <1>3, <2>1 DEF EndedAs, Rests
  <2>3. NewIndex(b, w, Index) => NewIndexStands /\ Bytes(b, Index) = BuildGlobalIndex(w.entries)
    BY <1>1, FileIs DEF NewIndex, NewIndexStands, Bytes
  <2>4. \A name : IsOld(b, o, name) => ~IsNew(name)
    BY <1>1 DEF IsOld, IsNew, Same, Has
  <2>5. Fits(b, w, ManifestFile) /\ NewIndex(b, w, Index) => NewManifestFits
    BY <1>1, <2>3 DEF Fits, NewManifestFits
  <2> QED BY <2>2, <2>3, <2>4, <2>5 DEF Unmixed
<1>6. ASSUME NEW name, NEW beside, Stands(b, o, name, name) \/ Stands(b, o, name, beside) PROVE StillThere(name, beside)
  BY <1>1, <1>6 DEF StillThere, Stands, Has
<1>7. ASSUME at \in {"index aside", "index in", "stage manifest", "manifest aside", "manifest in", "verify"}
      PROVE  StillThere(Index, IndexBackup) /\ StillThere(ManifestFile, ManifestBackup)
  <2>1. \/ IndexStaged(b, o, w) \/ IndexMoved(b, o, w) \/ IndexWritten(b, o, w) \/ ManifestMoved(b, o, w)
    BY <1>2, <1>7 DEF Law
  <2>2. /\ Stands(b, o, Index, Index) \/ Stands(b, o, Index, IndexBackup)
        /\ Stands(b, o, ManifestFile, ManifestFile) \/ Stands(b, o, ManifestFile, ManifestBackup)
    BY <2>1 DEF IndexStaged, Untouched, OldPair, IndexMoved, IndexWritten, ManifestMoved
  <2> QED BY <1>6, <2>2
<1> QED BY <1>1, <1>4, <1>5, <1>7, <1>8 DEF BundleIsWhole

LEMMA NextKeeps == ASSUME WellAsked, FinalizerInv, [BundleNext]_bundleVars PROVE FinalizerInv'
<1>1. CASE UNCHANGED bundleVars
  BY <1>1 DEF FinalizerInv, bundleVars
<1>2. CASE BundleNext
  BY <1>2, FinalizeKeeps, StageIndexKeeps, IndexAsideKeeps, IndexInKeeps, StageManifestKeeps, ManifestAsideKeeps,
     ManifestInKeeps, VerifyKeeps, CleanKeeps, FailKeeps, FailHalfwayKeeps, RestoreManifestKeeps, RestoreIndexKeeps,
     GiveUpKeeps, StopKeeps, WriteUnitKeeps DEF BundleNext
<1> QED BY <1>1, <1>2

\* BundleIsWhole, for every number of rounds and mishaps, whatever fails or stops or is written meanwhile:
\* success leaves a pair the loader accepts, whose index names each entry asked for once; a refusal leaves
\* the old pair; a failure leaves it if the new manifest had taken the place of an old one, and no manifest
\* otherwise; a stop, and a restoration that fails, leave no new manifest beside another index than its own;
\* and until the loader has accepted the new pair the old one is in the directory.
THEOREM BundleStaysWhole == ASSUME WellAsked PROVE BundleSpec => []BundleIsWhole
<1>1. BundleInit => FinalizerInv
  BY InitHolds
<1>2. FinalizerInv /\ [BundleNext]_bundleVars => FinalizerInv'
  BY NextKeeps
<1>3. FinalizerInv => BundleIsWhole
  BY InvIsWhole
<1> QED BY <1>1, <1>2, <1>3, PTL DEF BundleSpec

-----------------------------------------------------------------------------
(* The directory of a unit (UnitEmitter).                                  *)

\* What is in the tree under either name is whole, or nothing.
IsUnit(at) == at # NoDirectory => at.files = ToSet(Files)
EmitterShape ==
    /\ emitted \in Seq({"written", "failed", "stopped"})
    /\ doing \in {"idle", "write", "move in", "clean", "restore"}
    /\ troubles \in Nat
    /\ IsUnit(target) /\ IsUnit(backup)
\* How far the emission under way has come with the new unit,
EmitterCourse ==
    /\ doing # "idle" => Emission \in Versions
    /\ doing = "write" => temp = Staged(Emission, temp.files)
    /\ doing = "move in" => temp = WholeUnit(Emission)
    /\ doing = "clean" => target = WholeUnit(Emission)
\* and where the newest is, as long as there was no more than one trouble.
EmitterKeeps ==
    /\ troubles = 0 => doing # "restore" /\ Emissions("stopped") = {}
    /\ troubles = 0 /\ doing = "write" => target = Newest /\ backup = NoDirectory
    /\ troubles = 0 /\ doing = "move in" => target = NoDirectory /\ backup = Newest
    /\ troubles = 1 /\ doing = "restore" => (IF target = NoDirectory THEN backup ELSE target) = Newest
    /\ troubles <= 1 /\ doing = "idle" => target = Newest \/ StoppedAway
EmitterInv == EmitterShape /\ EmitterCourse /\ EmitterKeeps

LEMMA EmissionsGrow ==
    ASSUME EmitterShape, NEW how \in {"written", "failed", "stopped"}, EmissionEnds(how), NEW x
    PROVE  /\ emitted' \in Seq({"written", "failed", "stopped"}) /\ doing' = "idle"
           /\ Emission \in Nat /\ \A i \in Emissions(x) : i \in Nat /\ i < Emission
           /\ Emissions(x)' = IF x = how THEN Emissions(x) \cup {Emission} ELSE Emissions(x)
<1> DEFINE hows == {"written", "failed", "stopped"}
<1>1. emitted \in Seq(hows) /\ emitted' = Append(emitted, how) /\ doing' = "idle"
  BY DEF EmitterShape, EmissionEnds
<1>2. Len(emitted) \in Nat /\ DOMAIN emitted = 1..Len(emitted)
  BY <1>1
<1>3. Append(emitted, how) \in Seq(hows) /\ Len(Append(emitted, how)) = Len(emitted) + 1
  BY <1>1
<1>4. \A i \in 1..Len(emitted) : Append(emitted, how)[i] = emitted[i]
  BY <1>1
<1>5. Append(emitted, how)[Len(emitted) + 1] = how
  BY <1>1
<1>6. DOMAIN Append(emitted, how) = 1..(Len(emitted) + 1)
  BY <1>3
<1>7. Emissions(x)' = {i \in 1..(Len(emitted) + 1) : Append(emitted, how)[i] = x}
  BY <1>1, <1>6 DEF Emissions
<1>8. Emissions(x) = {i \in 1..Len(emitted) : emitted[i] = x}
  BY <1>2 DEF Emissions
<1>9. 1..(Len(emitted) + 1) = 1..Len(emitted) \cup {Len(emitted) + 1}
  BY <1>2
<1> QED
  <2>1. Emissions(x)' = IF x = how THEN Emissions(x) \cup {Emission} ELSE Emissions(x)
    BY <1>4, <1>5, <1>7, <1>8, <1>9 DEF Emission
  <2>2. Emission \in Nat /\ \A i \in Emissions(x) : i \in Nat /\ i < Emission
    BY <1>2, <1>8 DEF Emission
  <2> QED BY <1>1, <1>3, <2>1, <2>2

\* What is written is the newest, and what ends otherwise leaves the newest what it is.
LEMMA NewestOf ==
    ASSUME EmitterShape, NEW how \in {"written", "failed", "stopped"}, EmissionEnds(how)
    PROVE  Newest' = IF how = "written" THEN WholeUnit(Emission) ELSE Newest
<1> DEFINE S == Emissions("written")
<1>1. Emission \in Nat /\ \A i \in S : i \in Nat /\ i < Emission
  BY EmissionsGrow
<1>2. CASE how = "written"
  <2>1. Emissions("written")' = S \cup {Emission}
    BY <1>2, EmissionsGrow
  <2>2. Max(S \cup {Emission}) = Emission
    <3>1. Emission \in S \cup {Emission} /\ \A j \in S \cup {Emission} : Emission >= j
      BY <1>1
    <3>2. \A i \in S \cup {Emission} : (\A j \in S \cup {Emission} : i >= j) => i = Emission
      BY <1>1
    <3> QED BY <3>1, <3>2 DEF Max
  <2>3. Newest' = WholeUnit(Max(S \cup {Emission}))
    BY <2>1 DEF Newest, WholeUnit, Staged
  <2> QED BY <1>2, <2>2, <2>3
<1>3. CASE how # "written"
  <2>1. Emissions("written")' = S
    BY <1>3, EmissionsGrow
  <2> QED BY <1>3, <2>1 DEF Newest, WholeUnit, Staged
<1> QED BY <1>2, <1>3

LEMMA EmitterStarts == ASSUME EmitInit PROVE EmitterInv
<1>1. CASE emitted = << >> /\ target = NoDirectory
  <2>1. Emissions("written") = {} /\ Emissions("stopped") = {}
    BY <1>1 DEF Emissions
  <2> QED BY <1>1, <2>1 DEF EmitInit, EmitterInv, EmitterShape, EmitterCourse, EmitterKeeps, IsUnit, Newest
<1>2. CASE emitted = <<"written">> /\ target = WholeUnit(1)
  <2>1. Emissions("written") = {1} /\ Emissions("stopped") = {}
    BY <1>2 DEF Emissions
  <2>2. Max({1}) = 1
    BY DEF Max
  <2>3. Newest = WholeUnit(1)
    BY <2>1, <2>2 DEF Newest
  <2>4. IsUnit(target)
    BY <1>2 DEF IsUnit, WholeUnit, Staged
  <2>5. emitted \in Seq({"written", "failed", "stopped"})
    BY <1>2
  <2> QED BY <1>2, <2>1, <2>3, <2>4, <2>5 DEF EmitInit, EmitterInv, EmitterShape, EmitterCourse, EmitterKeeps, IsUnit
<1> QED BY <1>1, <1>2 DEF EmitInit

\* A step that ends no emission.
LEMMA EmitterGoesOn ==
    ASSUME UNCHANGED emitted
    PROVE  Emission' = Emission /\ Newest' = Newest /\ \A how : Emissions(how)' = Emissions(how)
BY DEF Emission, Newest, Emissions, WholeUnit, Staged

LEMMA BeginEmissionKeeps == ASSUME EmitterInv, BeginEmission PROVE EmitterInv'
<1>1. Emission' = Emission /\ Newest' = Newest /\ Emissions("stopped")' = Emissions("stopped")
  BY EmitterGoesOn DEF BeginEmission
<1>2. EmitterShape'
  BY DEF EmitterInv, EmitterShape, BeginEmission, IsUnit
<1>3. EmitterCourse'
  BY <1>1 DEF BeginEmission, EmitterCourse, Staged
<1>4. EmitterKeeps'
  BY <1>1 DEF EmitterInv, EmitterKeeps, BeginEmission, StoppedAway
<1> QED BY <1>2, <1>3, <1>4 DEF EmitterInv

LEMMA WriteFileKeeps == ASSUME EmitterInv, WriteFile PROVE EmitterInv'
<1>1. Emission' = Emission /\ Newest' = Newest /\ Emissions("stopped")' = Emissions("stopped")
  BY EmitterGoesOn DEF WriteFile
<1>2. EmitterShape'
  BY DEF EmitterInv, EmitterShape, WriteFile, IsUnit
<1>3. EmitterCourse'
  <2>1. temp = Staged(Emission, temp.files) /\ Emission \in Versions
    BY DEF EmitterInv, EmitterCourse, WriteFile
  <2>2. PICK files : temp' = Staged(temp.version, files)
    BY DEF WriteFile
  <2>3. temp.version = Emission
    BY <2>1 DEF Staged
  <2>4. temp' = Staged(Emission, temp'.files)
    BY <2>2, <2>3 DEF Staged
  <2> QED BY <1>1, <2>1, <2>4 DEF WriteFile, EmitterCourse, Staged
<1>4. EmitterKeeps'
  BY <1>1 DEF EmitterInv, EmitterKeeps, WriteFile
<1> QED BY <1>2, <1>3, <1>4 DEF EmitterInv

LEMMA MoveAsideKeeps == ASSUME EmitterInv, MoveAside PROVE EmitterInv'
<1>1. Emission' = Emission /\ Newest' = Newest /\ Emissions("stopped")' = Emissions("stopped")
  BY EmitterGoesOn DEF MoveAside
<1>2. EmitterShape'
  BY DEF EmitterInv, EmitterShape, MoveAside, IsUnit
<1>3. EmitterCourse'
  BY <1>1 DEF EmitterInv, EmitterCourse, MoveAside, WholeUnit, Staged
<1>4. EmitterKeeps'
  BY <1>1 DEF EmitterInv, EmitterKeeps, MoveAside
<1> QED BY <1>2, <1>3, <1>4 DEF EmitterInv

LEMMA MoveInKeeps == ASSUME EmitterInv, MoveIn PROVE EmitterInv'
<1>1. Emission' = Emission /\ Newest' = Newest /\ Emissions("stopped")' = Emissions("stopped")
  BY EmitterGoesOn DEF MoveIn
<1>2. EmitterShape'
  <2>1. WholeUnit(Emission).files = ToSet(Files)
    BY DEF WholeUnit, Staged
  <2>2. target' = WholeUnit(Emission)
    BY DEF EmitterInv, EmitterCourse, MoveIn
  <2>3. target'.files = ToSet(Files)
    BY <2>1, <2>2
  <2> QED BY <2>3 DEF EmitterInv, EmitterShape, MoveIn, IsUnit
<1>3. EmitterCourse'
  BY <1>1 DEF EmitterInv, EmitterCourse, MoveIn, WholeUnit, Staged
<1>4. EmitterKeeps'
  BY <1>1 DEF EmitterInv, EmitterKeeps, MoveIn
<1> QED BY <1>2, <1>3, <1>4 DEF EmitterInv

\* One more trouble is the first only where there was none.
LEMMA OneMore ==
    ASSUME EmitterShape, troubles' = troubles + 1
    PROVE  troubles' \in Nat /\ troubles' # 0 /\ (troubles' = 1 => troubles = 0) /\ (troubles' <= 1 => troubles = 0)
<1>1. troubles \in Nat
  BY DEF EmitterShape
<1>2. troubles + 1 \in Nat /\ troubles + 1 # 0 /\ (troubles + 1 = 1 => troubles = 0) /\ (troubles + 1 <= 1 => troubles = 0)
  BY <1>1
<1> QED BY ONLY <1>2, troubles' = troubles + 1, Zenon

LEMMA FailEmissionKeeps == ASSUME EmitterInv, FailEmission PROVE EmitterInv'
<1>1. Emission' = Emission /\ Newest' = Newest
  BY EmitterGoesOn DEF FailEmission
<1>2. doing \in {"write", "move in"} /\ doing' = "restore" /\ target' = target /\ backup' = backup
  BY DEF FailEmission
<1>3. troubles' \in Nat /\ troubles' # 0 /\ (troubles' = 1 => troubles = 0)
  BY OneMore DEF EmitterInv, FailEmission
<1>4. EmitterShape'
  BY <1>2, <1>3 DEF EmitterInv, EmitterShape, FailEmission, IsUnit
<1>5. EmitterCourse'
  BY <1>1 DEF EmitterInv, EmitterCourse, FailEmission
<1>6. EmitterKeeps'
  <2>1. troubles' = 1 => (IF target = NoDirectory THEN backup ELSE target) = Newest
    BY <1>2, <1>3 DEF EmitterInv, EmitterKeeps
  <2> QED BY <1>1, <1>2, <1>3, <2>1 DEF EmitterKeeps
<1> QED BY <1>4, <1>5, <1>6 DEF EmitterInv

LEMMA RemoveOldKeeps == ASSUME EmitterInv, RemoveOld PROVE EmitterInv'
<1>1. EmissionEnds("written") /\ target' = target /\ doing = "clean"
  BY DEF RemoveOld
<1>2. doing' = "idle" /\ emitted' \in Seq({"written", "failed", "stopped"}) /\ Emissions("stopped")' = Emissions("stopped")
  BY <1>1, EmissionsGrow DEF EmitterInv
<1>3. Newest' = target'
  BY <1>1, NewestOf DEF EmitterInv, EmitterCourse
<1>4. troubles' \in Nat /\ (troubles' = 0 => troubles = 0)
  BY DEF EmitterInv, EmitterShape, RemoveOld
<1>5. EmitterShape'
  <2>1. backup' \in {backup, NoDirectory}
    BY DEF RemoveOld
  <2> QED BY <1>1, <1>2, <1>4, <2>1 DEF EmitterInv, EmitterShape, IsUnit
<1>6. EmitterCourse' /\ EmitterKeeps'
  BY <1>2, <1>3, <1>4 DEF EmitterInv, EmitterCourse, EmitterKeeps
<1> QED BY <1>5, <1>6 DEF EmitterInv

LEMMA RestoreKeeps == ASSUME EmitterInv, Restore PROVE EmitterInv'
<1>1. EmissionEnds("failed") /\ backup' = NoDirectory /\ doing = "restore"
  BY DEF Restore
<1>2. doing' = "idle" /\ emitted' \in Seq({"written", "failed", "stopped"})
  BY <1>1, EmissionsGrow DEF EmitterInv
<1>3. Newest' = Newest
  BY <1>1, NewestOf DEF EmitterInv
<1>4. \/ target' = (IF target = NoDirectory THEN backup ELSE target) /\ troubles' = troubles
      \/ target' = target /\ troubles' = troubles + 1
  BY DEF Restore
<1>5. troubles \in Nat \ {0} /\ IsUnit(target) /\ IsUnit(backup)
  BY <1>1 DEF EmitterInv, EmitterShape, EmitterKeeps
<1>6. EmitterShape'
  BY <1>1, <1>2, <1>4, <1>5 DEF EmitterShape, IsUnit
<1>7. EmitterKeeps'
  <2>1. troubles' <= 1 => target' = Newest
    BY <1>1, <1>4, <1>5 DEF EmitterInv, EmitterKeeps
  <2>2. troubles' # 0
    BY <1>4, <1>5
  <2> QED BY <1>2, <1>3, <2>1, <2>2 DEF EmitterKeeps
<1>8. EmitterCourse'
  BY <1>2 DEF EmitterCourse
<1> QED BY <1>6, <1>7, <1>8 DEF EmitterInv

\* Where the process stops with no trouble before, the newest is in its place, or a later one, or it is
\* where it was moved to.
LEMMA StopEmissionKeeps == ASSUME EmitterInv, StopEmission PROVE EmitterInv'
<1>1. EmissionEnds("stopped") /\ target' = target /\ backup' = backup /\ troubles' = troubles + 1 /\ doing # "idle"
  BY DEF StopEmission
<1>2. doing' = "idle" /\ emitted' \in Seq({"written", "failed", "stopped"}) /\ Emissions("stopped")' # {}
  BY <1>1, EmissionsGrow DEF EmitterInv
<1>3. Newest' = Newest
  BY <1>1, NewestOf DEF EmitterInv
<1>4. EmitterShape'
  BY <1>1, <1>2, OneMore DEF EmitterInv, EmitterShape, IsUnit
<1>5. EmitterKeeps'
  <2>1. doing \in {"write", "move in", "clean", "restore"}
    BY <1>1 DEF EmitterInv, EmitterShape
  <2>2. troubles' # 0 /\ (troubles' <= 1 => troubles = 0)
    BY <1>1, OneMore DEF EmitterInv
  <2>3. ASSUME troubles = 0
        PROVE  target' = Newest' \/ StoppedAway'
    <3>1. doing # "restore"
      BY <2>3 DEF EmitterInv, EmitterKeeps
    <3>2. CASE doing = "write"
      BY <1>1, <1>3, <2>3, <3>2 DEF EmitterInv, EmitterKeeps
    <3>3. CASE doing = "move in"
      <4>1. target' = NoDirectory /\ backup' = Newest'
        BY <1>1, <1>3, <2>3, <3>3 DEF EmitterInv, EmitterKeeps
      <4> QED BY <1>2, <4>1 DEF StoppedAway
    <3>4. CASE doing = "clean"
      <4>1. target' = WholeUnit(Emission) /\ Emission \in Versions
        BY <1>1, <3>4 DEF EmitterInv, EmitterCourse
      <4>2. target' \in {WholeUnit(v) : v \in Versions}
        BY <4>1
      <4> QED BY <1>2, <4>2 DEF StoppedAway, WholeUnit, Staged
    <3> QED BY <2>1, <3>1, <3>2, <3>3, <3>4
  <2> QED BY <1>2, <2>2, <2>3 DEF EmitterKeeps
<1>6. EmitterCourse'
  BY <1>2 DEF EmitterCourse
<1> QED BY <1>4, <1>5, <1>6 DEF EmitterInv

LEMMA EmitterRests == ASSUME EmitterInv, UNCHANGED emitVars PROVE EmitterInv'
<1>1. Emission' = Emission /\ Newest' = Newest /\ Emissions("stopped")' = Emissions("stopped")
  BY EmitterGoesOn DEF emitVars
<1>2. UNCHANGED <<target, temp, backup, doing, troubles, emitted>>
  BY DEF emitVars
<1>3. EmitterShape'
  BY <1>2 DEF EmitterInv, EmitterShape, IsUnit
<1>4. EmitterCourse'
  BY <1>1, <1>2 DEF EmitterInv, EmitterCourse, WholeUnit, Staged
<1>5. EmitterKeeps'
  BY <1>1, <1>2 DEF EmitterInv, EmitterKeeps, StoppedAway, WholeUnit, Staged
<1> QED BY <1>3, <1>4, <1>5 DEF EmitterInv

\* The directory of a unit is never half of one. With at most one trouble it is the unit written last,
\* and after a stop that or a later one, if not under the name the old one was moved to (emitCompiledUnit):
\* for any versions, any projections, and any number of emissions and troubles.
THEOREM UnitStaysWhole == EmitSpec => []AUnitIsWhole
<1>1. EmitInit => EmitterInv
  BY EmitterStarts
<1>2. EmitterInv /\ [EmitNext]_emitVars => EmitterInv'
  <2> SUFFICES ASSUME EmitterInv, [EmitNext]_emitVars PROVE EmitterInv'
    OBVIOUS
  <2>1. CASE BeginEmission
    BY <2>1, BeginEmissionKeeps
  <2>2. CASE WriteFile
    BY <2>2, WriteFileKeeps
  <2>3. CASE MoveAside
    BY <2>3, MoveAsideKeeps
  <2>4. CASE MoveIn
    BY <2>4, MoveInKeeps
  <2>5. CASE RemoveOld
    BY <2>5, RemoveOldKeeps
  <2>6. CASE FailEmission
    BY <2>6, FailEmissionKeeps
  <2>7. CASE Restore
    BY <2>7, RestoreKeeps
  <2>8. CASE StopEmission
    BY <2>8, StopEmissionKeeps
  <2>9. CASE UNCHANGED emitVars
    BY <2>9, EmitterRests
  <2> QED BY <2>1, <2>2, <2>3, <2>4, <2>5, <2>6, <2>7, <2>8, <2>9 DEF EmitNext
<1>3. EmitterInv => AUnitIsWhole
  BY DEF EmitterInv, EmitterShape, EmitterKeeps, AUnitIsWhole, IsUnit
<1> QED BY <1>1, <1>2, <1>3, PTL DEF EmitSpec
=============================================================================
