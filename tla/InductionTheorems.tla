------------------------- MODULE InductionTheorems -------------------------
(***************************************************************************)
(* What the proofs about recursive functions use of the natural numbers,   *)
(* stated of sets and functions, not of operators: an instance of it is    *)
(* then a set or a function that a proof writes down.                      *)
(***************************************************************************)
EXTENDS Naturals, FiniteSets, WellFoundedInduction, FiniteSetTheorems, TLAPS

\* A set of numbers that is not empty has a least one.
LEMMA LeastNat == ASSUME NEW T, T \subseteq Nat, T # {} PROVE \E x \in T : \A y \in T : x <= y
<1> DEFINE R == {ss \in Nat \X Nat : ss[1] < ss[2]}
<1>1. IsWellFoundedOn(R, Nat)
  BY NatLessThanWellFounded DEF OpToRel
<1>2. \A x, y \in Nat : x < y => <<x, y>> \in R
  OBVIOUS
<1> HIDE DEF R
<1>3. PICK x \in T : \A y \in T : ~ (<<y, x>> \in R)
  BY <1>1, WFMin
<1>4. ASSUME NEW y \in T PROVE x <= y
  <2>1. x \in Nat /\ y \in Nat /\ ~(y < x)
    BY <1>2, <1>3
  <2> QED BY <2>1
<1> QED BY <1>4

\* Induction, of a set in the place of a predicate.
LEMMA Induction ==
    ASSUME NEW S, 0 \in S, \A n \in Nat : n \in S => n + 1 \in S
    PROVE  Nat \subseteq S
<1> SUFFICES ASSUME NEW k \in Nat, k \notin S PROVE FALSE
  OBVIOUS
<1>1. PICK x \in Nat \ S : \A y \in Nat \ S : x <= y
  BY LeastNat
<1>2. x # 0 /\ x - 1 \in Nat
  OBVIOUS
<1>3. x - 1 \in S
  BY <1>1, <1>2
<1> QED BY <1>2, <1>3

\* A function on numbers may be defined by what it is of 0 and by what each value makes of the last.
Iterates(f, V, b, G) == f \in [Nat -> V] /\ f[0] = b /\ \A n \in Nat : f[n + 1] = G[f[n]]

LEMMA Recursion == \A V : \A b \in V : \A G \in [V -> V] : \E f : Iterates(f, V, b, G)
<1> SUFFICES ASSUME NEW V, NEW b \in V, NEW G \in [V -> V]
             PROVE  \E f \in [Nat -> V] : f[0] = b /\ \A n \in Nat : f[n + 1] = G[f[n]]
  BY DEF Iterates
<1> DEFINE Run(g, n) == /\ g \in [0..n -> V] /\ g[0] = b
                        /\ \A i \in 0..n : i < n => g[i + 1] = G[g[i]]
           S == {n \in Nat : \E g : Run(g, n)}
           U == {n \in Nat : \A g, h, k, m : k \in Nat /\ m \in Nat /\ n <= k /\ n <= m
                               /\ Run(g, k) /\ Run(h, m) => g[n] = h[n]}
<1>1. Nat \subseteq S
  <2>1. Run([i \in 0..0 |-> b], 0)
    OBVIOUS
  <2>2. 0 \in S
    BY <2>1
  <2>3. ASSUME NEW n \in Nat, NEW g, Run(g, n) PROVE \E h : Run(h, n + 1)
    <3> DEFINE h == [i \in 0..(n + 1) |-> IF i = n + 1 THEN G[g[n]] ELSE g[i]]
    <3>1. Run(h, n + 1)
      BY <2>3
    <3> QED BY <3>1
  <2>4. \A n \in Nat : n \in S => n + 1 \in S
    BY <2>3
  <2> HIDE DEF S
  <2> QED BY <2>2, <2>4, Induction
<1>2. Nat \subseteq U
  <2>1. 0 \in U
    <3>1. \A x, k : Run(x, k) => x[0] = b
      OBVIOUS
    <3> HIDE DEF Run
    <3> QED BY <3>1
  <2>2. ASSUME NEW n \in Nat, n \in U PROVE n + 1 \in U
    <3>1. ASSUME NEW g, NEW h, NEW k \in Nat, NEW m \in Nat, n + 1 <= k, n + 1 <= m,
                 Run(g, k), Run(h, m)
          PROVE  g[n + 1] = h[n + 1]
      <4>1. n <= k /\ n <= m /\ n \in 0..k /\ n < k /\ n \in 0..m /\ n < m
        BY <3>1
      <4>2. g[n + 1] = G[g[n]] /\ h[n + 1] = G[h[n]]
        BY <3>1, <4>1
      <4> HIDE DEF Run
      <4>3. g[n] = h[n]
        BY <2>2, <3>1, <4>1
      <4> QED BY <4>2, <4>3
    <3> HIDE DEF Run
    <3> QED BY <3>1
  <2> HIDE DEF U
  <2> QED BY <2>1, <2>2, Induction
<1> DEFINE g(n) == CHOOSE x : Run(x, n)
           f == [n \in Nat |-> g(n)[n]]
<1>3. \A n \in Nat : Run(g(n), n)
  BY <1>1
<1>4. ASSUME NEW n \in Nat PROVE g(n + 1)[n] = g(n)[n]
  <2>1. n \in U /\ n <= n /\ n <= n + 1 /\ n + 1 \in Nat
    BY <1>2
  <2> HIDE DEF g, Run
  <2>2. Run(g(n), n) /\ Run(g(n + 1), n + 1)
    BY <1>3
  <2>3. ASSUME NEW x, NEW y, Run(x, n + 1), Run(y, n) PROVE x[n] = y[n]
    BY <2>1, <2>3
  <2> QED BY <2>2, <2>3
<1> HIDE DEF g
<1>5. f \in [Nat -> V] /\ f[0] = b
  BY <1>3
<1>6. ASSUME NEW n \in Nat PROVE f[n + 1] = G[f[n]]
  <2>1. g(n + 1)[n + 1] = G[g(n + 1)[n]]
    <3>1. Run(g(n + 1), n + 1) /\ n \in 0..(n + 1) /\ n < n + 1
      BY <1>3
    <3> QED BY <3>1
  <2> QED BY <1>4, <2>1
<1> QED BY <1>5, <1>6

\* Of finitely many things, totally preordered by R, one comes before all others.
LEMMA Foremost ==
    ASSUME NEW S, IsFiniteSet(S), S # {}, NEW R,
           \A x, y \in S : <<x, y>> \in R \/ <<y, x>> \in R,
           \A x, y, z \in S : <<x, y>> \in R /\ <<y, z>> \in R => <<x, z>> \in R
    PROVE  \E x \in S : \A y \in S : <<x, y>> \in R
<1> DEFINE n == Cardinality(S)
<1>1. n \in Nat /\ n # 0 /\ ExistsBijection(1..n, S)
  BY FS_CardinalityType, FS_EmptySet
<1> HIDE DEF n
<1>2. PICK f \in Bijection(1..n, S) : TRUE
  BY <1>1 DEF ExistsBijection
<1>3. f \in [1..n -> S] /\ \A y \in S : \E i \in 1..n : f[i] = y
  BY <1>2 DEF Bijection, Surjection, Injection
<1> DEFINE T == {k \in Nat : k < n => \E i \in 1..n : \A j \in 1..(k + 1) : <<f[i], f[j]>> \in R}
<1>4. 0 \in T
  BY <1>1, <1>3
<1>5. ASSUME NEW k \in Nat, k \in T PROVE k + 1 \in T
  <2> SUFFICES ASSUME k + 1 < n
               PROVE  \E i \in 1..n : \A j \in 1..(k + 1 + 1) : <<f[i], f[j]>> \in R
    OBVIOUS
  <2>1. PICK i \in 1..n : \A j \in 1..(k + 1) : <<f[i], f[j]>> \in R
    BY <1>1, <1>5
  <2>2. k + 1 + 1 \in 1..n /\ \A j \in 1..(k + 1 + 1) : j \in 1..n /\ (j \in 1..(k + 1) \/ j = k + 1 + 1)
    BY <1>1
  <2>3. CASE <<f[i], f[k + 1 + 1]>> \in R
    BY <2>1, <2>2, <2>3
  <2>4. CASE <<f[k + 1 + 1], f[i]>> \in R
    <3>1. \A j \in 1..(k + 1 + 1) : <<f[k + 1 + 1], f[j]>> \in R
      BY <1>3, <2>1, <2>2, <2>4
    <3> QED BY <2>2, <3>1
  <2>5. <<f[i], f[k + 1 + 1]>> \in R \/ <<f[k + 1 + 1], f[i]>> \in R
    BY <1>3, <2>2
  <2> QED BY <2>3, <2>4, <2>5
<1> HIDE DEF T
<1>6. n - 1 \in T
  BY <1>1, <1>4, <1>5, Induction
<1>7. PICK i \in 1..n : \A j \in 1..n : <<f[i], f[j]>> \in R
  BY <1>1, <1>6 DEF T
<1> QED BY <1>3, <1>7
=============================================================================
