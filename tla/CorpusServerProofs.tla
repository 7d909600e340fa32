------------------------- MODULE CorpusServerProofs -------------------------
(***************************************************************************)
(* Proofs about CorpusServer and the registry under it, for any number of  *)
(* bundles, boots, swaps and calls, and however often bundles are written. *)
(***************************************************************************)
EXTENDS CorpusServer, InductionTheorems, FiniteSetTheorems, SequenceTheorems, TLAPS

\* What a deployment gives: every path a host names has a bundle on the disk, a bundle that loads
\* states a release, and a process that listens has settings.
States(bundle, request) == LoadError(bundle, request) = "" => SnapshotOf(bundle).release # Absent
WellKept(P, B, R) ==
    /\ FirstDisks \subseteq [P -> B]
    /\ \A path \in DOMAIN Bundles : Bundles[path] \subseteq B
    /\ \A bundle \in B : \A request \in R : States(bundle, request)
    /\ \A request \in R : request.path \in P
    /\ Swaps \subseteq R
    /\ \A b \in Boots : b.requests \in Seq(R) /\ b.settings # Absent

-----------------------------------------------------------------------------
(* The registry *)

\* Everything active is mounted, under a release.
Sound(g) ==
    /\ g = [mounts |-> g.mounts, active |-> g.active, failed |-> g.failed]
    /\ \A k \in DOMAIN g.mounts : k[2] # Absent
    /\ \A n \in DOMAIN g.active : <<n, g.active[n]>> \in DOMAIN g.mounts
    /\ IsFiniteSet(DOMAIN g.active)

\* Nothing that is mounted goes or changes, and no namespace is forgotten.
Grows(g, h) ==
    /\ \A k \in DOMAIN g.mounts : k \in DOMAIN h.mounts /\ h.mounts[k] = g.mounts[k]
    /\ DOMAIN g.active \subseteq DOMAIN h.active

LEMMA NothingIsSound == Sound(NoRegistry)
<1>1. DOMAIN << >> = {}
  OBVIOUS
<1> QED BY <1>1, FS_EmptySet DEF Sound, NoRegistry

LEMMA AddIsSound ==
    ASSUME NEW g, Sound(g), NEW mount, mount.release # Absent
    PROVE  /\ Sound(Add(g, mount)) /\ Grows(g, Add(g, mount))
           /\ Key(mount) \in DOMAIN Add(g, mount).mounts
<1>1. CASE Key(mount) \in DOMAIN g.mounts
  <2>1. Add(g, mount) = [mounts |-> g.mounts, active |-> g.active, failed |-> Append(g.failed, "MOUNT_DUPLICATE")]
    BY <1>1 DEF Add, Sound
  <2> QED BY <1>1, <2>1 DEF Sound, Grows
<1>2. CASE Key(mount) \notin DOMAIN g.mounts
  <2> DEFINE M == [k \in DOMAIN g.mounts \cup {Key(mount)} |-> IF k = Key(mount) THEN mount ELSE g.mounts[k]]
             A == [n \in DOMAIN g.active \cup {mount.namespace} |->
                      IF n \in DOMAIN g.active THEN g.active[n] ELSE mount.release]
  <2>1. Add(g, mount) = [mounts |-> M, active |-> A, failed |-> g.failed]
    BY <1>2 DEF Add, Sound
  <2>2. /\ DOMAIN M = DOMAIN g.mounts \cup {Key(mount)}
        /\ \A k \in DOMAIN g.mounts : M[k] = g.mounts[k]
    BY <1>2
  <2>3. /\ DOMAIN A = DOMAIN g.active \cup {mount.namespace}
        /\ \A n \in DOMAIN A : A[n] = IF n \in DOMAIN g.active THEN g.active[n] ELSE mount.release
    OBVIOUS
  <2>4. IsFiniteSet(DOMAIN A)
    BY <2>3, FS_AddElement DEF Sound
  <2>5. Key(mount) = <<mount.namespace, mount.release>>
    BY DEF Key
  <2> HIDE DEF M, A
  <2>6. \A k \in DOMAIN M : k[2] # Absent
    BY <2>2, <2>5 DEF Sound
  <2>7. \A n \in DOMAIN A : <<n, A[n]>> \in DOMAIN M
    BY <2>2, <2>3, <2>5 DEF Sound
  <2> QED BY <2>1, <2>2, <2>3, <2>4, <2>6, <2>7 DEF Sound, Grows
<1> QED BY <1>1, <1>2

LEMMA PointedIsSound ==
    ASSUME NEW g, Sound(g), NEW n, NEW release, <<n, release>> \in DOMAIN g.mounts
    PROVE  /\ Sound(Pointed(g, n, release)) /\ Grows(g, Pointed(g, n, release))
           /\ Pointed(g, n, release).mounts = g.mounts
           /\ DOMAIN Pointed(g, n, release).active = DOMAIN g.active \cup {n}
           /\ \A m \in DOMAIN g.active \cup {n} :
                 Pointed(g, n, release).active[m] = IF m = n THEN release ELSE g.active[m]
<1> DEFINE A == [m \in DOMAIN g.active \cup {n} |-> IF m = n THEN release ELSE g.active[m]]
<1>1. Pointed(g, n, release) = [mounts |-> g.mounts, active |-> A, failed |-> g.failed]
  BY DEF Pointed, Sound
<1>2. /\ DOMAIN A = DOMAIN g.active \cup {n}
      /\ \A m \in DOMAIN A : A[m] = IF m = n THEN release ELSE g.active[m]
  OBVIOUS
<1>3. IsFiniteSet(DOMAIN A)
  BY <1>2, FS_AddElement DEF Sound
<1> HIDE DEF A
<1>4. \A m \in DOMAIN A : <<m, A[m]>> \in DOMAIN g.mounts
  BY <1>2 DEF Sound
<1> QED BY <1>1, <1>2, <1>3, <1>4 DEF Sound, Grows

LEMMA SwappedIsSound ==
    ASSUME NEW g, Sound(g), NEW mount, mount.release # Absent
    PROVE  Sound(Swapped(g, mount)) /\ Grows(g, Swapped(g, mount))
<1> DEFINE h == IF Key(mount) \in DOMAIN g.mounts THEN g ELSE Add(g, mount)
<1>1. Sound(h) /\ Grows(g, h) /\ Key(mount) \in DOMAIN h.mounts
  BY AddIsSound DEF Grows
<1>2. Swapped(g, mount) = Pointed(h, mount.namespace, mount.release)
  BY DEF Swapped
<1>3. Key(mount) = <<mount.namespace, mount.release>>
  BY DEF Key
<1> HIDE DEF h
<1>4. Sound(Swapped(g, mount)) /\ Grows(h, Swapped(g, mount))
  BY <1>1, <1>2, <1>3, PointedIsSound
<1> QED BY <1>1, <1>4 DEF Grows

LEMMA ErrorOfLoad ==
    ASSUME NEW bundle, NEW request, NEW source, MountError(bundle, request, source) = ""
    PROVE  LoadError(bundle, request) = ""
  BY DEF MountError

LEMMA MountIntoIsSound ==
    ASSUME NEW g, Sound(g), NEW bundle, NEW request, NEW source,
           States(bundle, request)
    PROVE  Sound(MountInto(g, bundle, request, source))
<1>1. CASE MountError(bundle, request, source) = ""
  <2>1. MountOf(bundle, request, source).release # Absent
    BY <1>1, ErrorOfLoad DEF MountOf, States
  <2> QED BY <1>1, <2>1, AddIsSound DEF MountInto
<1>2. CASE MountError(bundle, request, source) # ""
  <2>1. MountInto(g, bundle, request, source) =
          [mounts |-> g.mounts, active |-> g.active, failed |-> Append(g.failed, MountError(bundle, request, source))]
    BY <1>2 DEF MountInto, Sound
  <2> QED BY <2>1 DEF Sound
<1> QED BY <1>1, <1>2

\* What from() has after each request.
IsMounting(requests, disk, source, f) ==
    f = [i \in 0..Len(requests) |->
            IF i = 0 THEN NoRegistry ELSE MountInto(f[i - 1], disk[requests[i].path], requests[i], source)]
After(requests, disk, source) == CHOOSE f : IsMounting(requests, disk, source, f)

LEMMA FromIs == \A requests, disk, source :
    From(requests, disk, source) = After(requests, disk, source)[Len(requests)]
BY DEF From, After, IsMounting

LEMMA MountingExists ==
    ASSUME NEW requests, Len(requests) \in Nat, NEW disk, NEW source
    PROVE  \E f : IsMounting(requests, disk, source, f)
<1> DEFINE Next1(g, i) == MountInto(g, disk[requests[i].path], requests[i], source)
           Upto(f, n) == f = [i \in 0..n |-> IF i = 0 THEN NoRegistry ELSE Next1(f[i - 1], i)]
           S == {n \in Nat : \E f : Upto(f, n)}
<1> HIDE DEF Next1
<1>1. 0 \in S
  <2> DEFINE f == [i \in 0..0 |-> NoRegistry]
  <2>1. Upto(f, 0)
    OBVIOUS
  <2> QED BY <2>1
<1>2. ASSUME NEW n \in Nat, n \in S PROVE n + 1 \in S
  <2>1. PICK g : Upto(g, n)
    BY <1>2
  <2> DEFINE new == Next1(g[n], n + 1)
             f == [i \in 0..(n + 1) |-> IF i = n + 1 THEN new ELSE g[i]]
  <2>2. ASSUME NEW i \in 0..(n + 1)
        PROVE  f[i] = IF i = 0 THEN NoRegistry ELSE Next1(f[i - 1], i)
    <3>1. CASE i = n + 1
      <4>1. i # 0 /\ i - 1 = n /\ n \in 0..(n + 1) /\ n # n + 1
        BY <3>1
      <4>2. f[i] = new /\ f[i - 1] = g[n]
        BY <3>1, <4>1
      <4> HIDE DEF f
      <4> QED BY <3>1, <4>1, <4>2
    <3>2. CASE i # n + 1
      <4>1. i \in 0..n /\ f[i] = g[i]
        BY <3>2
      <4>2. i # 0 => i - 1 \in 0..(n + 1) /\ i - 1 # n + 1
        BY <4>1
      <4>3. i # 0 => f[i - 1] = g[i - 1]
        BY <4>2
      <4>4. g[i] = IF i = 0 THEN NoRegistry ELSE Next1(g[i - 1], i)
        BY <2>1, <4>1
      <4> HIDE DEF f
      <4> QED BY <4>1, <4>3, <4>4
    <3> QED BY <3>1, <3>2
  <2>3. f = [i \in 0..(n + 1) |-> f[i]]
    OBVIOUS
  <2> HIDE DEF f
  <2>4. Upto(f, n + 1)
    BY <2>2, <2>3
  <2> QED BY <2>4
<1> HIDE DEF S
<1>3. Len(requests) \in S
  BY <1>1, <1>2, Induction
<1> QED BY <1>3 DEF S, Next1, IsMounting

\* A registry is sound whatever it was built from.
LEMMA FromIsSound ==
    ASSUME NEW P, NEW B, NEW R, NEW disk \in [P -> B], NEW requests \in Seq(R), NEW source,
           \A bundle \in B : \A request \in R : States(bundle, request),
           \A request \in R : request.path \in P
    PROVE  Sound(From(requests, disk, source))
<1> DEFINE f == After(requests, disk, source)
<1>1. Len(requests) \in Nat
  OBVIOUS
<1>2. IsMounting(requests, disk, source, f)
  BY <1>1, MountingExists DEF After
<1> HIDE DEF f
<1>3. f[0] = NoRegistry /\ \A i \in 1..Len(requests) :
        f[i] = MountInto(f[i - 1], disk[requests[i].path], requests[i], source)
  BY <1>1, <1>2 DEF IsMounting
<1> DEFINE S == {n \in Nat : n <= Len(requests) => Sound(f[n])}
<1>4. 0 \in S
  BY <1>3, NothingIsSound
<1>5. ASSUME NEW n \in Nat, n \in S PROVE n + 1 \in S
  <2> SUFFICES ASSUME n + 1 <= Len(requests) PROVE Sound(f[n + 1])
    OBVIOUS
  <2>1. n + 1 \in 1..Len(requests) /\ n + 1 - 1 = n /\ Sound(f[n])
    BY <1>1, <1>5
  <2>2. requests[n + 1] \in R /\ requests[n + 1].path \in P
    BY <2>1
  <2>3. States(disk[requests[n + 1].path], requests[n + 1])
    BY <2>2
  <2>4. f[n + 1] = MountInto(f[n], disk[requests[n + 1].path], requests[n + 1], source)
    BY <1>3, <2>1
  <2> QED BY <2>1, <2>3, <2>4, MountIntoIsSound
<1> HIDE DEF S
<1>6. Len(requests) \in S
  BY <1>1, <1>4, <1>5, Induction
<1>7. Sound(f[Len(requests)])
  BY <1>1, <1>6 DEF S
<1> QED BY <1>7, FromIs DEF f

-----------------------------------------------------------------------------
(* The log of switches *)

IsLog(l) == \E S : l \in Seq(S)

LEMMA JoinIs ==
    ASSUME NEW l, IsLog(l), NEW m, IsLog(m)
    PROVE  /\ IsLog(l \o m) /\ Len(l) \in Nat /\ Len(m) \in Nat /\ Len(l \o m) = Len(l) + Len(m)
           /\ DOMAIN l = 1..Len(l) /\ DOMAIN m = 1..Len(m) /\ DOMAIN (l \o m) = 1..(Len(l) + Len(m))
           /\ \A i \in 1..(Len(l) + Len(m)) : (l \o m)[i] = IF i <= Len(l) THEN l[i] ELSE m[i - Len(l)]
<1>1. PICK S, T : l \in Seq(S) /\ m \in Seq(T)
  BY DEF IsLog
<1>2. l \in Seq(S \cup T) /\ m \in Seq(S \cup T)
  BY <1>1
<1>3. l \o m \in Seq(S \cup T)
  BY <1>2
<1> QED BY <1>2, <1>3, ConcatProperties DEF IsLog

\* A set in some order.
LEMMA InOrder ==
    ASSUME NEW S, IsFiniteSet(S)
    PROVE  /\ SetToSeq(S) \in [1..Cardinality(S) -> S] /\ Cardinality(S) \in Nat
           /\ \A i, j \in 1..Cardinality(S) : SetToSeq(S)[i] = SetToSeq(S)[j] => i = j
           /\ \A x \in S : \E i \in 1..Cardinality(S) : SetToSeq(S)[i] = x
<1> DEFINE n == Cardinality(S)
           f == SetToSeq(S)
<1>1. n \in Nat /\ ExistsBijection(1..n, S)
  BY FS_CardinalityType
<1>2. \E g \in [1..n -> S] : IsInjective(g)
  BY <1>1 DEF ExistsBijection, Bijection, Injection, IsInjective
<1>3. f \in [1..n -> S] /\ IsInjective(f)
  BY <1>2 DEF SetToSeq
<1> HIDE DEF f
<1>4. \A i, j \in 1..n : f[i] = f[j] => i = j
  BY <1>3 DEF IsInjective
<1> DEFINE image == {f[i] : i \in 1..n}
<1>5. IsFiniteSet(1..n) /\ Cardinality(1..n) = n
  BY <1>1, FS_Interval
<1>6. f \in Bijection(1..n, image)
  BY <1>3, <1>4 DEF Bijection, Injection, IsInjective, Surjection
<1>7. Cardinality(image) = n
  BY <1>5, <1>6, FS_Bijection DEF ExistsBijection
<1>8. image = S
  BY <1>3, <1>7, FS_Subset
<1> QED BY <1>1, <1>3, <1>4, <1>8 DEF f

\* What one change of the registry adds to the log: one entry for each namespace switched.
LEMMA LogOfIs ==
    ASSUME NEW g, NEW h, IsFiniteSet(DOMAIN h.active)
    PROVE  /\ IsLog(LogOf(g, h))
           /\ \A i \in 1..Len(LogOf(g, h)) : LET e == LogOf(g, h)[i]
                                             IN e.namespace \in Activations(g, h) /\ e = Entry(g, h, e.namespace)
           /\ \A i, j \in 1..Len(LogOf(g, h)) :
                 LogOf(g, h)[i].namespace = LogOf(g, h)[j].namespace => i = j
           /\ \A n \in Activations(g, h) : \E i \in 1..Len(LogOf(g, h)) : LogOf(g, h)[i].namespace = n
<1> DEFINE A == Activations(g, h)
           order == SetToSeq(A)
           k == Cardinality(A)
           l == [i \in DOMAIN order |-> Entry(g, h, order[i])]
<1>1. IsFiniteSet(A)
  BY FS_Subset DEF Activations
<1>2. /\ order \in [1..k -> A] /\ k \in Nat
      /\ \A i, j \in 1..k : order[i] = order[j] => i = j
      /\ \A x \in A : \E i \in 1..k : order[i] = x
  BY <1>1, InOrder
<1>3. LogOf(g, h) = l
  BY DEF LogOf
<1> HIDE DEF A, order, k
<1>4. /\ l \in [1..k -> {Entry(g, h, n) : n \in A}]
      /\ \A i \in 1..k : l[i] = Entry(g, h, order[i])
  BY <1>2
<1> HIDE DEF l
<1>5. l \in Seq({Entry(g, h, n) : n \in A}) /\ Len(l) = k
  BY <1>2, <1>4
<1>6. \A n : Entry(g, h, n).namespace = n
  BY DEF Entry
<1>7. \A i \in 1..k : l[i].namespace = order[i] /\ order[i] \in A
  BY <1>2, <1>4, <1>6
<1>8. IsLog(l)
  BY <1>5 DEF IsLog
<1>9. \A i \in 1..k : l[i].namespace \in A /\ l[i] = Entry(g, h, l[i].namespace)
  BY <1>4, <1>7
<1>10. \A i, j \in 1..k : l[i].namespace = l[j].namespace => i = j
  BY <1>2, <1>7
<1>11. \A n \in A : \E i \in 1..k : l[i].namespace = n
  BY <1>2, <1>7
<1> QED BY <1>3, <1>5, <1>8, <1>9, <1>10, <1>11 DEF A

\* The changes of each namespace form one chain that ends at what is active.
Chained(l, active) ==
    /\ IsLog(l)
    /\ \A i \in DOMAIN l : l[i].namespace \in DOMAIN active
    /\ \A n \in DOMAIN active :
          \E j \in DOMAIN l : IsLast(l, Len(l) + 1, n, j) /\ l[j].release = active[n]
    /\ \A i \in DOMAIN l : Follows(l, i)

\* What each entry names is mounted, as it was then.
Recorded(l, g) ==
    \A i \in DOMAIN l : LET key == <<l[i].namespace, l[i].release>>
                        IN /\ l[i].release # Absent
                           /\ key \in DOMAIN g.mounts /\ g.mounts[key] = l[i].mount

LEMMA NothingIsChained ==
    Chained(<< >>, NoRegistry.active) /\ \A g : Recorded(<< >>, g)
<1>1. DOMAIN << >> = {} /\ << >> \in Seq({})
  OBVIOUS
<1>2. NoRegistry.active = << >>
  BY DEF NoRegistry
<1> QED BY <1>1, <1>2 DEF Chained, Recorded, IsLog

LEMMA SoundIsReleased ==
    ASSUME NEW g, Sound(g), NEW n \in DOMAIN g.active
    PROVE  <<n, g.active[n]>> \in DOMAIN g.mounts /\ g.active[n] # Absent
  BY DEF Sound

LEMMA RecordGrows ==
    ASSUME NEW g, NEW h, Sound(h), Grows(g, h), NEW l, IsLog(l), Recorded(l, g)
    PROVE  Recorded(l \o LogOf(g, h), h)
<1> DEFINE m == LogOf(g, h)
           p == Len(l)
<1>1. IsFiniteSet(DOMAIN h.active)
  BY DEF Sound
<1>2. IsLog(m) /\ \A i \in 1..Len(m) : m[i].namespace \in Activations(g, h) /\ m[i] = Entry(g, h, m[i].namespace)
  BY <1>1, LogOfIs
<1> HIDE DEF m
<1>3. /\ p \in Nat /\ Len(m) \in Nat /\ DOMAIN l = 1..p /\ DOMAIN (l \o m) = 1..(p + Len(m))
      /\ \A i \in 1..(p + Len(m)) : (l \o m)[i] = IF i <= p THEN l[i] ELSE m[i - p]
  BY <1>2, JoinIs
<1> SUFFICES ASSUME NEW i \in 1..(p + Len(m))
             PROVE  LET e == (l \o m)[i]
                    IN /\ e.release # Absent /\ <<e.namespace, e.release>> \in DOMAIN h.mounts
                       /\ h.mounts[<<e.namespace, e.release>>] = e.mount
  BY <1>3 DEF Recorded, m
<1>4. CASE i <= p
  <2>1. i \in DOMAIN l /\ (l \o m)[i] = l[i]
    BY <1>3, <1>4
  <2> QED BY <2>1 DEF Recorded, Grows
<1>5. CASE ~(i <= p)
  <2>1. i - p \in 1..Len(m) /\ (l \o m)[i] = m[i - p]
    BY <1>3, <1>5
  <2> DEFINE n == m[i - p].namespace
  <2>2. n \in Activations(g, h) /\ m[i - p] = Entry(g, h, n)
    BY <1>2, <2>1
  <2> HIDE DEF n
  <2>3. n \in DOMAIN h.active
    BY <2>2 DEF Activations
  <2>4. /\ Entry(g, h, n).namespace = n /\ Entry(g, h, n).release = h.active[n]
        /\ Entry(g, h, n).mount = h.mounts[<<n, h.active[n]>>]
    BY DEF Entry
  <2> QED BY <2>1, <2>2, <2>3, <2>4, SoundIsReleased
<1> QED BY <1>4, <1>5

LEMMA ChainGrows ==
    ASSUME NEW g, NEW h, Sound(g), Sound(h), Grows(g, h), NEW l, Chained(l, g.active)
    PROVE  Chained(l \o LogOf(g, h), h.active)
<1> DEFINE m == LogOf(g, h)
           t == l \o m
           p == Len(l)
           q == Len(m)
           A == Activations(g, h)
<1>1. IsFiniteSet(DOMAIN h.active) /\ IsLog(l)
  BY DEF Sound, Chained
<1>2. /\ IsLog(m)
      /\ \A i \in 1..q : m[i].namespace \in A /\ m[i] = Entry(g, h, m[i].namespace)
      /\ \A i, j \in 1..q : m[i].namespace = m[j].namespace => i = j
      /\ \A n \in A : \E i \in 1..q : m[i].namespace = n
  BY <1>1, LogOfIs
<1> HIDE DEF m
<1>3. /\ IsLog(t) /\ p \in Nat /\ q \in Nat /\ Len(t) = p + q /\ DOMAIN l = 1..p /\ DOMAIN t = 1..(p + q)
      /\ \A i \in 1..(p + q) : t[i] = IF i <= p THEN l[i] ELSE m[i - p]
  BY <1>1, <1>2, JoinIs
<1> HIDE DEF t, p, q
<1>4. \A i \in 1..p : t[i] = l[i] /\ i \in DOMAIN t
  BY <1>3
<1>5. \A i \in 1..q : t[p + i] = m[i] /\ p + i \in DOMAIN t
  <2> SUFFICES ASSUME NEW i \in 1..q PROVE t[p + i] = m[i] /\ p + i \in DOMAIN t
    OBVIOUS
  <2>1. p + i \in 1..(p + q) /\ ~(p + i <= p) /\ p + i - p = i
    BY <1>3
  <2> QED BY <1>3, <2>1
<1>6. \A i \in DOMAIN t : i \in 1..p \/ \E j \in 1..q : i = p + j
  <2> SUFFICES ASSUME NEW i \in 1..(p + q), ~(i \in 1..p) PROVE i - p \in 1..q /\ i = p + (i - p)
    BY <1>3
  <2> QED BY <1>3
<1>7. A = {n \in DOMAIN h.active : ActiveRelease(g, n) # h.active[n]}
  BY DEF Activations
<1> HIDE DEF A
<1>8. /\ \A n : n \notin DOMAIN g.active => ActiveRelease(g, n) = Absent
      /\ \A n \in DOMAIN g.active : ActiveRelease(g, n) = g.active[n]
  BY DEF ActiveRelease
\* An entry of a namespace that is switched is the only new one of it.
<1>9. \A i \in 1..q : \A k \in (p + 1)..(p + q) : k # p + i => t[k].namespace # m[i].namespace
  <2> SUFFICES ASSUME NEW i \in 1..q, NEW k \in (p + 1)..(p + q), k # p + i
               PROVE  t[k].namespace # m[i].namespace
    OBVIOUS
  <2>1. k - p \in 1..q /\ k - p # i /\ p + (k - p) = k
    BY <1>3
  <2>2. t[k] = m[k - p]
    BY <1>5, <2>1
  <2> QED BY <1>2, <2>1, <2>2
\* The last entry of a namespace in the old log is the last before any new position, of its namespace.
<1>10. ASSUME NEW n, NEW j, IsLast(l, p + 1, n, j), NEW i \in (p + 1)..(p + q + 1),
              \A k \in (p + 1)..(i - 1) : t[k].namespace # n
       PROVE  IsLast(t, i, n, j) /\ j \in 1..p /\ t[j] = l[j]
  <2>1. j \in 1..p /\ l[j].namespace = n /\ \A k \in (j + 1)..p : l[k].namespace # n
    <3>1. (p + 1) - 1 = p
      BY <1>3
    <3>2. /\ j \in 1..((p + 1) - 1) /\ l[j].namespace = n
          /\ \A k \in (j + 1)..((p + 1) - 1) : l[k].namespace # n
      BY <1>10, Zenon DEF IsLast
    <3> QED BY <3>1, <3>2, Zenon
  <2>2. t[j] = l[j] /\ j \in 1..(i - 1)
    BY <1>3, <1>4, <2>1
  <2>3. ASSUME NEW k \in (j + 1)..(i - 1) PROVE t[k].namespace # n
    <3>1. CASE k <= p
      <4>1. k \in 1..p /\ k \in (j + 1)..p
        BY <1>3, <2>1, <3>1
      <4> QED BY <1>4, <2>1, <4>1
    <3>2. CASE ~(k <= p)
      <4>1. k \in (p + 1)..(i - 1)
        BY <1>3, <2>1, <3>2
      <4> QED BY <1>10, <4>1
    <3> QED BY <3>1, <3>2
  <2> QED BY <2>1, <2>2, <2>3 DEF IsLast
<1>11. ASSUME NEW i \in DOMAIN t PROVE t[i].namespace \in DOMAIN h.active
  <2>1. CASE i \in 1..p
    BY <1>3, <1>4, <2>1 DEF Chained, Grows
  <2>2. CASE \E j \in 1..q : i = p + j
    BY <1>2, <1>5, <1>7, <2>2
  <2> QED BY <1>6, <2>1, <2>2
<1>12. ASSUME NEW n \in DOMAIN h.active
       PROVE  \E j \in DOMAIN t : IsLast(t, Len(t) + 1, n, j) /\ t[j].release = h.active[n]
  <2>1. CASE n \in A
    <3>1. PICK i \in 1..q : m[i].namespace = n
      BY <1>2, <2>1
    <3>2. t[p + i] = m[i] /\ p + i \in DOMAIN t
      BY <1>5
    <3>3. t[p + i].release = h.active[n]
      <4>1. m[i] = Entry(g, h, n)
        BY <1>2, <3>1
      <4> QED BY <3>2, <4>1 DEF Entry
    <3>4. p + i \in 1..((Len(t) + 1) - 1) /\ (Len(t) + 1) - 1 = p + q
      BY <1>3, <3>2
    <3>5. ASSUME NEW k \in (p + i + 1)..(p + q) PROVE t[k].namespace # n
      <4>1. k \in (p + 1)..(p + q) /\ k # p + i
        BY <1>3
      <4> QED BY <1>9, <3>1, <4>1
    <3>6. IsLast(t, Len(t) + 1, n, p + i)
      BY <3>1, <3>2, <3>4, <3>5 DEF IsLast
    <3> QED BY <3>2, <3>3, <3>6
  <2>2. CASE n \notin A
    <3>1. ActiveRelease(g, n) = h.active[n] /\ h.active[n] # Absent
      BY <1>7, <2>2, SoundIsReleased
    <3>2. n \in DOMAIN g.active /\ g.active[n] = h.active[n]
      BY <1>8, <3>1
    <3>3. PICK j \in DOMAIN l : IsLast(l, p + 1, n, j) /\ l[j].release = g.active[n]
      BY <3>2 DEF Chained, p
    <3>4. ASSUME NEW k \in (p + 1)..(p + q) PROVE t[k].namespace # n
      <4>1. k - p \in 1..q /\ p + (k - p) = k
        BY <1>3
      <4>2. t[k] = m[k - p]
        BY <1>5, <4>1
      <4> QED BY <1>2, <2>2, <4>1, <4>2
    <3>5. p + q + 1 \in (p + 1)..(p + q + 1) /\ (p + q + 1) - 1 = p + q
      BY <1>3
    <3>6. IsLast(t, p + q + 1, n, j) /\ j \in 1..p /\ t[j] = l[j]
      <4>1. \A k \in (p + 1)..((p + q + 1) - 1) : t[k].namespace # n
        BY <3>4, <3>5, Zenon
      <4> QED BY <1>10, <3>3, <3>5, <4>1, Zenon
    <3> QED BY <1>3, <1>4, <3>2, <3>3, <3>6
  <2> QED BY <2>1, <2>2
<1>13. ASSUME NEW i \in DOMAIN t PROVE Follows(t, i)
  <2>1. CASE i \in 1..p
    <3>1. Follows(l, i) /\ t[i] = l[i] /\ \A j \in 1..(i - 1) : t[j] = l[j]
      <4>1. \A j \in 1..(i - 1) : j \in 1..p
        BY <1>3, <2>1
      <4> QED BY <1>3, <1>4, <2>1, <4>1 DEF Chained
    <3>2. ASSUME NEW n, NEW j, IsLast(l, i, n, j) PROVE IsLast(t, i, n, j) /\ j \in 1..(i - 1)
      <4>1. j \in 1..(i - 1) /\ \A k \in (j + 1)..(i - 1) : k \in 1..(i - 1)
        BY <1>3, <2>1, <3>2 DEF IsLast
      <4> QED BY <3>1, <3>2, <4>1 DEF IsLast
    <3> QED BY <3>1, <3>2 DEF Follows
  <2>2. CASE \E j \in 1..q : i = p + j
    <3>1. PICK j \in 1..q : i = p + j
      BY <2>2
    <3> DEFINE n == m[j].namespace
    <3>2. t[i] = m[j] /\ n \in A /\ m[j] = Entry(g, h, n)
      BY <1>2, <1>5, <3>1
    <3>3. t[i].previous = ActiveRelease(g, n) /\ t[i].namespace = n
      BY <3>2 DEF Entry
    <3>4. i \in (p + 1)..(p + q + 1) /\ \A k \in (p + 1)..(i - 1) : k \in (p + 1)..(p + q) /\ k # i
      BY <1>3, <3>1
    <3>5. \A k \in (p + 1)..(i - 1) : t[k].namespace # n
      BY <1>9, <3>1, <3>4
    <3> HIDE DEF n
    <3>6. CASE n \in DOMAIN g.active
      <4>1. PICK b \in DOMAIN l : IsLast(l, p + 1, n, b) /\ l[b].release = g.active[n]
        BY <3>6 DEF Chained, p
      <4>2. IsLast(t, i, n, b) /\ b \in 1..p /\ t[b] = l[b]
        BY <1>10, <3>4, <3>5, <4>1
      <4>3. b \in 1..(i - 1) /\ t[i].previous = t[b].release
        BY <1>8, <3>3, <3>6, <4>1, <4>2 DEF IsLast
      <4> QED BY <3>3, <4>2, <4>3 DEF Follows
    <3>7. CASE n \notin DOMAIN g.active
      <4>1. ASSUME NEW k \in 1..(i - 1) PROVE t[k].namespace # n
        <5>1. CASE k \in 1..p
          BY <1>3, <1>4, <3>7, <5>1 DEF Chained
        <5>2. CASE ~(k \in 1..p)
          <6>1. k \in (p + 1)..(i - 1)
            BY <1>3, <3>1, <5>2
          <6> QED BY <3>5, <6>1
        <5> QED BY <5>1, <5>2
      <4> QED BY <1>8, <3>3, <3>7, <4>1 DEF Follows
    <3> QED BY <3>6, <3>7
  <2> QED BY <1>6, <2>1, <2>2
<1> QED BY <1>3, <1>11, <1>12, <1>13 DEF Chained, t, m

-----------------------------------------------------------------------------
(* The server *)

\* What a call is, at each point of its life.
Lawful(c, l) ==
    /\ c = [request |-> c.request, at |-> c.at, answer |-> c.answer, span |-> c.span, principal |-> c.principal]
    /\ c.at \in {"body", "engine"} => c.span = "open" /\ c.principal # Absent
    /\ c.at = "engine" => c.request.path # "activate"
    /\ c.at = "done" /\ c.request.path # "healthz" =>
          c.span = "ended" /\ (c.principal = Absent => c.answer.status \in {401, 403})
    /\ c.at = "done" /\ c.request.path = "activate" /\ c.answer.status = 200 =>
          \/ c.answer.previous = c.request.release
          \/ \E i \in DOMAIN l : /\ l[i].namespace = c.request.namespace
                                /\ l[i].release = c.request.release
                                /\ l[i].previous = c.answer.previous

\* The invariant: nothing is served before the boot, and afterwards the log accounts for the registry.
Idle == registry = NoRegistry /\ log = << >> /\ \A q \in Calls : calls[q] = NoCall
Kept(P, B) ==
    /\ folders \in [P -> B]
    /\ Sound(registry) /\ Chained(log, registry.active) /\ Recorded(log, registry)
    /\ serving = Absent => Idle
    /\ serving # Absent => \A c \in serving.credentials : c.principal # Absent
    /\ calls = [q \in Calls |-> calls[q]]
    /\ \A q \in Calls : Lawful(calls[q], log)

LEMMA NewIsLawful == \A l : Lawful(NoCall, l)
  BY DEF Lawful, NoCall

LEMMA InitIsKept ==
    ASSUME NEW P, NEW B, NEW R, WellKept(P, B, R), ServerInit
    PROVE  Kept(P, B)
<1>1. folders \in [P -> B] /\ Idle /\ serving = Absent
  BY DEF ServerInit, WellKept, Idle
<1>2. Sound(registry) /\ Chained(log, registry.active) /\ Recorded(log, registry)
  BY <1>1, NothingIsSound, NothingIsChained DEF Idle
<1>3. calls = [q \in Calls |-> calls[q]]
  BY DEF ServerInit
<1>4. \A q \in Calls : Lawful(calls[q], log)
  BY <1>1, NewIsLawful DEF Idle
<1> QED BY <1>1, <1>2, <1>3, <1>4 DEF Kept

LEMMA JoinKeeps ==
    ASSUME NEW l, IsLog(l), NEW m, IsLog(m)
    PROVE  \A i \in DOMAIN l : i \in DOMAIN (l \o m) /\ (l \o m)[i] = l[i]
<1> DEFINE t == l \o m
           p == Len(l)
           k == Len(m)
<1>1. /\ p \in Nat /\ k \in Nat /\ DOMAIN l = 1..p /\ DOMAIN t = 1..(p + k)
      /\ \A i \in 1..(p + k) : t[i] = IF i <= p THEN l[i] ELSE m[i - p]
  BY JoinIs
<1> HIDE DEF t, p, k
<1>2. \A i \in 1..p : i \in 1..(p + k) /\ i <= p
  BY <1>1
<1>3. \A i \in DOMAIN l : i \in DOMAIN t /\ t[i] = l[i]
  BY <1>1, <1>2
<1> QED BY <1>3 DEF t

\* A log that grows keeps what it says of a call.
LEMMA LawStands ==
    ASSUME NEW c, NEW l, IsLog(l), Lawful(c, l), NEW m, IsLog(m)
    PROVE  Lawful(c, l \o m)
<1>1. \A i \in DOMAIN l : i \in DOMAIN (l \o m) /\ (l \o m)[i] = l[i]
  BY JoinKeeps
<1> QED BY <1>1 DEF Lawful

\* Any change of the registry that only grows it, with the log of it.
LEMMA HistoryGrows ==
    ASSUME NEW h, Sound(h), Grows(registry, h), Sound(registry),
           Chained(log, registry.active), Recorded(log, registry)
    PROVE  /\ Chained(log \o LogOf(registry, h), h.active) /\ Recorded(log \o LogOf(registry, h), h)
           /\ \A c : Lawful(c, log) => Lawful(c, log \o LogOf(registry, h))
<1>1. IsLog(log)
  BY DEF Chained
<1>2. IsFiniteSet(DOMAIN h.active)
  BY DEF Sound
<1>3. IsLog(LogOf(registry, h))
  BY <1>2, LogOfIs
<1> QED BY <1>1, <1>3, ChainGrows, RecordGrows, LawStands

\* A namespace that is switched has its entry.
LEMMA SwitchIsLogged ==
    ASSUME NEW l, IsLog(l), NEW g, NEW h, IsFiniteSet(DOMAIN h.active), NEW n \in DOMAIN h.active,
           ActiveRelease(g, n) # h.active[n]
    PROVE  \E i \in DOMAIN (l \o LogOf(g, h)) : (l \o LogOf(g, h))[i] = Entry(g, h, n)
<1> DEFINE m == LogOf(g, h)
           t == l \o m
           p == Len(l)
           k == Len(m)
<1>1. n \in Activations(g, h)
  BY DEF Activations
<1>2. PICK i \in 1..k : m[i].namespace = n
  BY <1>1, LogOfIs
<1>3. m[i] = Entry(g, h, n) /\ IsLog(m)
  BY <1>2, LogOfIs
<1> HIDE DEF m
<1>4. /\ p \in Nat /\ k \in Nat /\ DOMAIN t = 1..(p + k)
      /\ \A j \in 1..(p + k) : t[j] = IF j <= p THEN l[j] ELSE m[j - p]
  BY <1>3, JoinIs
<1> HIDE DEF t, p, k
<1>5. p + i \in 1..(p + k) /\ ~(p + i <= p) /\ (p + i) - p = i
  BY <1>2, <1>4
<1>6. p + i \in DOMAIN t /\ t[p + i] = Entry(g, h, n)
  BY <1>3, <1>4, <1>5
<1> QED BY <1>6 DEF t, m

LEMMA BootKeeps ==
    ASSUME NEW P, NEW B, NEW R, WellKept(P, B, R), Kept(P, B),
           NEW b \in Boots, Boot(b.requests, b.source, b.settings)
    PROVE  Kept(P, B)'
<1>1. Idle /\ registry = NoRegistry /\ log = << >>
  BY DEF Boot, Kept, Idle
<1>2. Sound(registry')
  <2>1. folders \in [P -> B] /\ b.requests \in Seq(R)
    BY DEF WellKept, Kept
  <2>2. /\ \A bundle \in B : \A request \in R : States(bundle, request)
        /\ \A request \in R : request.path \in P
    BY DEF WellKept
  <2>3. Sound(From(b.requests, folders, b.source))
    BY <2>1, <2>2, FromIsSound
  <2> QED BY <2>3 DEF Boot
<1>3. Grows(registry, registry')
  BY <1>1 DEF Grows, NoRegistry
<1>4. IsLog(LogOf(registry, registry'))
  BY <1>2, LogOfIs DEF Sound
<1>5. log' = log \o LogOf(registry, registry')
  <2>1. PICK S : LogOf(registry, registry') \in Seq(S)
    BY <1>4 DEF IsLog
  <2>2. << >> \o LogOf(registry, registry') = LogOf(registry, registry')
    BY <2>1
  <2> QED BY <1>1, <2>2 DEF Boot
<1>6. Chained(log, registry.active)' /\ Recorded(log, registry)'
  BY <1>2, <1>3, <1>5, HistoryGrows DEF Kept
<1>7. serving' # Absent /\ \A c \in serving'.credentials : c.principal # Absent
  BY DEF Boot, WellKept, CredentialsConfigure
<1>8. \A q \in Calls : Lawful(calls[q], log)'
  BY <1>1, NewIsLawful DEF Boot, Idle
<1>9. folders' \in [P -> B] /\ (calls = [q \in Calls |-> calls[q]])'
  BY DEF Boot, Kept
<1> QED BY <1>2, <1>6, <1>7, <1>8, <1>9 DEF Kept

LEMMA WriteKeeps ==
    ASSUME NEW P, NEW B, NEW R, WellKept(P, B, R), Kept(P, B),
           NEW path \in DOMAIN Bundles, NEW bundle \in Bundles[path], Write(path, bundle)
    PROVE  Kept(P, B)'
<1>1. bundle \in B /\ folders \in [P -> B]
  BY DEF WellKept, Kept
<1>2. folders' \in [P -> B]
  BY <1>1 DEF Write
<1>3. UNCHANGED <<registry, serving, calls, log>>
  BY DEF Write
<1> QED BY <1>2, <1>3 DEF Kept, Idle

\* A step that leaves the registry and the log alone, or grows the one and logs it in the other.
Advances ==
    \/ UNCHANGED <<registry, log>>
    \/ Sound(registry') /\ Grows(registry, registry') /\ log' = log \o LogOf(registry, registry')

LEMMA SwapAdvances ==
    ASSUME NEW P, NEW B, NEW R, WellKept(P, B, R), Kept(P, B),
           NEW request \in Swaps, Swap(request, "declaration")
    PROVE  Advances
<1> DEFINE bundle == folders[request.path]
           mount == MountOf(bundle, request, "declaration")
<1>1. CASE MountError(bundle, request, "declaration") = ""
  <2>1. registry' = Swapped(registry, mount) /\ log' = log \o LogOf(registry, registry')
    BY <1>1 DEF Swap
  <2>2. request \in R /\ request.path \in P /\ bundle \in B
    BY DEF WellKept, Kept
  <2>3. mount.release # Absent
    BY <1>1, <2>2, ErrorOfLoad DEF MountOf, WellKept, States
  <2> HIDE DEF mount, bundle
  <2>4. Sound(registry') /\ Grows(registry, registry')
    BY <2>1, <2>3, SwappedIsSound DEF Kept
  <2> QED BY <2>1, <2>4 DEF Advances
<1>2. CASE MountError(bundle, request, "declaration") # ""
  BY <1>2 DEF Swap, Advances
<1> QED BY <1>1, <1>2

LEMMA SwapKeeps ==
    ASSUME NEW P, NEW B, NEW R, WellKept(P, B, R), Kept(P, B),
           NEW request \in Swaps, Swap(request, "declaration")
    PROVE  Kept(P, B)'
<1>1. UNCHANGED <<folders, serving, calls>> /\ serving # Absent
  BY DEF Swap
<1>2. CASE UNCHANGED <<registry, log>>
  BY <1>1, <1>2 DEF Kept
<1>3. CASE /\ Sound(registry') /\ Grows(registry, registry')
           /\ log' = log \o LogOf(registry, registry')
  <2>1. /\ Chained(log, registry.active)' /\ Recorded(log, registry)'
        /\ \A c : Lawful(c, log) => Lawful(c, log')
    BY <1>3, HistoryGrows DEF Kept
  <2> QED BY <1>1, <1>3, <2>1 DEF Kept
<1> QED BY <1>2, <1>3, SwapAdvances DEF Advances

LEMMA ProbeKeeps ==
    ASSUME NEW P, NEW B, Kept(P, B), NEW q \in Calls, NEW r, Probe(q, r)
    PROVE  Kept(P, B)'
<1> DEFINE answer == [status |-> IF r.verb = "GET" THEN 200 ELSE 405, previous |-> Absent]
           new == [request |-> r, at |-> "done", answer |-> answer, span |-> "none", principal |-> Absent]
<1>1. UNCHANGED <<folders, registry, serving, log>> /\ serving # Absent
  BY DEF Probe
<1>2. r.path = "healthz" /\ calls' = [calls EXCEPT ![q] = new]
  BY DEF Probe
<1> HIDE DEF answer
<1>3. Lawful(new, log)
  BY <1>2 DEF Lawful
<1> HIDE DEF new
<1> QED BY <1>1, <1>2, <1>3 DEF Kept

LEMMA ReceiveKeeps ==
    ASSUME NEW P, NEW B, Kept(P, B), NEW q \in Calls, NEW r, Receive(q, r)
    PROVE  Kept(P, B)'
<1> DEFINE auth == Authenticated(serving, r.authorization)
           status == IF auth.status # 200 THEN auth.status ELSE RoutedAtOnce(r, auth.principal, serving.registry)
           new == [request |-> r, principal |-> auth.principal,
                   at |-> IF status # 0 THEN "done" ELSE IF r.path = "snapshot" THEN "engine" ELSE "body",
                   span |-> IF status # 0 THEN "ended" ELSE "open",
                   answer |-> IF status # 0 THEN [status |-> status, previous |-> Absent] ELSE Absent]
<1>1. UNCHANGED <<folders, registry, serving, log>> /\ serving # Absent
  BY DEF Receive
<1>2. calls' = [calls EXCEPT ![q] = new]
  BY DEF Receive
<1>3. \/ auth.status = 200 /\ auth.principal # Absent
      \/ auth.status \in {401, 403} /\ auth.principal = Absent
  BY <1>1 DEF Kept, Authenticated
<1>4. r.path = "activate" => RoutedAtOnce(r, auth.principal, serving.registry) \in {0, 404, 405}
  BY DEF RoutedAtOnce, Known, Registers
<1>5. /\ status = 0 => auth.principal # Absent
      /\ auth.principal # Absent \/ status \in {401, 403}
      /\ r.path = "activate" => status # 200
  BY <1>3, <1>4
<1> HIDE DEF auth, status
<1>6. Lawful(new, log)
  BY <1>5 DEF Lawful
<1> HIDE DEF new
<1> QED BY <1>1, <1>2, <1>6 DEF Kept

LEMMA EndedIs ==
    ASSUME NEW c, NEW answer, c.span = "open",
           c = [request |-> c.request, at |-> c.at, answer |-> c.answer, span |-> c.span, principal |-> c.principal]
    PROVE  Ended(c, answer) =
               [request |-> c.request, at |-> "done", answer |-> answer, span |-> "ended", principal |-> c.principal]
<1> DEFINE new == Ended(c, answer)
<1>1. DOMAIN c = {"request", "at", "answer", "span", "principal"}
  OBVIOUS
<1>2. new = [f \in DOMAIN new |-> new[f]] /\ DOMAIN new = DOMAIN c
  BY DEF Ended
<1>3. /\ new.request = c.request /\ new.at = "done" /\ new.answer = answer
      /\ new.span = "ended" /\ new.principal = c.principal
  BY <1>1 DEF Ended
<1> HIDE DEF new
<1>4. new = [f \in {"request", "at", "answer", "span", "principal"} |-> new[f]]
  BY <1>1, <1>2
<1>5. new = [request |-> new.request, at |-> new.at, answer |-> new.answer,
             span |-> new.span, principal |-> new.principal]
  BY <1>4
<1> QED BY <1>3, <1>5 DEF new

\* A call that is answered, ends its span.
LEMMA AnswerIs ==
    ASSUME NEW P, NEW B, Kept(P, B), NEW q \in Calls, NEW status, NEW release, Answer(q, status, release),
           calls[q].at \in {"body", "engine"}
    PROVE  calls' = [calls EXCEPT ![q] =
               [request |-> calls[q].request, at |-> "done", answer |-> [status |-> status, previous |-> release],
                span |-> "ended", principal |-> calls[q].principal]]
<1> DEFINE c == calls[q]
           answer == [status |-> status, previous |-> release]
<1>1. /\ c = [request |-> c.request, at |-> c.at, answer |-> c.answer, span |-> c.span, principal |-> c.principal]
      /\ c.span = "open"
  BY DEF Kept, Lawful
<1>2. calls' = [calls EXCEPT ![q] = Ended(c, answer)]
  BY DEF Answer
<1> HIDE DEF c, answer
<1>3. Ended(c, answer) =
        [request |-> c.request, at |-> "done", answer |-> answer, span |-> "ended", principal |-> c.principal]
  BY <1>1, EndedIs
<1> QED BY <1>2, <1>3 DEF c, answer

LEMMA EngineSettlesKeeps ==
    ASSUME NEW P, NEW B, Kept(P, B), NEW q \in Calls, NEW status, EngineSettles(q, status)
    PROVE  Kept(P, B)'
<1> DEFINE c == calls[q]
           new == [request |-> c.request, at |-> "done", answer |-> [status |-> status, previous |-> Absent],
                   span |-> "ended", principal |-> c.principal]
<1>1. UNCHANGED <<folders, registry, serving, log>> /\ c.at = "engine"
  BY DEF EngineSettles
<1>2. calls' = [calls EXCEPT ![q] = new]
  BY <1>1, AnswerIs DEF EngineSettles
<1>3. c.principal # Absent /\ c.request.path # "activate"
  BY <1>1 DEF Kept, Lawful
<1>4. serving # Absent
  BY <1>1 DEF Kept, Idle, NoCall
<1> HIDE DEF c
<1>5. Lawful(new, log)
  BY <1>3 DEF Lawful
<1> HIDE DEF new
<1> QED BY <1>1, <1>2, <1>4, <1>5 DEF Kept

LEMMA ReadBodyKeeps ==
    ASSUME NEW P, NEW B, Kept(P, B), NEW q \in Calls, ReadBody(q)
    PROVE  Kept(P, B)'
<1> DEFINE c == calls[q]
           r == c.request
           done(status, release) == [request |-> r, at |-> "done", answer |-> [status |-> status, previous |-> release],
                                     span |-> "ended", principal |-> c.principal]
<1>1. UNCHANGED <<folders, serving>> /\ c.at = "body"
  BY DEF ReadBody
<1>2. c.principal # Absent /\ c.span = "open" /\ Lawful(c, log)
  BY <1>1 DEF Kept, Lawful
<1>3. serving # Absent
  BY <1>1 DEF Kept, Idle, NoCall
<1>4. ASSUME NEW status, status # 200, Answer(q, status, Absent), UNCHANGED <<registry, log>>
      PROVE  Kept(P, B)'
  <2>1. calls' = [calls EXCEPT ![q] = done(status, Absent)]
    BY <1>1, <1>4, AnswerIs
  <2> HIDE DEF c
  <2>2. Lawful(done(status, Absent), log)
    BY <1>2, <1>4 DEF Lawful
  <2> HIDE DEF done
  <2> QED BY <1>1, <1>3, <1>4, <2>1, <2>2 DEF Kept
<1>5. CASE ~Accepted(r.body)
  <2>1. Answer(q, 400, Absent) /\ UNCHANGED <<registry, log>>
    BY <1>5 DEF ReadBody
  <2> QED BY <1>4, <2>1
<1>6. CASE Accepted(r.body) /\ r.path # "activate"
  <2> DEFINE new == [c EXCEPT !.at = "engine"]
  <2>1. calls' = [calls EXCEPT ![q] = new] /\ UNCHANGED <<registry, log>>
    BY <1>6 DEF ReadBody
  <2> HIDE DEF c
  <2>2. new = [request |-> r, at |-> "engine", answer |-> c.answer, span |-> c.span, principal |-> c.principal]
    BY <1>2 DEF Lawful
  <2> HIDE DEF new
  <2>3. Lawful(new, log)
    BY <1>2, <1>6, <2>2 DEF Lawful
  <2> QED BY <1>1, <1>3, <2>1, <2>3 DEF Kept
<1>7. CASE Accepted(r.body) /\ r.path = "activate" /\ ~CanActivate(registry, r.namespace, r.release)
  <2>1. Answer(q, 409, Absent) /\ UNCHANGED <<registry, log>>
    BY <1>7 DEF ReadBody
  <2> QED BY <1>4, <2>1
<1>8. CASE Accepted(r.body) /\ r.path = "activate" /\ CanActivate(registry, r.namespace, r.release)
  <2> DEFINE n == r.namespace
             previous == ActiveRelease(registry, n)
  <2>1. /\ registry' = Pointed(registry, n, r.release)
        /\ Answer(q, 200, previous)
        /\ log' = log \o LogOf(registry, registry')
    BY <1>8 DEF ReadBody
  <2>2. calls' = [calls EXCEPT ![q] = done(200, previous)]
    BY <1>1, <2>1, AnswerIs
  <2>3. <<n, r.release>> \in DOMAIN registry.mounts
    BY <1>8 DEF CanActivate
  <2> HIDE DEF c
  <2>4. /\ Sound(registry') /\ Grows(registry, registry')
        /\ n \in DOMAIN registry'.active /\ registry'.active[n] = r.release
    BY <2>1, <2>3, PointedIsSound DEF Kept
  <2>5. /\ Chained(log, registry.active)' /\ Recorded(log, registry)'
        /\ \A d : Lawful(d, log) => Lawful(d, log')
    BY <2>1, <2>4, HistoryGrows DEF Kept
  <2>6. \/ previous = r.release
        \/ \E i \in DOMAIN log' : log'[i] = Entry(registry, registry', n)
    <3>1. IsLog(log) /\ IsFiniteSet(DOMAIN registry'.active)
      BY <2>4 DEF Kept, Chained, Sound
    <3>2. CASE previous # registry'.active[n]
      BY <2>1, <2>4, <3>1, <3>2, SwitchIsLogged
    <3> QED BY <2>4, <3>2
  <2>7. \/ previous = r.release
        \/ \E i \in DOMAIN log' : /\ log'[i].namespace = n /\ log'[i].release = r.release
                                 /\ log'[i].previous = previous
    BY <2>4, <2>6 DEF Entry
  <2> HIDE DEF previous
  <2>8. Lawful(done(200, previous), log')
    BY <1>2, <2>7 DEF Lawful
  <2> HIDE DEF done
  <2> QED BY <1>1, <1>3, <2>2, <2>4, <2>5, <2>8 DEF Kept
<1> QED BY <1>5, <1>6, <1>7, <1>8

LEMMA ReadBodyAdvances ==
    ASSUME NEW P, NEW B, Kept(P, B), NEW q \in Calls, ReadBody(q)
    PROVE  Advances
<1> DEFINE r == calls[q].request
<1>1. CASE ~(Accepted(r.body) /\ r.path = "activate" /\ CanActivate(registry, r.namespace, r.release))
  BY <1>1 DEF ReadBody, Advances
<1>2. CASE Accepted(r.body) /\ r.path = "activate" /\ CanActivate(registry, r.namespace, r.release)
  <2>1. /\ registry' = Pointed(registry, r.namespace, r.release)
        /\ log' = log \o LogOf(registry, registry')
        /\ <<r.namespace, r.release>> \in DOMAIN registry.mounts
    BY <1>2 DEF ReadBody, CanActivate
  <2> HIDE DEF r
  <2>2. Sound(registry') /\ Grows(registry, registry')
    BY <2>1, PointedIsSound DEF Kept
  <2> QED BY <2>1, <2>2 DEF Advances
<1> QED BY <1>1, <1>2

\* What one step adds is all it changes.
Appended(l, m) == \A i \in DOMAIN l : i \in DOMAIN m /\ m[i] = l[i]
HistoryStands == Grows(registry, registry') /\ Appended(log, log')

LEMMA AdvancesStands ==
    ASSUME NEW P, NEW B, Kept(P, B), Advances
    PROVE  HistoryStands
<1>1. CASE UNCHANGED <<registry, log>>
  BY <1>1 DEF HistoryStands, Grows, Appended
<1>2. CASE /\ Sound(registry') /\ Grows(registry, registry')
           /\ log' = log \o LogOf(registry, registry')
  <2>1. IsLog(log) /\ IsLog(LogOf(registry, registry'))
    BY <1>2, LogOfIs DEF Kept, Chained, Sound
  <2>2. Appended(log, log')
    BY <1>2, <2>1, JoinKeeps DEF Appended
  <2> QED BY <1>2, <2>2 DEF HistoryStands
<1> QED BY <1>1, <1>2 DEF Advances

LEMMA NextStands ==
    ASSUME NEW P, NEW B, NEW R, WellKept(P, B, R), Kept(P, B), [ServerNext]_serverVars
    PROVE  HistoryStands
<1>1. CASE UNCHANGED <<registry, log>>
  BY <1>1 DEF HistoryStands, Grows, Appended
<1>2. CASE \E b \in Boots : Boot(b.requests, b.source, b.settings)
  <2>1. registry = NoRegistry /\ log = << >>
    BY <1>2 DEF Boot, Kept, Idle
  <2> QED BY <2>1 DEF NoRegistry, HistoryStands, Grows, Appended
<1>3. CASE \E request \in Swaps : Swap(request, "declaration")
  BY <1>3, SwapAdvances, AdvancesStands
<1>4. CASE \E q \in Calls : ReadBody(q)
  BY <1>4, ReadBodyAdvances, AdvancesStands
<1> QED BY <1>1, <1>2, <1>3, <1>4 DEF ServerNext, serverVars, Write, Probe, Receive, EngineSettles

LEMMA NextKeeps ==
    ASSUME NEW P, NEW B, NEW R, WellKept(P, B, R), Kept(P, B), [ServerNext]_serverVars
    PROVE  Kept(P, B)'
<1>1. CASE UNCHANGED serverVars
  BY <1>1 DEF serverVars, Kept, Idle
<1>2. CASE \E b \in Boots : Boot(b.requests, b.source, b.settings)
  BY <1>2, BootKeeps
<1>3. CASE \E path \in DOMAIN Bundles : \E bundle \in Bundles[path] : Write(path, bundle)
  BY <1>3, WriteKeeps
<1>4. CASE \E request \in Swaps : Swap(request, "declaration")
  BY <1>4, SwapKeeps
<1>5. CASE \E q \in Calls : \E r \in HttpRequests[q] : Probe(q, r) \/ Receive(q, r)
  BY <1>5, ProbeKeeps, ReceiveKeeps
<1>6. CASE \E q \in Calls : ReadBody(q) \/ \E status \in {200, 400, 500} : EngineSettles(q, status)
  BY <1>6, ReadBodyKeeps, EngineSettlesKeeps
<1> QED BY <1>1, <1>2, <1>3, <1>4, <1>5, <1>6 DEF ServerNext

\* What was active is still mounted, with what was mounted then.
LEMMA KeptReplays ==
    ASSUME NEW P, NEW B, Kept(P, B)
    PROVE  ReplaysWhatItServed
<1> SUFFICES ASSUME NEW i \in DOMAIN log
             PROVE  Resolve(registry, log[i].namespace, log[i].release) = <<log[i].mount>>
  BY DEF ReplaysWhatItServed
<1> DEFINE e == log[i]
<1>1. /\ e.release # Absent /\ <<e.namespace, e.release>> \in DOMAIN registry.mounts
      /\ registry.mounts[<<e.namespace, e.release>>] = e.mount
  BY DEF Kept, Recorded
<1> HIDE DEF e
<1>2. Resolve(registry, e.namespace, e.release) = <<e.mount>>
  BY <1>1 DEF Resolve
<1> QED BY <1>2 DEF e

LEMMA KeptServesItsHistory ==
    ASSUME NEW P, NEW B, Kept(P, B)
    PROVE  ServesItsHistory
<1>1. ReplaysWhatItServed
  BY KeptReplays
<1>2. SwitchesChain
  BY DEF SwitchesChain, Kept, Chained, Lawful
<1>3. CallsAreTraced
  BY DEF CallsAreTraced, Kept, Lawful
<1> QED BY <1>1, <1>2, <1>3 DEF ServesItsHistory

\* The registry and the log of what was served never come apart, however bundles are overwritten under
\* the process, releases are swapped and the bodies of activations are delayed: whatever was active can
\* still be resolved, with the snapshot it had then (CorpusRegistry.add, swap); the changes of each
\* namespace are one chain from nothing to what is active, and an answer to an activation names the
\* release it displaced (switchRelease, handler.ts route); a span is ended once, and who is not
\* recognised is told 401 or 403 (createRequestHandler).
THEOREM HistoryIsServed ==
    ASSUME NEW CONSTANT P, NEW CONSTANT B, NEW CONSTANT R, WellKept(P, B, R)
    PROVE  ServerSpec => []ServesItsHistory
<1>1. ServerInit => Kept(P, B)
  BY InitIsKept
<1>2. Kept(P, B) /\ [ServerNext]_serverVars => Kept(P, B)'
  BY NextKeeps
<1>3. Kept(P, B) => ServesItsHistory
  BY KeptServesItsHistory
<1> QED BY <1>1, <1>2, <1>3, PTL DEF ServerSpec

\* No step takes back what was served: a mount is never replaced or dropped, no namespace loses its
\* active release, and the log is only added to (corpus.ts add, swap, switchRelease).
THEOREM HistoryIsAppended ==
    ASSUME NEW CONSTANT P, NEW CONSTANT B, NEW CONSTANT R, WellKept(P, B, R)
    PROVE  ServerSpec => [][HistoryStands]_serverVars
<1>1. ServerInit => Kept(P, B)
  BY InitIsKept
<1>2. Kept(P, B) /\ [ServerNext]_serverVars => Kept(P, B)'
  BY NextKeeps
<1>3. Kept(P, B) /\ [ServerNext]_serverVars => [HistoryStands]_serverVars
  BY NextStands
<1> QED BY <1>1, <1>2, <1>3, PTL DEF ServerSpec
=============================================================================
