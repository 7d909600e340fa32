-------------------------- MODULE EventStoreProofs --------------------------
(***************************************************************************)
(* Proofs about EventStore, for any number of processes, scopes, runs and  *)
(* tuples, and without a bound on lines or faults.                         *)
(*                                                                         *)
(* load() is a loop over the lines of the file: After(lines) is what it    *)
(* has after each of them, and the lemmas about it say what a line more,   *)
(* or one that no longer parses, does to what is read.                     *)
(***************************************************************************)
EXTENDS EventStore, InductionTheorems, FiniteSetTheorems, SequenceTheorems, TLAPS

-----------------------------------------------------------------------------
(* Reading the file *)

Numbered == [n : Nat \ {0}, what : Entries]
Content  == [rows : [Streams -> Seq(Numbered)], owner : [Tuples -> Owner \cup {None}]]
Line     == Row \cup Idem \cup {Garbage}

\* The rows of one sequence are all among those of another.
Keeps(rows, more) == \A i \in DOMAIN rows : \E j \in DOMAIN more : more[j] = rows[i]
Has(rows, row) == \E j \in DOMAIN rows : rows[j] = row

\* Placing a row drops none, and appends it when its number is the last.
LEMMA PlacedIs ==
    ASSUME NEW rows \in Seq(Numbered), NEW row \in Numbered
    PROVE  /\ Placed(rows, row) \in Seq(Numbered)
           /\ Keeps(rows, Placed(rows, row)) /\ Has(Placed(rows, row), row)
           /\ (\A i \in DOMAIN rows : rows[i].n <= row.n) => Placed(rows, row) = Append(rows, row)
<1> DEFINE early == {i \in DOMAIN rows : rows[i].n <= row.n}
           k == Cardinality(early)
           first == SubSeq(rows, 1, k)
           rest  == SubSeq(rows, k + 1, Len(rows))
<1>1. DOMAIN rows = 1..Len(rows) /\ Len(rows) \in Nat
  OBVIOUS
<1>2. IsFiniteSet(1..Len(rows)) /\ Cardinality(1..Len(rows)) = Len(rows)
  BY <1>1, FS_Interval
<1>3. early \subseteq 1..Len(rows)
  BY <1>1
<1>4. k \in Nat /\ k <= Len(rows)
  BY <1>1, <1>2, <1>3, FS_Subset, FS_CardinalityType
<1>5. ASSUME \A i \in DOMAIN rows : rows[i].n <= row.n PROVE k = Len(rows)
  <2>1. early = 1..Len(rows)
    BY <1>1, <1>5
  <2> QED BY <1>2, <2>1
<1>6. Placed(rows, row) = first \o <<row>> \o rest
  BY DEF Placed
<1> HIDE DEF k
<1>7. /\ first \in Seq(Numbered) /\ Len(first) = k /\ \A i \in 1..k : first[i] = rows[i]
  BY <1>1, <1>4
<1>8. /\ rest \in Seq(Numbered) /\ Len(rest) = Len(rows) - k
      /\ \A i \in 1..(Len(rows) - k) : rest[i] = rows[k + i]
  <2>1. k + 1 \in 1..(Len(rows) + 1) /\ Len(rows) \in k..Len(rows)
    BY <1>1, <1>4
  <2>2. /\ rest \in Seq(Numbered)
        /\ Len(rest) = IF k + 1 <= Len(rows) THEN Len(rows) - (k + 1) + 1 ELSE 0
        /\ \A i \in 1..(Len(rows) - (k + 1) + 1) : rest[i] = rows[k + 1 + i - 1]
    BY <1>1, <2>1, SubSeqProperties
  <2> HIDE DEF rest
  <2>3. Len(rest) = Len(rows) - k
    BY <1>1, <1>4, <2>2
  <2>4. ASSUME NEW i \in 1..(Len(rows) - k) PROVE rest[i] = rows[k + i]
    <3>1. i \in 1..(Len(rows) - (k + 1) + 1) /\ k + 1 + i - 1 = k + i
      BY <1>1, <1>4
    <3> QED BY <2>2, <3>1
  <2> QED BY <2>2, <2>3, <2>4
<1> HIDE DEF first, rest
<1> DEFINE begun == first \o <<row>>
<1>9. /\ begun \in Seq(Numbered) /\ Len(begun) = k + 1 /\ begun[k + 1] = row
      /\ \A i \in 1..k : begun[i] = rows[i]
  BY <1>4, <1>7
<1> HIDE DEF begun
<1>10. Placed(rows, row) = begun \o rest
  BY <1>6 DEF begun
<1>11. /\ begun \o rest \in Seq(Numbered) /\ Len(begun \o rest) = Len(rows) + 1
       /\ (begun \o rest)[k + 1] = row
       /\ \A i \in 1..k : (begun \o rest)[i] = rows[i]
       /\ \A i \in 1..(Len(rows) - k) : (begun \o rest)[k + 1 + i] = rows[k + i]
  <2>1. /\ begun \o rest \in Seq(Numbered) /\ Len(begun \o rest) = Len(begun) + Len(rest)
        /\ \A i \in 1..(Len(begun) + Len(rest)) :
              (begun \o rest)[i] = IF i <= Len(begun) THEN begun[i] ELSE rest[i - Len(begun)]
    BY <1>8, <1>9, ConcatProperties
  <2>2. Len(begun) = k + 1 /\ Len(rest) = Len(rows) - k /\ Len(begun) + Len(rest) = Len(rows) + 1
    BY <1>1, <1>4, <1>8, <1>9
  <2>3. \A i \in 1..(Len(rows) + 1) :
           (begun \o rest)[i] = IF i <= k + 1 THEN begun[i] ELSE rest[i - (k + 1)]
    BY <2>1, <2>2
  <2>4. (begun \o rest)[k + 1] = row
    BY <1>1, <1>4, <1>9, <2>3
  <2>5. ASSUME NEW i \in 1..k PROVE (begun \o rest)[i] = rows[i]
    <3>1. i \in 1..(Len(rows) + 1) /\ i <= k + 1
      BY <1>1, <1>4
    <3> QED BY <1>9, <2>3, <3>1
  <2>6. ASSUME NEW i \in 1..(Len(rows) - k) PROVE (begun \o rest)[k + 1 + i] = rows[k + i]
    <3> DEFINE j == k + 1 + i
    <3>1. j \in 1..(Len(rows) + 1) /\ ~(j <= k + 1) /\ j - (k + 1) = i
      BY <1>1, <1>4
    <3> HIDE DEF j
    <3>2. (begun \o rest)[j] = rest[i]
      BY <2>3, <3>1
    <3> QED BY <1>8, <3>2 DEF j
  <2> QED BY <2>1, <2>2, <2>4, <2>5, <2>6
<1> DEFINE all == begun \o rest
<1> HIDE DEF all
<1>12. /\ all \in Seq(Numbered) /\ DOMAIN all = 1..(Len(rows) + 1) /\ Len(all) = Len(rows) + 1
       /\ all[k + 1] = row /\ \A i \in 1..k : all[i] = rows[i]
       /\ \A i \in 1..(Len(rows) - k) : all[k + 1 + i] = rows[k + i]
  <2>1. Len(begun \o rest) \in Nat /\ DOMAIN (begun \o rest) = 1..Len(begun \o rest)
    BY <1>11
  <2> QED BY <1>11, <2>1 DEF all
<1>13. Has(all, row)
  <2>1. k + 1 \in DOMAIN all
    BY <1>1, <1>4, <1>12
  <2> QED BY <1>12, <2>1 DEF Has
<1>14. Keeps(rows, all)
  <2> SUFFICES ASSUME NEW i \in 1..Len(rows) PROVE \E j \in DOMAIN all : all[j] = rows[i]
    BY <1>1 DEF Keeps
  <2>1. CASE i <= k
    BY <1>1, <1>4, <1>12, <2>1
  <2>2. CASE ~(i <= k)
    <3>1. i - k \in 1..(Len(rows) - k) /\ k + 1 + (i - k) = i + 1 /\ k + (i - k) = i
          /\ i + 1 \in 1..(Len(rows) + 1)
      BY <1>1, <1>4, <2>2
    <3>2. all[i + 1] = rows[i]
      BY <1>12, <3>1
    <3> QED BY <1>12, <3>1, <3>2
  <2> QED BY <2>1, <2>2
<1>15. ASSUME \A i \in DOMAIN rows : rows[i].n <= row.n PROVE all = Append(rows, row)
  <2>1. k = Len(rows)
    BY <1>5, <1>15
  <2>2. \A i \in 1..(Len(rows) + 1) : all[i] = Append(rows, row)[i]
    BY <1>1, <1>12, <2>1
  <2>3. Append(rows, row) \in Seq(Numbered) /\ Len(Append(rows, row)) = Len(rows) + 1
    OBVIOUS
  <2> QED BY <1>1, <1>12, <2>2, <2>3
<1>16. Placed(rows, row) = all
  BY <1>10 DEF all
<1> QED BY <1>12, <1>13, <1>14, <1>15, <1>16

LEMMA LinesAre ==
    ASSUME NEW line \in Line, line # Garbage
    PROVE  \/ line \in Row /\ IsRow(line) /\ ~IsIdem(line)
           \/ line \in Idem /\ ~IsRow(line) /\ IsIdem(line)
BY DEF Line, Row, Idem, IsRow, IsIdem

LEMMA EmptyIsContent == Empty \in Content
BY DEF Empty, Content

\* What a line does to what was read before it.
LEMMA TakenIs ==
    ASSUME NEW c \in Content, NEW line \in Line
    PROVE  /\ Taken(c, line) \in Content
           /\ line = Garbage => Taken(c, line) = c
           /\ line \in Row =>
                /\ Taken(c, line).owner = c.owner
                /\ Taken(c, line).rows = [c.rows EXCEPT ![line.stream] =
                       Placed(c.rows[line.stream], [n |-> line.n, what |-> line.what])]
           /\ line \in Idem =>
                /\ Taken(c, line).rows = c.rows
                /\ Taken(c, line).owner = [c.owner EXCEPT ![line.tuple] = line.owner]
<1>1. /\ c = [rows |-> c.rows, owner |-> c.owner]
      /\ c.rows \in [Streams -> Seq(Numbered)] /\ c.owner \in [Tuples -> Owner \cup {None}]
  BY DEF Content
<1>2. CASE line = Garbage
  BY <1>2, GarbageAssumption DEF Taken, GarbageAssumption
<1>3. CASE line # Garbage /\ line \in Row
  <2> DEFINE row == [n |-> line.n, what |-> line.what]
  <2>1. line.stream \in Streams /\ row \in Numbered
    BY <1>3 DEF Row, Numbered
  <2>2. Placed(c.rows[line.stream], row) \in Seq(Numbered)
    BY <1>1, <2>1, PlacedIs
  <2>3. IsRow(line) /\ line \notin Idem
    BY <1>3, LinesAre DEF Row, Idem, IsRow
  <2>4. Taken(c, line) = [rows |-> [c.rows EXCEPT ![line.stream] = Placed(c.rows[line.stream], row)],
                          owner |-> c.owner]
    BY <1>3, <2>3 DEF Taken, Entered
  <2>5. [c.rows EXCEPT ![line.stream] = Placed(c.rows[line.stream], row)] \in [Streams -> Seq(Numbered)]
    BY <1>1, <2>1, <2>2
  <2> HIDE DEF row
  <2>6. Taken(c, line) \in Content
    BY <1>1, <2>4, <2>5 DEF Content
  <2> QED BY <1>3, <2>3, <2>4, <2>6 DEF row
<1>4. CASE line # Garbage /\ line \in Idem
  <2>1. line.tuple \in Tuples /\ line.owner \in Owner /\ ~IsRow(line) /\ line \notin Row
    BY <1>4 DEF Idem, IsRow, Row
  <2>2. Taken(c, line) = [rows |-> c.rows, owner |-> [c.owner EXCEPT ![line.tuple] = line.owner]]
    BY <1>4, <2>1 DEF Taken, Entered
  <2>3. [c.owner EXCEPT ![line.tuple] = line.owner] \in [Tuples -> Owner \cup {None}]
    BY <1>1, <2>1
  <2>4. Taken(c, line) \in Content
    BY <1>1, <2>2, <2>3 DEF Content
  <2> QED BY <1>4, <2>1, <2>2, <2>4
<1> QED BY <1>2, <1>3, <1>4 DEF Line

\* What load() has after each line, up to the last.
IsReading(lines, f) == f = [i \in 0..Len(lines) |-> IF i = 0 THEN Empty ELSE Taken(f[i - 1], lines[i])]
After(lines) == CHOOSE f : IsReading(lines, f)

LEMMA LoadIs == \A lines : Load(lines) = After(lines)[Len(lines)]
BY DEF Load, After, IsReading

LEMMA ReadingExists ==
    ASSUME NEW lines \in Seq(Line)
    PROVE  \E f \in [0..Len(lines) -> Content] : IsReading(lines, f)
<1> DEFINE Upto(f, n) == f = [i \in 0..n |-> IF i = 0 THEN Empty ELSE Taken(f[i - 1], lines[i])]
           S == {n \in Nat : n <= Len(lines) => \E f \in [0..n -> Content] : Upto(f, n)}
<1>1. 0 \in S
  <2> DEFINE f == [i \in 0..0 |-> Empty]
  <2>1. f \in [0..0 -> Content] /\ Upto(f, 0)
    BY EmptyIsContent
  <2> QED BY <2>1
<1>2. ASSUME NEW n \in Nat, n \in S, n + 1 <= Len(lines)
      PROVE  \E f \in [0..(n + 1) -> Content] : Upto(f, n + 1)
  <2>1. PICK g \in [0..n -> Content] : Upto(g, n)
    BY <1>2
  <2>2. lines[n + 1] \in Line /\ n \in 0..n
    <3>1. n + 1 \in 1..Len(lines) /\ n \in 0..n
      OBVIOUS
    <3> HIDE DEF S
    <3> QED BY <3>1, ElementOfSeq
  <2> DEFINE new == Taken(g[n], lines[n + 1])
             f == [i \in 0..(n + 1) |-> IF i = n + 1 THEN new ELSE g[i]]
  <2>3. new \in Content
    BY <2>1, <2>2, TakenIs
  <2> HIDE DEF new
  <2>4. f \in [0..(n + 1) -> Content]
    BY <2>1, <2>3
  <2>5. ASSUME NEW i \in 0..(n + 1)
        PROVE  f[i] = IF i = 0 THEN Empty ELSE Taken(f[i - 1], lines[i])
    <3>1. CASE i = n + 1
      BY <2>2, <3>1 DEF new
    <3>2. CASE i # n + 1
      <4>1. i \in 0..n /\ f[i] = g[i]
        BY <3>2
      <4>2. i # 0 => i - 1 \in 0..(n + 1) /\ i - 1 # n + 1
        BY <4>1
      <4>3. i # 0 => f[i - 1] = g[i - 1]
        BY <4>2
      <4>4. g[i] = IF i = 0 THEN Empty ELSE Taken(g[i - 1], lines[i])
        BY <2>1, <4>1
      <4> HIDE DEF f
      <4> QED BY <4>1, <4>3, <4>4
    <3> QED BY <3>1, <3>2
  <2>6. DOMAIN f = 0..(n + 1)
    OBVIOUS
  <2>7. f = [i \in 0..(n + 1) |-> f[i]]
    BY <2>4
  <2> HIDE DEF f
  <2>8. Upto(f, n + 1)
    BY <2>5, <2>7
  <2> QED BY <2>4, <2>8
<1>3. \A n \in Nat : n \in S => n + 1 \in S
  <2> HIDE DEF Upto
  <2> QED BY <1>2
<1> HIDE DEF S
<1>4. Len(lines) \in S
  BY <1>1, <1>3, Induction
<1> QED BY <1>4 DEF S, IsReading

LEMMA ReadingHolds ==
    ASSUME NEW lines \in Seq(Line)
    PROVE  /\ After(lines) \in [0..Len(lines) -> Content]
           /\ After(lines)[0] = Empty
           /\ \A i \in 1..Len(lines) : After(lines)[i] = Taken(After(lines)[i - 1], lines[i])
<1> DEFINE f == After(lines)
<1>1. IsReading(lines, f)
  BY ReadingExists DEF After
<1>2. Len(lines) \in Nat
  OBVIOUS
<1> HIDE DEF f
<1>3. DOMAIN f = 0..Len(lines) /\ f[0] = Empty
      /\ \A i \in 1..Len(lines) : f[i] = Taken(f[i - 1], lines[i])
  BY <1>1, <1>2 DEF IsReading
<1> DEFINE S == {n \in Nat : n <= Len(lines) => f[n] \in Content}
<1>4. 0 \in S
  BY <1>3, EmptyIsContent
<1>5. ASSUME NEW n \in Nat, n \in S PROVE n + 1 \in S
  <2> SUFFICES ASSUME n + 1 <= Len(lines) PROVE f[n + 1] \in Content
    OBVIOUS
  <2>1. n + 1 \in 1..Len(lines) /\ n + 1 - 1 = n /\ f[n] \in Content /\ lines[n + 1] \in Line
    BY <1>2, <1>5
  <2>2. f[n + 1] = Taken(f[n], lines[n + 1])
    BY <1>3, <2>1
  <2> QED BY <2>1, <2>2, TakenIs
<1>6. \A n \in Nat : n \in S
  <2> HIDE DEF S
  <2> QED BY <1>4, <1>5, Induction
<1>7. f \in [0..Len(lines) -> Content]
  <2>1. \A n \in 0..Len(lines) : f[n] \in Content
    BY <1>2, <1>6
  <2>2. f = [n \in 0..Len(lines) |-> f[n]]
    BY <1>1, <1>3 DEF IsReading
  <2> QED BY <2>1, <2>2
<1> QED BY <1>3, <1>7 DEF f

\* It has the same after the same lines.
LEMMA ReadingAgrees ==
    ASSUME NEW lines \in Seq(Line), NEW more \in Seq(Line), NEW k \in Nat,
           k <= Len(lines), k <= Len(more), \A i \in 1..k : lines[i] = more[i]
    PROVE  After(lines)[k] = After(more)[k]
<1> DEFINE S == {n \in Nat : n <= k => After(lines)[n] = After(more)[n]}
<1>1. 0 \in S
  BY ReadingHolds
<1>2. ASSUME NEW n \in Nat, n \in S PROVE n + 1 \in S
  <2> SUFFICES ASSUME n + 1 <= k PROVE After(lines)[n + 1] = After(more)[n + 1]
    OBVIOUS
  <2>1. n + 1 \in 1..k /\ n + 1 \in 1..Len(lines) /\ n + 1 \in 1..Len(more) /\ n + 1 - 1 = n
    OBVIOUS
  <2>2. After(lines)[n] = After(more)[n]
    BY <1>2
  <2>3. After(lines)[n + 1] = Taken(After(lines)[n], lines[n + 1])
    BY <2>1, ReadingHolds
  <2>4. After(more)[n + 1] = Taken(After(more)[n], more[n + 1])
    BY <2>1, ReadingHolds
  <2> QED BY <2>1, <2>2, <2>3, <2>4
<1>3. k \in S
  <2> HIDE DEF S
  <2> QED BY <1>1, <1>2, Induction
<1> QED BY <1>3

LEMMA LoadIsContent == ASSUME NEW lines \in Seq(Line) PROVE Load(lines) \in Content
BY ReadingHolds, LoadIs

LEMMA LoadNothing == Load(<< >>) = Empty
<1>1. << >> \in Seq(Line) /\ Len(<< >>) = 0
  OBVIOUS
<1> QED BY <1>1, ReadingHolds, LoadIs

\* What is read of the lines but for the last.
Solid(lines) == After(lines)[Len(lines) - 1]

LEMMA LoadLast ==
    ASSUME NEW lines \in Seq(Line), lines # << >>
    PROVE  /\ Solid(lines) \in Content /\ lines[Len(lines)] \in Line
           /\ Load(lines) = Taken(Solid(lines), lines[Len(lines)])
<1>1. Len(lines) \in 1..Len(lines) /\ Len(lines) - 1 \in 0..Len(lines)
  OBVIOUS
<1> QED BY <1>1, ReadingHolds, LoadIs DEF Solid

\* A line more.
LEMMA LoadMore ==
    ASSUME NEW lines \in Seq(Line), NEW line \in Line
    PROVE  /\ Append(lines, line) \in Seq(Line) /\ Append(lines, line) # << >>
           /\ Append(lines, line)[Len(Append(lines, line))] = line
           /\ Solid(Append(lines, line)) = Load(lines)
           /\ Load(Append(lines, line)) = Taken(Load(lines), line)
<1> DEFINE more == Append(lines, line)
<1>1. /\ more \in Seq(Line) /\ more # << >> /\ Len(more) = Len(lines) + 1 /\ Len(lines) \in Nat
      /\ \A i \in 1..Len(lines) : lines[i] = more[i]
      /\ more[Len(lines) + 1] = line
  BY AppendProperties
<1> HIDE DEF more
<1>2. Len(lines) <= Len(lines) /\ Len(lines) <= Len(more) /\ Len(more) - 1 = Len(lines)
  BY <1>1
<1>3. After(lines)[Len(lines)] = After(more)[Len(lines)]
  BY <1>1, <1>2, ReadingAgrees
<1>4. Solid(more) = Load(lines)
  BY <1>2, <1>3, LoadIs DEF Solid
<1>5. Load(more) = Taken(Solid(more), more[Len(more)])
  BY <1>1, LoadLast
<1>6. more[Len(more)] = line
  BY <1>1
<1> QED BY <1>1, <1>4, <1>5, <1>6 DEF more

\* The last line no longer parses.
LEMMA LoadGarbled ==
    ASSUME NEW lines \in Seq(Line), lines # << >>, NEW garbled, garbled = [lines EXCEPT ![Len(lines)] = Garbage]
    PROVE  /\ garbled \in Seq(Line) /\ garbled # << >> /\ garbled[Len(garbled)] = Garbage
           /\ Solid(garbled) = Solid(lines) /\ Load(garbled) = Solid(lines)
<1>1. Len(lines) \in Nat /\ Len(lines) \in 1..Len(lines) /\ Len(lines) - 1 \in Nat /\ Garbage \in Line
  BY DEF Line
<1>2. /\ garbled \in Seq(Line) /\ Len(garbled) = Len(lines)
      /\ \A j \in 1..Len(lines) : garbled[j] = IF j = Len(lines) THEN Garbage ELSE lines[j]
  BY <1>1, ExceptSeq
<1>3. garbled # << >> /\ garbled[Len(garbled)] = Garbage
  <2>1. garbled[Len(lines)] = Garbage
    BY <1>1, <1>2
  <2>2. Len(garbled) # 0 /\ Len(<< >>) = 0
    BY <1>1, <1>2
  <2> QED BY <1>2, <2>1, <2>2
<1>4. ASSUME NEW j \in 1..(Len(lines) - 1) PROVE lines[j] = garbled[j]
  <2>1. j \in 1..Len(lines) /\ j # Len(lines)
    BY <1>1
  <2> QED BY <1>2, <2>1
<1>5. Len(lines) - 1 <= Len(lines) /\ Len(lines) - 1 <= Len(garbled)
  BY <1>1, <1>2
<1>6. After(lines)[Len(lines) - 1] = After(garbled)[Len(lines) - 1]
  BY <1>1, <1>2, <1>4, <1>5, ReadingAgrees
<1>7. Solid(garbled) = Solid(lines)
  BY <1>2, <1>6 DEF Solid
<1>8. Load(garbled) = Taken(Solid(garbled), Garbage) /\ Solid(garbled) \in Content
  BY <1>2, <1>3, LoadLast
<1> QED BY <1>1, <1>2, <1>3, <1>7, <1>8, TakenIs
-----------------------------------------------------------------------------
(* The store is well typed, and one process at a time uses a file *)

Scoped == runScopes \in [Proc -> [Runs -> Scopes \cup {None}]]

Stored ==
    /\ backend \in {"jsonl", "sqlite"}
    /\ disk \in Seq(Line)
    /\ open \in BOOLEAN /\ (open => disk # << >>)
    /\ up \subseteq Proc /\ (backend = "jsonl" => \A p, q \in up : p = q)
    /\ index \in [Proc -> Content]
    /\ acked \subseteq Row \cup Idem
    /\ tears \in Nat /\ (backend = "sqlite" => tears = 0 /\ ~open)

LEMMA ContentsTyped == ASSUME Stored, NEW p \in Proc PROVE Contents(p) \in Content
BY LoadIsContent DEF Stored, Contents

LEMMA NextNumberTyped ==
    ASSUME Stored, NEW p \in Proc, NEW s \in Streams
    PROVE  /\ Contents(p).rows[s] \in Seq(Numbered) /\ NextNumber(p, s) \in Nat \ {0}
           /\ \A e \in Entries : RowFor(p, s, e) \in Row
<1>1. Contents(p).rows[s] \in Seq(Numbered)
  BY ContentsTyped DEF Content
<1> DEFINE rows == Contents(p).rows[s]
<1>2. ASSUME rows # << >> PROVE rows[Len(rows)].n \in Nat
  <2>1. Len(rows) \in 1..Len(rows)
    BY <1>1, <1>2
  <2>2. rows[Len(rows)] \in Numbered
    BY <1>1, <2>1, ElementOfSeq
  <2> QED BY <2>2 DEF Numbered
<1>3. NextNumber(p, s) = IF rows = << >> THEN 1 ELSE rows[Len(rows)].n + 1
  BY DEF NextNumber
<1> HIDE DEF rows
<1>4. NextNumber(p, s) \in Nat \ {0}
  BY <1>2, <1>3
<1> QED BY <1>1, <1>4 DEF RowFor, Row, rows

\* What a process writes, and what its backend then answers from.
WithRow(c, s, n, e) == [rows  |-> [c.rows EXCEPT ![s] = Append(@, [n |-> n, what |-> e])],
                        owner |-> c.owner]
WithOwner(c, t, o) == [rows |-> c.rows, owner |-> [c.owner EXCEPT ![t] = o]]

LEMMA WithTyped ==
    ASSUME NEW c \in Content
    PROVE  /\ \A s \in Streams, n \in Nat \ {0}, e \in Entries : WithRow(c, s, n, e) \in Content
           /\ \A t \in Tuples, o \in Owner : WithOwner(c, t, o) \in Content
<1>1. /\ c.rows \in [Streams -> Seq(Numbered)] /\ c.owner \in [Tuples -> Owner \cup {None}]
  BY DEF Content
<1>2. ASSUME NEW s \in Streams, NEW n \in Nat \ {0}, NEW e \in Entries
      PROVE  WithRow(c, s, n, e) \in Content
  <2>1. c.rows[s] \in Seq(Numbered) /\ [n |-> n, what |-> e] \in Numbered
    BY <1>1 DEF Numbered
  <2>2. Append(c.rows[s], [n |-> n, what |-> e]) \in Seq(Numbered)
    BY <2>1, AppendProperties
  <2>3. [c.rows EXCEPT ![s] = Append(@, [n |-> n, what |-> e])] \in [Streams -> Seq(Numbered)]
    BY <1>1, <2>2
  <2> QED BY <1>1, <2>3 DEF WithRow, Content
<1>3. ASSUME NEW t \in Tuples, NEW o \in Owner PROVE WithOwner(c, t, o) \in Content
  BY <1>1 DEF WithOwner, Content
<1> QED BY <1>2, <1>3

\* The writes of Next, whoever asked for them.
Grown(p, s, e) == p \in up /\ Acknowledge(p, RowFor(p, s, e), WithRow(Contents(p), s, NextNumber(p, s), e))
Claimed(p, t, o) == /\ p \in up /\ Contents(p).owner[t] = None
                    /\ Acknowledge(p, [tuple |-> t, owner |-> o], WithOwner(Contents(p), t, o))
Moves(p) ==
    \/ \E s \in Streams, e \in Entries : Grown(p, s, e)
    \/ \E t \in Tuples, o \in Owner : Claimed(p, t, o)
    \/ Open(p) \/ Close(p)
    \/ \E record \in InFlight(p) :
          CrashAfterWrite(p, record) \/ CrashMidWrite(p, record) \/ WriteFails(p, record)

LEMMA StreamsAre ==
    \A kind \in {"event", "revision"}, sc \in Scopes, r \in Runs : <<kind, sc, r>> \in Streams
BY DEF Streams

LEMMA NextMoves == Scoped /\ Next => \E p \in Proc : Moves(p)
<1> SUFFICES ASSUME Scoped, NEW p \in Proc,
                    \/ Writes(p) \/ Open(p) \/ Close(p)
                    \/ \E record \in InFlight(p) :
                          CrashAfterWrite(p, record) \/ CrashMidWrite(p, record) \/ WriteFails(p, record)
             PROVE  Moves(p)
  BY DEF Next
<1>1. ASSUME NEW s \in Streams, NEW e \in Entries, AppendTo(p, s, e) PROVE Moves(p)
  BY <1>1 DEF AppendTo, Grown, WithRow, Moves
<1>2. ASSUME NEW r \in Runs, NEW e \in Entries, RootAppend(p, r, e) PROVE Moves(p)
  <2>1. ScopeFor(p, r) \in Scopes
    BY DefaultAssumption DEF ScopeFor, Scoped, DefaultAssumption
  <2> QED BY <1>1, <1>2, <2>1, StreamsAre DEF RootAppend
<1>3. ASSUME NEW r \in Runs, NEW sc \in Scopes, NEW e \in Entries,
             RootSave(p, r, sc, e) \/ ScopedAppend(p, sc, r, e) \/ ScopedSave(p, sc, r, e)
      PROVE  Moves(p)
  BY <1>1, <1>3, StreamsAre DEF RootSave, ScopedAppend, ScopedSave
<1>4. ASSUME NEW t \in Tuples, NEW o \in Owner, Claim(p, t, o) PROVE Moves(p)
  BY <1>4 DEF Claim, Claimed, WithOwner, Moves
<1>5. CASE Writes(p)
  BY <1>2, <1>3, <1>4, <1>5 DEF Writes
<1> QED BY <1>5 DEF Moves

LEMMA InFlightTyped == ASSUME Stored, NEW p \in Proc, NEW record \in InFlight(p) PROVE record \in Row \cup Idem
BY NextNumberTyped DEF InFlight, Idem

LEMMA WrittenIs ==
    ASSUME Stored, NEW record \in Line, NEW lines, lines = Written(record)
    PROVE  /\ lines \in Seq(Line) /\ lines # << >>
           /\ open => Load(lines) = Solid(disk) /\ Solid(lines) = Solid(disk) /\ lines[Len(lines)] = Garbage
           /\ ~open => /\ Load(lines) = Taken(Load(disk), record) /\ Solid(lines) = Load(disk)
                       /\ lines[Len(lines)] = record
<1>1. CASE open
  <2>1. lines = [disk EXCEPT ![Len(disk)] = Garbage] /\ disk \in Seq(Line) /\ disk # << >>
    BY <1>1 DEF Written, Stored
  <2> QED BY <1>1, <2>1, LoadGarbled
<1>2. CASE ~open
  <2>1. lines = Append(disk, record) /\ disk \in Seq(Line)
    BY <1>2 DEF Written, Stored
  <2> QED BY <1>2, <2>1, LoadMore
<1> QED BY <1>1, <1>2

LEMMA TornIs ==
    ASSUME Stored, NEW record \in Row \cup Idem, Torn(record)
    PROVE  /\ backend = "jsonl" /\ open' = TRUE /\ tears' = tears + 1
           /\ disk' \in Seq(Line) /\ disk' # << >>
           /\ \E line \in {record, Garbage} :
                 /\ open => Solid(disk') = Solid(disk) /\ disk'[Len(disk')] = Garbage
                 /\ ~open => Solid(disk') = Load(disk) /\ disk'[Len(disk')] = line
<1>1. record \in Line /\ Garbage \in Line
  BY DEF Line
<1>2. \E line \in {record, Garbage} : disk' = Written(line)
  BY DEF Torn
<1>3. PICK line \in {record, Garbage} : disk' = Written(line)
  BY <1>2
<1>4. line \in Line
  BY <1>1
<1>5. /\ disk' \in Seq(Line) /\ disk' # << >>
      /\ open => Solid(disk') = Solid(disk) /\ disk'[Len(disk')] = Garbage
      /\ ~open => Solid(disk') = Load(disk) /\ disk'[Len(disk')] = line
  BY <1>3, <1>4, WrittenIs
<1> QED BY <1>5 DEF Torn

LEMMA StoredInit == Init => Stored /\ Scoped
<1> SUFFICES ASSUME Init PROVE Stored /\ Scoped
  OBVIOUS
<1>1. disk \in Seq(Line) /\ acked \subseteq Row \cup Idem /\ tears = 0 /\ tears \in Nat /\ ~open
  BY DEF Init
<1>2. backend \in {"jsonl", "sqlite"}
  BY BackendsAssumption DEF Init, BackendsAssumption
<1>3. index \in [Proc -> Content]
  BY EmptyIsContent DEF Init
<1> QED BY <1>1, <1>2, <1>3 DEF Init, Stored, Scoped

LEMMA ScopedNext == Scoped /\ [Next]_vars => Scoped'
<1> SUFFICES ASSUME Scoped, [Next]_vars PROVE Scoped'
  OBVIOUS
<1>1. ASSUME NEW p \in Proc, NEW record, record \in InFlight(p), WriteFails(p, record) PROVE Scoped'
  <2>1. CASE UNCHANGED runScopes
    BY <2>1 DEF Scoped
  <2>2. CASE /\ IsRow(record) /\ runScopes' = [runScopes EXCEPT ![p][record.stream[3]] = record.stream[2]]
    <3>1. PICK s \in Streams, e \in Entries : record = RowFor(p, s, e)
      BY <1>1, <2>2 DEF InFlight, IsRow
    <3>2. record.stream[2] \in Scopes
      BY <3>1 DEF RowFor, Streams
    <3> QED BY <2>2, <3>2 DEF Scoped
  <2> QED BY <1>1, <2>1, <2>2 DEF WriteFails
<1>2. ASSUME NEW p \in Proc, Writes(p) PROVE Scoped'
  <2>1. ASSUME NEW r \in Runs, NEW sc \in Scopes, runScopes' = [runScopes EXCEPT ![p][r] = sc]
        PROVE  Scoped'
    BY <2>1 DEF Scoped
  <2>2. ASSUME UNCHANGED runScopes PROVE Scoped'
    BY <2>2 DEF Scoped
  <2>3. \/ UNCHANGED runScopes
        \/ \E r \in Runs, sc \in Scopes : runScopes' = [runScopes EXCEPT ![p][r] = sc]
    BY <1>2 DEF Writes, RootAppend, RootSave, ScopedAppend, ScopedSave, Claim
  <2> QED BY <2>1, <2>2, <2>3
<1>3. ASSUME NEW p \in Proc, NEW record, Open(p) \/ Close(p) \/ CrashAfterWrite(p, record) \/ CrashMidWrite(p, record)
      PROVE  Scoped'
  BY <1>3 DEF Open, Close, CrashAfterWrite, Appends, CrashMidWrite, Leave, Scoped
<1>4. CASE UNCHANGED vars
  BY <1>4 DEF vars, Scoped
<1> QED BY <1>1, <1>2, <1>3, <1>4 DEF Next

\* A move writes at most one record, and leaves the rest as it was.
LEMMA GrownTyped ==
    ASSUME Stored, NEW p \in Proc, NEW s \in Streams, NEW e \in Entries
    PROVE  /\ RowFor(p, s, e) \in Row
           /\ WithRow(Contents(p), s, NextNumber(p, s), e) \in Content
BY NextNumberTyped, ContentsTyped, WithTyped

LEMMA ClaimedTyped ==
    ASSUME Stored, NEW p \in Proc, NEW t \in Tuples, NEW o \in Owner
    PROVE  /\ [tuple |-> t, owner |-> o] \in Idem
           /\ WithOwner(Contents(p), t, o) \in Content
BY ContentsTyped, WithTyped DEF Idem

LEMMA StoredNext == Stored /\ Scoped /\ [Next]_vars => Stored'
<1> SUFFICES ASSUME Stored, Scoped, [Next]_vars
             PROVE  /\ backend' \in {"jsonl", "sqlite"}
                    /\ disk' \in Seq(Line)
                    /\ open' \in BOOLEAN /\ (open' => disk' # << >>)
                    /\ up' \subseteq Proc /\ (backend' = "jsonl" => \A p, q \in up' : p = q)
                    /\ index' \in [Proc -> Content]
                    /\ acked' \subseteq Row \cup Idem
                    /\ tears' \in Nat /\ (backend' = "sqlite" => tears' = 0 /\ ~open')
  BY DEF Stored
<1>0. /\ backend \in {"jsonl", "sqlite"}
      /\ disk \in Seq(Line)
      /\ open \in BOOLEAN /\ (open => disk # << >>)
      /\ up \subseteq Proc /\ (backend = "jsonl" => \A p, q \in up : p = q)
      /\ index \in [Proc -> Content]
      /\ acked \subseteq Row \cup Idem
      /\ tears \in Nat /\ (backend = "sqlite" => tears = 0 /\ ~open)
  BY DEF Stored
<1> DEFINE Goal ==
             /\ backend' \in {"jsonl", "sqlite"}
             /\ disk' \in Seq(Line)
             /\ open' \in BOOLEAN /\ (open' => disk' # << >>)
             /\ up' \subseteq Proc /\ (backend' = "jsonl" => \A p, q \in up' : p = q)
             /\ index' \in [Proc -> Content]
             /\ acked' \subseteq Row \cup Idem
             /\ tears' \in Nat /\ (backend' = "sqlite" => tears' = 0 /\ ~open')
<1>1. ASSUME NEW p \in Proc, NEW record \in Row \cup Idem, NEW contents \in Content,
             Acknowledge(p, record, contents)
      PROVE  Goal
  <2>1. record \in Line
    BY DEF Line
  <2>2. disk' = Written(record)
    BY <1>1 DEF Acknowledge, Appends
  <2>3. disk' \in Seq(Line) /\ disk' # << >>
    BY <2>1, <2>2, WrittenIs
  <2>4. /\ open' = FALSE /\ index' = [index EXCEPT ![p] = contents] /\ acked' = acked \cup {record}
        /\ UNCHANGED <<backend, up, tears>>
    BY <1>1 DEF Acknowledge, Appends, History
  <2>5. index' \in [Proc -> Content]
    BY <1>0, <2>4
  <2> QED BY <1>0, <2>3, <2>4, <2>5
<1>2. ASSUME NEW p \in Proc, NEW s \in Streams, NEW e \in Entries, Grown(p, s, e) PROVE Goal
  <2> HIDE DEF Goal
  <2> QED BY <1>1, <1>2, GrownTyped DEF Grown
<1>3. ASSUME NEW p \in Proc, NEW t \in Tuples, NEW o \in Owner, Claimed(p, t, o) PROVE Goal
  <2> HIDE DEF Goal
  <2> QED BY <1>1, <1>3, ClaimedTyped DEF Claimed
<1>4. ASSUME NEW p \in Proc, Open(p) PROVE Goal
  <2>1. /\ UNCHANGED <<backend, disk, open, acked, tears>> /\ up' = up \cup {p}
        /\ (backend = "jsonl" => up = {}) /\ index' = [index EXCEPT ![p] = Load(disk)]
    BY <1>4 DEF Open, History
  <2>2. Load(disk) \in Content
    BY <1>0, LoadIsContent
  <2> QED BY <1>0, <2>1, <2>2
<1>5. ASSUME NEW p \in Proc, Leave(p), UNCHANGED backend
      PROVE  /\ up' \subseteq Proc /\ (backend' = "jsonl" => \A r, q \in up' : r = q)
             /\ index' \in [Proc -> Content]
  <2>1. up' = up \ {p} /\ index' = [index EXCEPT ![p] = Empty]
    BY <1>5 DEF Leave
  <2> QED BY <1>0, <1>5, <2>1, EmptyIsContent
<1>6. ASSUME NEW p \in Proc, Close(p) PROVE Goal
  BY <1>0, <1>5, <1>6 DEF Close, History
<1>7. ASSUME NEW p \in Proc, NEW record \in Row \cup Idem, CrashAfterWrite(p, record) PROVE Goal
  <2>1. record \in Line
    BY DEF Line
  <2>2. disk' = Written(record) /\ open' = FALSE /\ Leave(p) /\ UNCHANGED <<backend, acked, tears>>
    BY <1>7 DEF CrashAfterWrite, Appends
  <2>3. disk' \in Seq(Line) /\ disk' # << >>
    BY <2>1, <2>2, WrittenIs
  <2> QED BY <1>0, <1>5, <2>2, <2>3
<1>8. ASSUME NEW p \in Proc, NEW record \in Row \cup Idem, CrashMidWrite(p, record) PROVE Goal
  <2>1. Torn(record) /\ Leave(p) /\ UNCHANGED <<backend, acked>>
    BY <1>8 DEF CrashMidWrite
  <2>2. backend = "jsonl" /\ open' = TRUE /\ tears' = tears + 1 /\ disk' \in Seq(Line) /\ disk' # << >>
    BY <2>1, TornIs
  <2> QED BY <1>0, <1>5, <2>1, <2>2
<1>9. ASSUME NEW p \in Proc, NEW record \in Row \cup Idem, WriteFails(p, record) PROVE Goal
  <2>1. UNCHANGED <<backend, up, index, acked>> /\ (Torn(record) \/ UNCHANGED <<disk, open, tears>>)
    BY <1>9 DEF WriteFails
  <2>2. ASSUME Torn(record)
        PROVE  backend = "jsonl" /\ open' = TRUE /\ tears' = tears + 1 /\ disk' \in Seq(Line) /\ disk' # << >>
    BY <2>2, TornIs
  <2>3. CASE Torn(record)
    BY <1>0, <2>1, <2>2, <2>3
  <2>4. CASE UNCHANGED <<disk, open, tears>>
    BY <1>0, <2>1, <2>4
  <2> QED BY <2>1, <2>3, <2>4
<1>10. ASSUME UNCHANGED vars PROVE Goal
  BY <1>0, <1>10 DEF vars
<1>11. ASSUME NEW p \in Proc, Moves(p) PROVE Goal
  <2> HIDE DEF Goal
  <2> QED BY <1>2, <1>3, <1>4, <1>6, <1>7, <1>8, <1>9, <1>11, InFlightTyped DEF Moves
<1>12. Goal
  <2> HIDE DEF Goal
  <2>1. CASE Next
    <3>1. \E p \in Proc : Moves(p)
      BY <2>1, NextMoves
    <3> QED BY <1>11, <3>1
  <2>2. CASE UNCHANGED vars
    BY <1>10, <2>2
  <2> QED BY <2>1, <2>2
<1> QED BY <1>12

THEOREM StoreIsTyped == Spec => [](Stored /\ Scoped)
<1>1. Init => Stored /\ Scoped
  BY StoredInit
<1>2. Stored /\ Scoped /\ [Next]_vars => (Stored /\ Scoped)'
  BY StoredNext, ScopedNext
<1> QED BY <1>1, <1>2, PTL DEF Spec

-----------------------------------------------------------------------------
(* Until a write is torn *)

\* The rows of every stream are numbered 1, 2, 3.
Counted(c) == \A s \in Streams : \A i \in 1..Len(c.rows[s]) : c.rows[s][i].n = i

\* Until a line is torn, the file ends in a newline, its rows are numbered in order, and
\* the one process that uses a JSONL store has in its index what the file says.
Steady == tears = 0 =>
    /\ ~open
    /\ Counted(Load(disk))
    /\ backend = "jsonl" => \A p \in up : index[p] = Load(disk)

LEMMA ContentsSteady ==
    ASSUME Stored, Steady, tears = 0, NEW p \in up
    PROVE  Contents(p) = Load(disk)
BY DEF Stored, Steady, Contents

LEMMA UntornIs == Stored /\ Steady /\ tears = 0 => Untorn = Load(disk)
<1> SUFFICES ASSUME Stored, Steady, tears = 0 PROVE View = Load(disk)
  BY DEF Untorn
<1>1. CASE backend = "jsonl" /\ up # {}
  <2>1. (CHOOSE p \in up : TRUE) \in up
    BY <1>1
  <2> QED BY <1>1, <2>1 DEF View, Steady
<1> QED BY <1>1 DEF View

\* In such a store a new row is the last of its stream, and its number the next.
LEMMA RowWritten ==
    ASSUME Stored, Steady, tears = 0, NEW p \in up, NEW s \in Streams, NEW e \in Entries,
           NEW lines, lines = Written(RowFor(p, s, e))
    PROVE  /\ NextNumber(p, s) = Len(Load(disk).rows[s]) + 1
           /\ Load(lines) = WithRow(Contents(p), s, NextNumber(p, s), e)
           /\ Counted(Load(lines))
<1> DEFINE c == Load(disk)
           rows == c.rows[s]
           row == [n |-> NextNumber(p, s), what |-> e]
<1>1. p \in Proc /\ Contents(p) = c /\ c \in Content /\ ~open
  BY ContentsSteady, LoadIsContent DEF Stored, Steady
<1>2. /\ c.rows \in [Streams -> Seq(Numbered)] /\ rows \in Seq(Numbered)
      /\ c = [rows |-> c.rows, owner |-> c.owner]
  BY <1>1 DEF Content
<1>3. \A i \in 1..Len(rows) : rows[i].n = i
  BY DEF Steady, Counted
<1>4. NextNumber(p, s) = IF rows = << >> THEN 1 ELSE rows[Len(rows)].n + 1
  BY <1>1 DEF NextNumber
<1> HIDE DEF rows
<1>5. NextNumber(p, s) = Len(rows) + 1
  <2>1. CASE rows = << >>
    BY <1>4, <2>1
  <2>2. CASE rows # << >>
    <3>1. Len(rows) \in 1..Len(rows)
      BY <1>2, <2>2
    <3> QED BY <1>3, <1>4, <2>2, <3>1
  <2> QED BY <2>1, <2>2
<1>6. row \in Numbered /\ RowFor(p, s, e) \in Row
  BY <1>1, NextNumberTyped DEF Numbered
<1>7. Placed(rows, row) = Append(rows, row)
  <2>1. DOMAIN rows = 1..Len(rows) /\ Len(rows) \in Nat
    BY <1>2
  <2>2. \A i \in DOMAIN rows : rows[i].n <= row.n
    BY <1>3, <1>5, <2>1
  <2> HIDE DEF row
  <2> QED BY <1>2, <1>6, <2>2, PlacedIs
<1>8. Load(lines) = Taken(c, RowFor(p, s, e))
  BY <1>1, <1>6, WrittenIs DEF Line
<1>9. /\ Load(lines).owner = c.owner
      /\ Load(lines).rows = [c.rows EXCEPT ![s] = Append(rows, row)]
      /\ Load(lines) \in Content
  <2>1. RowFor(p, s, e) \in Line /\ RowFor(p, s, e).stream = s
        /\ RowFor(p, s, e).n = NextNumber(p, s) /\ RowFor(p, s, e).what = e
    BY <1>6 DEF RowFor, Line
  <2> DEFINE line == RowFor(p, s, e)
  <2>2. c.rows[line.stream] = rows /\ [n |-> line.n, what |-> line.what] = row
    BY <2>1 DEF rows
  <2> HIDE DEF c, row, line
  <2>3. /\ Taken(c, line) \in Content /\ Taken(c, line).owner = c.owner
        /\ Taken(c, line).rows = [c.rows EXCEPT ![line.stream] =
                                  Placed(c.rows[line.stream], [n |-> line.n, what |-> line.what])]
    BY <1>1, <1>6, <2>1, TakenIs DEF line
  <2>4. Load(lines) = Taken(c, line) /\ line.stream = s
    BY <1>8, <2>1 DEF line
  <2> QED BY <1>7, <2>2, <2>3, <2>4
<1> HIDE DEF row, c
<1>10. Load(lines) = WithRow(c, s, NextNumber(p, s), e)
  <2>1. Load(lines) = [rows |-> Load(lines).rows, owner |-> Load(lines).owner]
    BY <1>9 DEF Content
  <2> QED BY <1>9, <2>1 DEF WithRow, row, rows
<1>11. ASSUME NEW x \in Streams, NEW i \in 1..Len(Load(lines).rows[x]) PROVE Load(lines).rows[x][i].n = i
  <2>1. CASE x = s
    <3>1. Load(lines).rows[x] = Append(rows, row)
      BY <1>2, <1>9, <2>1
    <3>2. /\ Len(Append(rows, row)) = Len(rows) + 1 /\ Append(rows, row)[Len(rows) + 1] = row
          /\ \A j \in 1..Len(rows) : Append(rows, row)[j] = rows[j]
      BY <1>2, <1>6, AppendProperties
    <3>3. i \in 1..Len(rows) \/ i = Len(rows) + 1
      BY <1>2, <3>1, <3>2
    <3>4. row.n = Len(rows) + 1
      BY <1>5 DEF row
    <3> QED BY <1>3, <3>1, <3>2, <3>3, <3>4
  <2>2. CASE x # s
    <3>1. Load(lines).rows[x] = c.rows[x]
      BY <1>2, <1>9, <2>2
    <3> QED BY <3>1 DEF Steady, Counted, c
  <2> QED BY <2>1, <2>2
<1> QED BY <1>1, <1>5, <1>10, <1>11 DEF Counted, rows, c

LEMMA OwnerWritten ==
    ASSUME Stored, Steady, tears = 0, NEW p \in up, NEW t \in Tuples, NEW o \in Owner,
           NEW lines, lines = Written([tuple |-> t, owner |-> o])
    PROVE  /\ Load(lines) = WithOwner(Contents(p), t, o)
           /\ Counted(Load(lines))
<1> DEFINE c == Load(disk)
           record == [tuple |-> t, owner |-> o]
<1>1. p \in Proc /\ Contents(p) = c /\ c \in Content /\ ~open /\ Counted(c)
  BY ContentsSteady, LoadIsContent DEF Stored, Steady
<1>2. record \in Idem /\ record \in Line /\ record.tuple = t /\ record.owner = o
  BY DEF Idem, Line
<1> HIDE DEF c, record
<1>3. Load(lines) = Taken(c, record)
  BY <1>1, <1>2, WrittenIs DEF c, record
<1>4. /\ Load(lines) \in Content /\ Load(lines).rows = c.rows
      /\ Load(lines).owner = [c.owner EXCEPT ![t] = o]
  <2>1. /\ Taken(c, record) \in Content /\ Taken(c, record).rows = c.rows
        /\ Taken(c, record).owner = [c.owner EXCEPT ![record.tuple] = record.owner]
    BY <1>1, <1>2, TakenIs
  <2> QED BY <1>2, <1>3, <2>1
<1>5. Load(lines) = WithOwner(c, t, o)
  BY <1>4 DEF Content, WithOwner
<1> QED BY <1>1, <1>4, <1>5 DEF Counted

\* What a step does to what is in the file, before a write is torn.
Same == Load(disk') = Load(disk)
RowMore == \E s \in Streams, e \in Entries :
              Load(disk') = WithRow(Load(disk), s, Len(Load(disk).rows[s]) + 1, e)
OwnerMore == \E t \in Tuples, o \in Owner :
                Load(disk).owner[t] = None /\ Load(disk') = WithOwner(Load(disk), t, o)

LEMMA SteadyStep ==
    ASSUME Stored, Scoped, Steady, [Next]_vars, tears' = 0
    PROVE  /\ tears = 0 /\ (Same \/ RowMore \/ OwnerMore)
           /\ ~open' /\ Counted(Load(disk'))
           /\ backend' = "jsonl" => \A p \in up' : index'[p] = Load(disk')
<1> DEFINE Goal == /\ tears = 0 /\ (Same \/ RowMore \/ OwnerMore)
                   /\ ~open' /\ Counted(Load(disk'))
                   /\ backend' = "jsonl" => \A p \in up' : index'[p] = Load(disk')
<1>0. /\ up \subseteq Proc /\ (backend = "jsonl" => \A p, q \in up : p = q)
      /\ index \in [Proc -> Content] /\ tears \in Nat /\ disk \in Seq(Line)
  BY DEF Stored
<1>1. ASSUME tears = 0
      PROVE  ~open /\ Counted(Load(disk)) /\ (backend = "jsonl" => \A p \in up : index[p] = Load(disk))
  BY <1>1 DEF Steady
<1>2. ASSUME NEW p \in Proc, NEW s \in Streams, NEW e \in Entries, Grown(p, s, e) PROVE Goal
  <2>1. /\ p \in up /\ disk' = Written(RowFor(p, s, e)) /\ open' = FALSE
        /\ index' = [index EXCEPT ![p] = WithRow(Contents(p), s, NextNumber(p, s), e)]
        /\ UNCHANGED <<backend, up, tears>>
    BY <1>2 DEF Grown, Acknowledge, Appends, History
  <2>2. tears = 0
    BY <2>1
  <2>3. /\ NextNumber(p, s) = Len(Load(disk).rows[s]) + 1
        /\ Load(disk') = WithRow(Contents(p), s, NextNumber(p, s), e)
        /\ Counted(Load(disk'))
    BY <2>1, <2>2, RowWritten
  <2>4. Contents(p) = Load(disk)
    BY <2>1, <2>2, ContentsSteady
  <2>5. RowMore
    BY <2>3, <2>4 DEF RowMore
  <2>6. backend' = "jsonl" => \A q \in up' : index'[q] = Load(disk')
    BY <1>0, <2>1, <2>3
  <2> QED BY <2>1, <2>2, <2>3, <2>5, <2>6
<1>3. ASSUME NEW p \in Proc, NEW t \in Tuples, NEW o \in Owner, Claimed(p, t, o) PROVE Goal
  <2>1. /\ p \in up /\ disk' = Written([tuple |-> t, owner |-> o]) /\ open' = FALSE
        /\ index' = [index EXCEPT ![p] = WithOwner(Contents(p), t, o)]
        /\ UNCHANGED <<backend, up, tears>> /\ Contents(p).owner[t] = None
    BY <1>3 DEF Claimed, Acknowledge, Appends, History
  <2>2. tears = 0
    BY <2>1
  <2>3. Load(disk') = WithOwner(Contents(p), t, o) /\ Counted(Load(disk'))
    BY <2>1, <2>2, OwnerWritten
  <2>4. Contents(p) = Load(disk)
    BY <2>1, <2>2, ContentsSteady
  <2>5. OwnerMore
    BY <2>1, <2>3, <2>4 DEF OwnerMore
  <2>6. backend' = "jsonl" => \A q \in up' : index'[q] = Load(disk')
    BY <1>0, <2>1, <2>3
  <2> QED BY <2>1, <2>2, <2>3, <2>5, <2>6
<1>4. ASSUME NEW p \in Proc, Open(p) PROVE Goal
  <2>1. /\ UNCHANGED <<backend, disk, open, tears>> /\ up' = up \cup {p}
        /\ (backend = "jsonl" => up = {}) /\ index' = [index EXCEPT ![p] = Load(disk)]
    BY <1>4 DEF Open, History
  <2>2. tears = 0
    BY <2>1
  <2>3. backend' = "jsonl" => \A q \in up' : index'[q] = Load(disk')
    BY <1>0, <2>1
  <2> QED BY <1>1, <2>1, <2>2, <2>3 DEF Same
<1>5. ASSUME NEW p \in up, Leave(p), UNCHANGED backend PROVE backend' = "jsonl" => up' = {}
  BY <1>0, <1>5 DEF Leave
<1>6. ASSUME NEW p \in Proc, Close(p) PROVE Goal
  <2>1. p \in up /\ Leave(p) /\ UNCHANGED <<backend, disk, open, tears>>
    BY <1>6 DEF Close, History
  <2>2. tears = 0 /\ Same
    BY <2>1 DEF Same
  <2> QED BY <1>1, <1>5, <2>1, <2>2
<1>7. ASSUME NEW p \in Proc, NEW record \in InFlight(p), CrashAfterWrite(p, record) PROVE Goal
  <2>1. /\ p \in up /\ disk' = Written(record) /\ open' = FALSE /\ Leave(p)
        /\ UNCHANGED <<backend, tears>>
    BY <1>7 DEF CrashAfterWrite, Appends
  <2>2. tears = 0 /\ (backend' = "jsonl" => up' = {})
    BY <1>5, <2>1
  <2>3. Contents(p) = Load(disk)
    BY <2>1, <2>2, ContentsSteady
  <2>4. ASSUME NEW s \in Streams, NEW e \in Entries, record = RowFor(p, s, e)
        PROVE  RowMore /\ Counted(Load(disk'))
    <3>1. /\ NextNumber(p, s) = Len(Load(disk).rows[s]) + 1
          /\ Load(disk') = WithRow(Contents(p), s, NextNumber(p, s), e)
          /\ Counted(Load(disk'))
      BY <2>1, <2>2, <2>4, RowWritten
    <3> QED BY <2>3, <3>1 DEF RowMore
  <2>5. ASSUME NEW t \in Tuples, NEW o \in Owner, Contents(p).owner[t] = None, record = [tuple |-> t, owner |-> o]
        PROVE  OwnerMore /\ Counted(Load(disk'))
    <3>1. Load(disk') = WithOwner(Contents(p), t, o) /\ Counted(Load(disk'))
      BY <2>1, <2>2, <2>5, OwnerWritten
    <3> QED BY <2>3, <2>5, <3>1 DEF OwnerMore
  <2>6. \/ \E s \in Streams, e \in Entries : record = RowFor(p, s, e)
        \/ \E t \in Tuples, o \in Owner : Contents(p).owner[t] = None /\ record = [tuple |-> t, owner |-> o]
    BY DEF InFlight
  <2>7. (RowMore \/ OwnerMore) /\ Counted(Load(disk'))
    BY <2>4, <2>5, <2>6
  <2> QED BY <2>1, <2>2, <2>7
<1>8. ASSUME NEW record, Torn(record) PROVE FALSE
  BY <1>0, <1>8 DEF Torn
<1>9. ASSUME UNCHANGED <<backend, disk, open, up, index, tears>> PROVE Goal
  <2>1. tears = 0 /\ Same
    BY <1>9 DEF Same
  <2> QED BY <1>1, <1>9, <2>1
<1>10. ASSUME NEW p \in Proc, NEW record \in InFlight(p), WriteFails(p, record) PROVE Goal
  BY <1>8, <1>9, <1>10 DEF WriteFails
<1>11. ASSUME NEW p \in Proc, Moves(p) PROVE Goal
  <2>1. ASSUME NEW record, CrashMidWrite(p, record) PROVE FALSE
    BY <1>8, <2>1 DEF CrashMidWrite
  <2> HIDE DEF Goal
  <2> QED BY <1>2, <1>3, <1>4, <1>6, <1>7, <1>10, <1>11, <2>1 DEF Moves
<1>12. CASE UNCHANGED vars
  BY <1>9, <1>12 DEF vars
<1>13. CASE Next
  <2>1. \E p \in Proc : Moves(p)
    BY <1>13, NextMoves
  <2> HIDE DEF Goal
  <2>2. Goal
    BY <1>11, <2>1
  <2> QED BY <2>2 DEF Goal
<1> QED BY <1>12, <1>13

\* What readers saw before the first torn write is remembered.
LEMMA TornStep ==
    ASSUME Stored, Scoped, [Next]_vars, tears' # 0
    PROVE  Untorn' = Untorn
<1>1. tears \in Nat
  BY DEF Stored
<1>2. ASSUME NEW record, Torn(record) PROVE Untorn' = Untorn
  BY <1>1, <1>2 DEF Torn, Untorn
<1>3. ASSUME UNCHANGED <<tears, frozen>> PROVE Untorn' = Untorn
  BY <1>3 DEF Untorn
<1>4. ASSUME NEW p \in Proc, Moves(p) PROVE Untorn' = Untorn
  <2>1. \/ UNCHANGED <<tears, frozen>>
        \/ \E record : Torn(record)
    BY <1>4 DEF Moves, Grown, Claimed, Acknowledge, Appends, Open, Close, CrashAfterWrite, CrashMidWrite, WriteFails, History
  <2> QED BY <1>2, <1>3, <2>1
<1>5. CASE UNCHANGED vars
  BY <1>3, <1>5 DEF vars
<1> QED BY <1>4, <1>5, NextMoves

LEMMA SteadyInit == Init => Steady
<1> SUFFICES ASSUME Init PROVE ~open /\ Counted(Load(disk)) /\ up = {}
  BY DEF Steady
<1> QED BY LoadNothing DEF Init, Counted, Empty

THEOREM StoreIsSteady == Spec => []Steady
<1>1. Stored /\ Scoped /\ Steady /\ [Next]_vars => Steady'
  <2> SUFFICES ASSUME Stored, Scoped, Steady, [Next]_vars, tears' = 0
               PROVE  ~open' /\ Counted(Load(disk'))
                      /\ (backend' = "jsonl" => \A p \in up' : index'[p] = Load(disk'))
    BY DEF Steady
  <2> QED BY SteadyStep
<1> QED BY <1>1, SteadyInit, StoreIsTyped, PTL DEF Spec

\* Both backends implement the reference store, for any number of processes, until a
\* line is torn: memory.ts:89 calls any other behaviour a bug in the persistent path.
THEOREM StoreIsMemory == Spec => LikeMemoryUntilTorn
<1>1. Init => UntornMemory!MInit
  <2> SUFFICES ASSUME Init PROVE UntornMemory!MInit
    OBVIOUS
  <2>1. Stored /\ Steady /\ tears = 0 /\ disk = << >>
    BY StoredInit, SteadyInit DEF Init
  <2>2. Untorn = Empty
    BY <2>1, UntornIs, LoadNothing
  <2> QED BY <2>2 DEF UntornMemory!MInit, Empty
<1>2. (Stored /\ Steady /\ tears = 0 => Untorn = Load(disk))'
  BY UntornIs, PTL
<1>3. Stored /\ Scoped /\ Steady /\ Stored' /\ Steady' /\ [Next]_vars
        => [UntornMemory!MNext]_<<Untorn.rows, Untorn.owner>>
  <2> SUFFICES ASSUME Stored, Scoped, Steady, Stored', Steady', [Next]_vars
               PROVE  [UntornMemory!MNext]_<<Untorn.rows, Untorn.owner>>
    OBVIOUS
  <2>1. CASE tears' # 0
    <3>1. Untorn' = Untorn
      BY <2>1, TornStep
    <3> QED BY <3>1
  <2>2. CASE tears' = 0
    <3>1. tears = 0 /\ (Same \/ RowMore \/ OwnerMore)
      BY <2>2, SteadyStep
    <3>2. Untorn = Load(disk) /\ Untorn' = Load(disk')
      BY <1>2, <2>2, <3>1, UntornIs
    <3> DEFINE c == Load(disk)
               d == Load(disk')
    <3>3. c \in Content
      BY LoadIsContent DEF Stored
    <3>4. c.rows \in [Streams -> Seq(Numbered)] /\ c.owner \in [Tuples -> Owner \cup {None}]
      BY <3>3 DEF Content
    <3> HIDE DEF c, d
    <3>5. Untorn = c /\ Untorn' = d
      BY <3>2 DEF c, d
    <3>6. Untorn.rows = c.rows /\ Untorn.owner = c.owner
          /\ (Untorn.rows)' = d.rows /\ (Untorn.owner)' = d.owner
      BY <3>5
    <3>7. CASE Same
      <4>1. d = c
        BY <3>7 DEF Same, c, d
      <4> QED BY <3>6, <4>1
    <3>8. CASE RowMore
      <4>1. PICK s \in Streams, e \in Entries : d = WithRow(c, s, Len(c.rows[s]) + 1, e)
        BY <3>8 DEF RowMore, c, d
      <4>2. d.rows = [c.rows EXCEPT ![s] = Append(@, [n |-> Len(c.rows[s]) + 1, what |-> e])]
            /\ d.owner = c.owner
        BY <4>1 DEF WithRow
      <4>3. d.rows = [c.rows EXCEPT ![s] = Append(@, [n |-> Len(@) + 1, what |-> e])]
        BY <3>4, <4>2
      <4>4. UntornMemory!AppendRow(s)
        BY <3>6, <4>2, <4>3 DEF UntornMemory!AppendRow
      <4> QED BY <4>4 DEF UntornMemory!MNext
    <3>9. CASE OwnerMore
      <4>1. PICK t \in Tuples, o \in Owner : c.owner[t] = None /\ d = WithOwner(c, t, o)
        BY <3>9 DEF OwnerMore, c, d
      <4>2. d.rows = c.rows /\ d.owner = [c.owner EXCEPT ![t] = o]
        BY <4>1 DEF WithOwner
      <4>3. UntornMemory!PutIfAbsent(t)
        BY <3>6, <4>1, <4>2 DEF UntornMemory!PutIfAbsent
      <4> QED BY <4>3 DEF UntornMemory!MNext
    <3> QED BY <3>1, <3>7, <3>8, <3>9
  <2> QED BY <2>1, <2>2
<1>4. Spec => [](Stored /\ Scoped) /\ []Steady
  BY StoreIsTyped, StoreIsSteady
<1> QED BY <1>1, <1>3, <1>4, PTL DEF Spec, LikeMemoryUntilTorn, UntornMemory!MSpec

-----------------------------------------------------------------------------
(* What a torn write can lose *)

In(c, record) ==
    IF IsIdem(record) THEN c.owner[record.tuple] = record.owner
    ELSE Has(c.rows[record.stream], [n |-> record.n, what |-> record.what])

\* What the lines that end in a newline say, and the acknowledged records they do not.
Whole == IF open THEN Solid(disk) ELSE Load(disk)
Missing == {record \in acked : ~In(Whole, record)}

\* A torn line puts at most one more record at risk: the next one, written onto it.
AtRisk == IF open THEN 1 ELSE 0
Bounded ==
    /\ IsFiniteSet(acked) /\ Cardinality(Missing) + AtRisk <= tears
    /\ backend = "jsonl" => \A p \in up, t \in Tuples : index[p].owner[t] = None => Whole.owner[t] = None
    /\ open /\ disk[Len(disk)] \in Idem => Whole.owner[disk[Len(disk)].tuple] = None

LEMMA WholeIsContent == ASSUME Stored PROVE Whole \in Content
BY LoadIsContent, LoadLast DEF Stored, Whole

\* A line adds what it says, and takes nothing away unless it gives a tuple another owner.
LEMMA TakenHas ==
    ASSUME NEW c \in Content, NEW line \in Row \cup Idem
    PROVE  In(Taken(c, line), line)
<1>1. line \in Line /\ line # Garbage
  BY GarbageAssumption DEF Line, GarbageAssumption
<1>2. c.rows \in [Streams -> Seq(Numbered)] /\ c.owner \in [Tuples -> Owner \cup {None}]
  BY DEF Content
<1>3. CASE line \in Row
  <2> DEFINE row == [n |-> line.n, what |-> line.what]
             rows == c.rows[line.stream]
  <2>1. line.stream \in Streams /\ row \in Numbered /\ ~IsIdem(line)
    BY <1>3 DEF Row, Numbered, IsIdem
  <2>2. rows \in Seq(Numbered)
    BY <1>2, <2>1
  <2>3. Taken(c, line).rows = [c.rows EXCEPT ![line.stream] = Placed(rows, row)]
    BY <1>1, <1>3, TakenIs
  <2>4. Has(Placed(rows, row), row)
    BY <2>1, <2>2, PlacedIs
  <2> HIDE DEF rows, row
  <2>5. Taken(c, line).rows[line.stream] = Placed(rows, row)
    BY <1>2, <2>1, <2>3
  <2> QED BY <2>1, <2>4, <2>5 DEF In, row
<1>4. CASE line \in Idem
  <2>1. line.tuple \in Tuples /\ IsIdem(line)
    BY <1>4 DEF Idem, IsIdem
  <2>2. Taken(c, line).owner = [c.owner EXCEPT ![line.tuple] = line.owner]
    BY <1>1, <1>4, TakenIs
  <2> QED BY <1>2, <2>1, <2>2 DEF In
<1> QED BY <1>3, <1>4

LEMMA TakenKeeps ==
    ASSUME NEW c \in Content, NEW line \in Line, line \in Idem => c.owner[line.tuple] = None,
           NEW record \in Row \cup Idem, In(c, record)
    PROVE  In(Taken(c, line), record)
<1>1. c.rows \in [Streams -> Seq(Numbered)] /\ c.owner \in [Tuples -> Owner \cup {None}]
  BY DEF Content
<1>2. CASE line = Garbage
  BY <1>2, TakenIs
<1>3. CASE line # Garbage /\ line \in Row
  <2> DEFINE row == [n |-> line.n, what |-> line.what]
             rows == c.rows[line.stream]
  <2>1. line.stream \in Streams /\ row \in Numbered
    BY <1>3 DEF Row, Numbered
  <2>2. rows \in Seq(Numbered)
    BY <1>1, <2>1
  <2>3. /\ Taken(c, line).rows = [c.rows EXCEPT ![line.stream] = Placed(rows, row)]
        /\ Taken(c, line).owner = c.owner
    BY <1>3, TakenIs
  <2>4. Keeps(rows, Placed(rows, row))
    BY <2>1, <2>2, PlacedIs
  <2>5. CASE IsIdem(record)
    BY <2>3, <2>5 DEF In
  <2>6. CASE ~IsIdem(record)
    <3> HIDE DEF rows, row
    <3> DEFINE wanted == [n |-> record.n, what |-> record.what]
    <3>1. Has(c.rows[record.stream], wanted) /\ record.stream \in Streams
      BY <2>6 DEF In, Idem, IsIdem, Row
    <3> HIDE DEF wanted
    <3>2. CASE record.stream = line.stream
      <4>1. Has(rows, wanted)
        BY <3>1, <3>2 DEF rows
      <4>2. Has(Placed(rows, row), wanted)
        BY <2>4, <4>1 DEF Has, Keeps
      <4>3. Taken(c, line).rows[record.stream] = Placed(rows, row)
        BY <1>1, <2>1, <2>3, <3>2
      <4> QED BY <2>6, <4>2, <4>3 DEF In, wanted
    <3>3. CASE record.stream # line.stream
      <4>1. Taken(c, line).rows[record.stream] = c.rows[record.stream]
        BY <1>1, <2>1, <2>3, <3>1, <3>3
      <4> QED BY <2>6, <3>1, <4>1 DEF In, wanted
    <3> QED BY <3>2, <3>3
  <2> QED BY <2>5, <2>6
<1>4. CASE line # Garbage /\ line \in Idem
  <2>1. line.tuple \in Tuples /\ c.owner[line.tuple] = None
    BY <1>4 DEF Idem
  <2>2. /\ Taken(c, line).rows = c.rows
        /\ Taken(c, line).owner = [c.owner EXCEPT ![line.tuple] = line.owner]
    BY <1>4, TakenIs
  <2>3. CASE IsIdem(record)
    <3>1. record.tuple \in Tuples /\ record.owner \in Owner /\ c.owner[record.tuple] = record.owner
      BY <2>3 DEF In, Idem, Row, IsIdem
    <3>2. record.tuple # line.tuple
      BY <2>1, <3>1, NoneAssumption DEF NoneAssumption
    <3>3. Taken(c, line).owner[record.tuple] = record.owner
      BY <1>1, <2>2, <3>1, <3>2
    <3> QED BY <2>3, <3>3 DEF In
  <2>4. CASE ~IsIdem(record)
    BY <2>2, <2>4 DEF In
  <2> QED BY <2>3, <2>4
<1> QED BY <1>2, <1>3, <1>4 DEF Line

\* So everything the whole lines say is read at the next open.
LEMMA LostIsMissing == Stored /\ Bounded => Lost \subseteq Missing
<1> SUFFICES ASSUME Stored, Bounded, NEW record \in acked, In(Whole, record) PROVE OnDisk(record)
  BY DEF Lost, Missing
<1>1. record \in Row \cup Idem
  BY DEF Stored
<1>2. In(Load(disk), record)
  <2>1. CASE open
    <3>1. /\ Whole \in Content /\ disk[Len(disk)] \in Line
          /\ Load(disk) = Taken(Whole, disk[Len(disk)])
      BY <2>1, LoadLast DEF Stored, Whole
    <3>2. disk[Len(disk)] \in Idem => Whole.owner[disk[Len(disk)].tuple] = None
      BY <2>1 DEF Bounded
    <3> QED BY <1>1, <3>1, <3>2, TakenKeeps
  <2>2. CASE ~open
    BY <2>2 DEF Whole
  <2> QED BY <2>1, <2>2
<1> QED BY <1>2 DEF OnDisk, In, Has

LEMMA LossBound == Stored /\ Bounded => Cardinality(Lost) <= tears
<1> SUFFICES ASSUME Stored, Bounded PROVE Cardinality(Lost) <= tears
  OBVIOUS
<1>1. IsFiniteSet(Missing) /\ Missing \subseteq acked
  BY FS_Subset DEF Bounded, Missing
<1>2. Cardinality(Missing) \in Nat /\ Cardinality(Lost) \in Nat /\ Cardinality(Lost) <= Cardinality(Missing)
  BY <1>1, LostIsMissing, FS_Subset, FS_CardinalityType
<1>3. Cardinality(Missing) + AtRisk <= tears /\ AtRisk \in {0, 1} /\ tears \in Nat
  BY DEF Bounded, Stored, AtRisk
<1> QED BY <1>2, <1>3

LEMMA WholeAfterWrite ==
    ASSUME Stored, NEW record \in Line, disk' = Written(record), open' = FALSE
    PROVE  Whole' = IF open THEN Whole ELSE Taken(Whole, record)
<1>1. Whole' = Load(disk')
  BY DEF Whole
<1>2. /\ open => Load(disk') = Solid(disk)
      /\ ~open => Load(disk') = Taken(Load(disk), record)
  BY WrittenIs
<1> QED BY <1>1, <1>2 DEF Whole

LEMMA WholeAfterTear ==
    ASSUME Stored, NEW record \in Row \cup Idem, Torn(record)
    PROVE  Whole' = Whole
<1>1. Whole' = Solid(disk')
  BY TornIs DEF Whole
<1> QED BY <1>1, TornIs DEF Whole

\* A process that finds a tuple free is right about the whole lines.
LEMMA FreeIsFree ==
    ASSUME Stored, Bounded, NEW p \in up, NEW t \in Tuples, Contents(p).owner[t] = None
    PROVE  Whole.owner[t] = None
<1>1. CASE backend = "sqlite"
  BY <1>1 DEF Stored, Whole, Contents
<1>2. CASE backend = "jsonl"
  BY <1>2 DEF Bounded, Contents
<1> QED BY <1>1, <1>2 DEF Stored

LEMMA LoadIsFree ==
    ASSUME Stored, NEW t \in Tuples, Load(disk).owner[t] = None
    PROVE  Whole.owner[t] = None
<1>1. CASE open
  <2> DEFINE last == disk[Len(disk)]
  <2>1. Whole \in Content /\ last \in Line /\ Load(disk) = Taken(Whole, last)
    BY <1>1, LoadLast DEF Stored, Whole
  <2> HIDE DEF last
  <2>2. Whole.owner \in [Tuples -> Owner \cup {None}]
    BY <2>1 DEF Content
  <2>3. CASE last = Garbage
    BY <2>1, <2>3, TakenIs
  <2>4. CASE last \in Row
    BY <2>1, <2>4, TakenIs
  <2>5. CASE last \in Idem
    <3>1. Taken(Whole, last).owner = [Whole.owner EXCEPT ![last.tuple] = last.owner]
      BY <2>1, <2>5, TakenIs
    <3>2. last.owner # None
      BY <2>5, NoneAssumption DEF Idem, NoneAssumption
    <3> QED BY <2>1, <2>2, <3>1, <3>2
  <2> QED BY <2>1, <2>3, <2>4, <2>5 DEF Line
<1>2. CASE ~open
  BY <1>2 DEF Whole
<1> QED BY <1>1, <1>2

LEMMA InFlightFree ==
    ASSUME Stored, Bounded, NEW p \in up, NEW record \in InFlight(p), record \in Idem
    PROVE  record.tuple \in Tuples /\ Whole.owner[record.tuple] = None
<1>1. record.tuple \in Tuples /\ Contents(p).owner[record.tuple] = None
  BY DEF InFlight, RowFor, Idem
<1> QED BY <1>1, FreeIsFree

\* Writing a record loses none that the whole lines say.
LEMMA WriteKeeps ==
    ASSUME Stored, NEW record \in Row \cup Idem, disk' = Written(record), open' = FALSE,
           record \in Idem => Whole.owner[record.tuple] = None
    PROVE  /\ \A x \in Row \cup Idem : In(Whole, x) => In(Whole', x)
           /\ ~open => In(Whole', record)
<1>1. record \in Line /\ Whole \in Content
  BY WholeIsContent DEF Line
<1>2. Whole' = IF open THEN Whole ELSE Taken(Whole, record)
  BY <1>1, WholeAfterWrite
<1> QED BY <1>1, <1>2, TakenKeeps, TakenHas

LEMMA CountOneMore ==
    ASSUME NEW S, NEW T, IsFiniteSet(S), NEW x, T \subseteq S \cup {x}
    PROVE  /\ Cardinality(S) \in Nat /\ Cardinality(T) \in Nat /\ Cardinality(T) <= Cardinality(S) + 1
           /\ T \subseteq S => Cardinality(T) <= Cardinality(S)
<1>1. /\ IsFiniteSet(S \cup {x})
      /\ Cardinality(S \cup {x}) = Cardinality(S) \/ Cardinality(S \cup {x}) = Cardinality(S) + 1
  BY FS_AddElement
<1>2. Cardinality(S) \in Nat /\ Cardinality(S \cup {x}) \in Nat
  BY <1>1, FS_CardinalityType
<1>3. IsFiniteSet(T) /\ Cardinality(T) <= Cardinality(S \cup {x})
  BY <1>1, FS_Subset
<1>4. Cardinality(T) \in Nat
  BY <1>3, FS_CardinalityType
<1>5. T \subseteq S => Cardinality(T) <= Cardinality(S)
  BY FS_Subset
<1> QED BY <1>1, <1>2, <1>3, <1>4, <1>5

LEMMA AcknowledgeBounded ==
    ASSUME Stored, Bounded, NEW p \in up, NEW record \in Row \cup Idem, NEW contents \in Content,
           Acknowledge(p, record, contents),
           \A t \in Tuples : contents.owner[t] = None =>
               Contents(p).owner[t] = None /\ ~(record \in Idem /\ record.tuple = t),
           record \in Idem => Contents(p).owner[record.tuple] = None
    PROVE  Bounded'
<1>1. /\ disk' = Written(record) /\ open' = FALSE /\ index' = [index EXCEPT ![p] = contents]
      /\ acked' = acked \cup {record} /\ UNCHANGED <<backend, up, tears>>
  BY DEF Acknowledge, Appends, History
<1>2. record \in Idem => record.tuple \in Tuples /\ Whole.owner[record.tuple] = None
  BY FreeIsFree DEF Idem
<1>3. /\ \A x \in Row \cup Idem : In(Whole, x) => In(Whole', x)
      /\ ~open => In(Whole', record)
  BY <1>1, <1>2, WriteKeeps
<1>4. acked \subseteq Row \cup Idem /\ tears \in Nat /\ index \in [Proc -> Content] /\ up \subseteq Proc
  BY DEF Stored
<1>5. IsFiniteSet(acked) /\ Cardinality(Missing) + AtRisk <= tears
  BY DEF Bounded
<1>6. IsFiniteSet(Missing)
  BY <1>5, FS_Subset DEF Missing
<1>7. IsFiniteSet(acked')
  BY <1>1, <1>5, FS_AddElement
<1>8. Missing' \subseteq Missing \cup {record} /\ (~open => Missing' \subseteq Missing)
  BY <1>1, <1>3, <1>4 DEF Missing
<1>9. Cardinality(Missing') + AtRisk' <= tears'
  <2>1. /\ Cardinality(Missing) \in Nat /\ Cardinality(Missing') \in Nat
        /\ Cardinality(Missing') <= Cardinality(Missing) + 1
        /\ ~open => Cardinality(Missing') <= Cardinality(Missing)
    BY <1>6, <1>8, CountOneMore
  <2>2. AtRisk' = 0 /\ tears' = tears /\ (open => AtRisk = 1) /\ (~open => AtRisk = 0)
    BY <1>1 DEF AtRisk
  <2> QED BY <1>4, <1>5, <2>1, <2>2
<1>10. ASSUME backend' = "jsonl", NEW q \in up', NEW t \in Tuples, index'[q].owner[t] = None
       PROVE  Whole'.owner[t] = None
  <2>1. q = p /\ index'[q] = contents
    BY <1>1, <1>4, <1>10 DEF Stored
  <2>2. Whole.owner[t] = None /\ ~(record \in Idem /\ record.tuple = t)
    BY <1>10, <2>1, FreeIsFree
  <2>3. record \in Line /\ record # Garbage /\ Whole \in Content
    BY WholeIsContent, GarbageAssumption DEF Line, GarbageAssumption
  <2>4. Whole' = IF open THEN Whole ELSE Taken(Whole, record)
    BY <1>1, <2>3, WholeAfterWrite
  <2>5. CASE open
    BY <2>2, <2>4, <2>5
  <2>6. CASE ~open /\ record \in Row
    BY <2>2, <2>3, <2>4, <2>6, TakenIs
  <2>7. CASE ~open /\ record \in Idem
    <3>1. Whole'.owner = [Whole.owner EXCEPT ![record.tuple] = record.owner]
      BY <2>3, <2>4, <2>7, TakenIs
    <3>2. Whole.owner \in [Tuples -> Owner \cup {None}]
      BY <2>3 DEF Content
    <3> QED BY <2>2, <2>7, <3>1, <3>2
  <2> QED BY <2>5, <2>6, <2>7
<1> QED BY <1>1, <1>7, <1>9, <1>10 DEF Bounded

LEMMA TearBounded ==
    ASSUME Stored, Bounded, NEW p \in up, NEW record \in InFlight(p), Torn(record), UNCHANGED acked
    PROVE  /\ IsFiniteSet(acked') /\ Cardinality(Missing') + AtRisk' <= tears' /\ Whole' = Whole
           /\ open' /\ disk'[Len(disk')] \in Idem => Whole'.owner[disk'[Len(disk')].tuple] = None
<1>1. record \in Row \cup Idem /\ p \in Proc
  BY InFlightTyped DEF Stored
<1>2. Whole' = Whole
  BY <1>1, WholeAfterTear
<1>3. /\ open' = TRUE /\ tears' = tears + 1
      /\ \E line \in {record, Garbage} :
            /\ open => disk'[Len(disk')] = Garbage
            /\ ~open => disk'[Len(disk')] = line
  BY <1>1, TornIs
<1>4. IsFiniteSet(acked) /\ Cardinality(Missing) + AtRisk <= tears /\ tears \in Nat
  BY DEF Bounded, Stored
<1>5. Missing' = Missing
  BY <1>2 DEF Missing
<1>6. IsFiniteSet(Missing)
  BY <1>4, FS_Subset DEF Missing
<1>7. Cardinality(Missing) \in Nat /\ AtRisk \in {0, 1} /\ AtRisk' = 1
  BY <1>3, <1>6, FS_CardinalityType DEF AtRisk
<1>8. Cardinality(Missing) + AtRisk' <= tears'
  BY <1>3, <1>4, <1>7
<1>9. disk'[Len(disk')] \in Idem => disk'[Len(disk')] = record
  BY <1>3, GarbageAssumption DEF GarbageAssumption
<1>10. record \in Idem => Whole.owner[record.tuple] = None
  BY InFlightFree
<1> QED BY <1>2, <1>4, <1>5, <1>8, <1>9, <1>10

LEMMA BoundedNext == Stored /\ Scoped /\ Bounded /\ [Next]_vars => Bounded'
<1> SUFFICES ASSUME Stored, Scoped, Bounded, [Next]_vars PROVE Bounded'
  OBVIOUS
<1>0. /\ up \subseteq Proc /\ (backend = "jsonl" => \A p, q \in up : p = q)
      /\ index \in [Proc -> Content] /\ acked \subseteq Row \cup Idem /\ tears \in Nat
  BY DEF Stored
<1>1. /\ IsFiniteSet(acked) /\ Cardinality(Missing) + AtRisk <= tears
      /\ backend = "jsonl" => \A p \in up, t \in Tuples : index[p].owner[t] = None => Whole.owner[t] = None
      /\ open /\ disk[Len(disk)] \in Idem => Whole.owner[disk[Len(disk)].tuple] = None
  BY DEF Bounded
<1>2. ASSUME NEW p \in Proc, NEW s \in Streams, NEW e \in Entries, Grown(p, s, e) PROVE Bounded'
  <2> DEFINE record == RowFor(p, s, e)
             contents == WithRow(Contents(p), s, NextNumber(p, s), e)
  <2>1. record \in Row /\ contents \in Content /\ p \in up /\ Acknowledge(p, record, contents)
    BY <1>2, GrownTyped DEF Grown
  <2>2. contents.owner = Contents(p).owner /\ record \notin Idem
    BY DEF WithRow, RowFor, Idem
  <2> HIDE DEF record, contents
  <2> QED BY <2>1, <2>2, AcknowledgeBounded
<1>3. ASSUME NEW p \in Proc, NEW t \in Tuples, NEW o \in Owner, Claimed(p, t, o) PROVE Bounded'
  <2> DEFINE record == [tuple |-> t, owner |-> o]
             contents == WithOwner(Contents(p), t, o)
  <2>1. /\ record \in Idem /\ contents \in Content /\ p \in up /\ Acknowledge(p, record, contents)
        /\ Contents(p).owner[t] = None
    BY <1>3, ClaimedTyped DEF Claimed
  <2>2. record.tuple = t /\ contents.owner = [Contents(p).owner EXCEPT ![t] = o] /\ o # None
    BY NoneAssumption DEF WithOwner, NoneAssumption
  <2>3. Contents(p).owner \in [Tuples -> Owner \cup {None}]
    BY ContentsTyped DEF Content
  <2> HIDE DEF record, contents
  <2>4. \A u \in Tuples : contents.owner[u] = None => Contents(p).owner[u] = None /\ ~(record \in Idem /\ record.tuple = u)
    BY <2>2, <2>3
  <2>5. record \in Row \cup Idem /\ Contents(p).owner[record.tuple] = None
    BY <2>1, <2>2
  <2> QED BY <2>1, <2>4, <2>5, AcknowledgeBounded
<1>4. ASSUME NEW p \in Proc, Open(p) PROVE Bounded'
  <2>1. /\ UNCHANGED <<backend, disk, open, acked, tears>> /\ up' = up \cup {p}
        /\ (backend = "jsonl" => up = {}) /\ index' = [index EXCEPT ![p] = Load(disk)]
    BY <1>4 DEF Open, History
  <2>2. Whole' = Whole /\ Missing' = Missing /\ AtRisk' = AtRisk
    BY <2>1 DEF Whole, Missing, AtRisk
  <2>3. ASSUME backend' = "jsonl", NEW q \in up', NEW t \in Tuples, index'[q].owner[t] = None
        PROVE  Whole'.owner[t] = None
    <3>1. q = p /\ index'[q] = Load(disk)
      BY <1>0, <2>1, <2>3
    <3> QED BY <2>2, <2>3, <3>1, LoadIsFree
  <2> QED BY <1>1, <2>1, <2>2, <2>3 DEF Bounded
<1>5. ASSUME NEW p \in up, Leave(p), UNCHANGED backend PROVE backend' = "jsonl" => up' = {}
  BY <1>0, <1>5 DEF Leave
<1>6. ASSUME NEW p \in Proc, Close(p) PROVE Bounded'
  <2>1. p \in up /\ Leave(p) /\ UNCHANGED <<backend, disk, open, acked, tears>>
    BY <1>6 DEF Close, History
  <2>2. Whole' = Whole /\ Missing' = Missing /\ AtRisk' = AtRisk
    BY <2>1 DEF Whole, Missing, AtRisk
  <2>3. backend' = "jsonl" => up' = {}
    BY <1>5, <2>1
  <2> QED BY <1>1, <2>1, <2>2, <2>3 DEF Bounded
<1>7. ASSUME NEW p \in Proc, NEW record \in InFlight(p), CrashAfterWrite(p, record) PROVE Bounded'
  <2>1. /\ p \in up /\ disk' = Written(record) /\ open' = FALSE /\ Leave(p)
        /\ UNCHANGED <<backend, acked, tears>>
    BY <1>7 DEF CrashAfterWrite, Appends
  <2>2. record \in Row \cup Idem /\ (record \in Idem => Whole.owner[record.tuple] = None)
    BY <2>1, InFlightTyped, InFlightFree
  <2>3. \A x \in Row \cup Idem : In(Whole, x) => In(Whole', x)
    BY <2>1, <2>2, WriteKeeps
  <2>4. Missing' \subseteq Missing
    BY <1>0, <2>1, <2>3 DEF Missing
  <2>5. IsFiniteSet(Missing)
    BY <1>1, FS_Subset DEF Missing
  <2>6. /\ Cardinality(Missing) \in Nat /\ Cardinality(Missing') \in Nat
        /\ Cardinality(Missing') <= Cardinality(Missing)
    BY <2>4, <2>5, CountOneMore
  <2>7. AtRisk \in {0, 1} /\ AtRisk' = 0 /\ tears' = tears
    BY <2>1 DEF AtRisk
  <2>8. Cardinality(Missing') + AtRisk' <= tears'
    BY <1>0, <1>1, <2>6, <2>7
  <2>9. backend' = "jsonl" => up' = {}
    BY <1>5, <2>1
  <2> QED BY <1>1, <2>1, <2>8, <2>9 DEF Bounded
<1>8. ASSUME NEW p \in Proc, NEW record \in InFlight(p), CrashMidWrite(p, record) PROVE Bounded'
  <2>1. p \in up /\ Torn(record) /\ Leave(p) /\ UNCHANGED <<backend, acked>>
    BY <1>8 DEF CrashMidWrite
  <2>2. backend' = "jsonl" => up' = {}
    BY <1>5, <2>1
  <2> QED BY <2>1, <2>2, TearBounded DEF Bounded
<1>9. ASSUME UNCHANGED <<backend, disk, open, up, index, acked, tears>> PROVE Bounded'
  <2>1. Whole' = Whole /\ Missing' = Missing /\ AtRisk' = AtRisk
    BY <1>9 DEF Whole, Missing, AtRisk
  <2> QED BY <1>1, <1>9, <2>1 DEF Bounded
<1>10. ASSUME NEW p \in Proc, NEW record \in InFlight(p), WriteFails(p, record) PROVE Bounded'
  <2>1. /\ p \in up /\ UNCHANGED <<backend, up, index, acked>>
        /\ Torn(record) \/ UNCHANGED <<disk, open, tears>>
    BY <1>10 DEF WriteFails
  <2>2. CASE Torn(record)
    <3>1. /\ IsFiniteSet(acked') /\ Cardinality(Missing') + AtRisk' <= tears' /\ Whole' = Whole
          /\ open' /\ disk'[Len(disk')] \in Idem => Whole'.owner[disk'[Len(disk')].tuple] = None
      BY <2>1, <2>2, TearBounded
    <3>2. backend' = "jsonl" =>
             \A q \in up', t \in Tuples : index'[q].owner[t] = None => Whole'.owner[t] = None
      BY <1>1, <2>1, <3>1
    <3> QED BY <3>1, <3>2 DEF Bounded
  <2>3. CASE UNCHANGED <<disk, open, tears>>
    BY <1>9, <2>1, <2>3
  <2> QED BY <2>1, <2>2, <2>3
<1>11. CASE UNCHANGED vars
  BY <1>9, <1>11 DEF vars
<1>12. CASE Next
  <2>1. \E p \in Proc : Moves(p)
    BY <1>12, NextMoves
  <2> QED BY <1>2, <1>3, <1>4, <1>6, <1>7, <1>8, <1>10, <2>1 DEF Moves
<1> QED BY <1>11, <1>12

LEMMA BoundedInit == Init => Bounded
<1> SUFFICES ASSUME Init PROVE Bounded
  OBVIOUS
<1>1. Missing = {} /\ AtRisk = 0
  BY DEF Init, Missing, AtRisk
<1> QED BY <1>1, FS_EmptySet DEF Init, Bounded

\* A stream that is not hit: the whole lines number its rows 1, 2, 3 and have every one that was acknowledged,
\* and the process that uses a JSONL store has the same rows in its index.
Untouched(s) ==
    /\ \A i \in 1..Len(Whole.rows[s]) : Whole.rows[s][i].n = i
    /\ backend = "jsonl" => \A p \in up : index[p].rows[s] = Whole.rows[s]
    /\ \A x \in acked : x \in Row /\ x.stream = s => Has(Whole.rows[s], [n |-> x.n, what |-> x.what])
Spared ==
    /\ open /\ disk[Len(disk)] \in Row => disk[Len(disk)].stream \in hit
    /\ \A s \in Streams \ hit : Untouched(s)

\* A row without its newline belongs to a stream that is hit.
LEMMA SparedRead ==
    ASSUME Stored, Spared, NEW s \in Streams \ hit
    PROVE  Load(disk).rows[s] = Whole.rows[s]
<1>1. CASE open
  <2> DEFINE last == disk[Len(disk)]
  <2>1. Whole \in Content /\ last \in Line /\ Load(disk) = Taken(Whole, last)
    BY <1>1, LoadLast DEF Stored, Whole
  <2>2. last \in Row => last.stream \in hit
    BY <1>1 DEF Spared
  <2> HIDE DEF last
  <2>3. Whole.rows \in [Streams -> Seq(Numbered)]
    BY <2>1 DEF Content
  <2>4. CASE last = Garbage
    BY <2>1, <2>4, TakenIs
  <2>5. CASE last # Garbage /\ last \in Idem
    <3>1. Taken(Whole, last).rows = Whole.rows
      BY <2>1, <2>5, TakenIs
    <3> QED BY <2>1, <3>1
  <2>6. CASE last # Garbage /\ last \in Row
    <3> DEFINE placed == Placed(Whole.rows[last.stream], [n |-> last.n, what |-> last.what])
    <3>1. Taken(Whole, last).rows = [Whole.rows EXCEPT ![last.stream] = placed]
      BY <2>1, <2>6, TakenIs
    <3>2. last.stream # s
      BY <2>2, <2>6
    <3> HIDE DEF placed
    <3> QED BY <2>1, <2>3, <3>1, <3>2
  <2> QED BY <2>1, <2>4, <2>5, <2>6 DEF Line
<1>2. CASE ~open
  BY <1>2 DEF Whole
<1> QED BY <1>1, <1>2

\* In such a stream the next row is the last, and its number the next.
LEMMA SparedNumber ==
    ASSUME Stored, Spared, NEW p \in up, NEW s \in Streams \ hit, NEW e \in Entries,
           NEW rows, rows = Whole.rows[s]
    PROVE  /\ rows \in Seq(Numbered) /\ Contents(p).rows[s] = rows
           /\ NextNumber(p, s) = Len(rows) + 1
           /\ Placed(rows, [n |-> NextNumber(p, s), what |-> e]) = Append(rows, [n |-> Len(rows) + 1, what |-> e])
<1>1. /\ \A i \in 1..Len(rows) : rows[i].n = i
      /\ backend = "jsonl" => index[p].rows[s] = rows
  BY DEF Spared, Untouched
<1>2. rows \in Seq(Numbered)
  BY WholeIsContent DEF Content
<1>3. Contents(p).rows[s] = rows
  <2>1. CASE backend = "jsonl"
    BY <1>1, <2>1 DEF Contents
  <2>2. CASE backend = "sqlite"
    BY <2>2, SparedRead DEF Contents
  <2> QED BY <2>1, <2>2 DEF Stored
<1>4. NextNumber(p, s) = IF rows = << >> THEN 1 ELSE rows[Len(rows)].n + 1
  BY <1>3 DEF NextNumber
<1>5. NextNumber(p, s) = Len(rows) + 1
  <2>1. CASE rows = << >>
    BY <1>4, <2>1
  <2>2. CASE rows # << >>
    <3>1. Len(rows) \in 1..Len(rows)
      BY <1>2, <2>2
    <3> QED BY <1>1, <1>4, <2>2, <3>1
  <2> QED BY <2>1, <2>2
<1> DEFINE row == [n |-> Len(rows) + 1, what |-> e]
<1>6. row \in Numbered /\ row.n = Len(rows) + 1
  BY <1>2 DEF Numbered
<1>7. [n |-> NextNumber(p, s), what |-> e] = row
  BY <1>5
<1> HIDE DEF row
<1>8. \A i \in DOMAIN rows : rows[i].n <= row.n
  <2>1. DOMAIN rows = 1..Len(rows) /\ Len(rows) \in Nat
    BY <1>2
  <2> QED BY <1>1, <1>6, <2>1
<1>9. Placed(rows, row) = Append(rows, row)
  BY <1>2, <1>6, <1>8, PlacedIs
<1> QED BY <1>2, <1>3, <1>5, <1>7, <1>9 DEF row

\* What a completed write does to the rows of a stream.
LEMMA RowsWritten ==
    ASSUME Stored, NEW record \in Row \cup Idem, Appends(record), NEW s \in Streams \ hit'
    PROVE  /\ s \notin hit
           /\ record \in Row /\ record.stream = s =>
                 /\ ~open
                 /\ Whole'.rows[s] = Placed(Whole.rows[s], [n |-> record.n, what |-> record.what])
           /\ ~(record \in Row /\ record.stream = s) => Whole'.rows[s] = Whole.rows[s]
<1>1. record \in Line /\ record # Garbage /\ Whole \in Content
  BY WholeIsContent, GarbageAssumption DEF Line, GarbageAssumption
<1>2. Whole' = IF open THEN Whole ELSE Taken(Whole, record)
  BY <1>1, WholeAfterWrite DEF Appends
<1>3. s \notin hit /\ (record \in Row /\ record.stream = s => ~open)
  <2>1. record \in Row => IsRow(record)
    BY DEF Row, IsRow
  <2> QED BY <2>1 DEF Appends, Struck
<1>4. Whole.rows \in [Streams -> Seq(Numbered)]
  BY <1>1 DEF Content
<1>5. CASE open
  BY <1>2, <1>3, <1>5
<1>6. CASE ~open /\ record \in Idem
  <2>1. Taken(Whole, record).rows = Whole.rows /\ record \notin Row
    BY <1>1, <1>6, TakenIs DEF Row, Idem
  <2> QED BY <1>2, <1>3, <1>6, <2>1
<1>7. CASE ~open /\ record \in Row
  <2> DEFINE placed == Placed(Whole.rows[record.stream], [n |-> record.n, what |-> record.what])
  <2>1. Taken(Whole, record).rows = [Whole.rows EXCEPT ![record.stream] = placed] /\ record.stream \in Streams
    BY <1>1, <1>7, TakenIs DEF Row
  <2>2. record.stream = s => placed = Placed(Whole.rows[s], [n |-> record.n, what |-> record.what])
    OBVIOUS
  <2> HIDE DEF placed
  <2>3. Whole'.rows[s] = IF record.stream = s THEN placed ELSE Whole.rows[s]
    BY <1>2, <1>4, <1>7, <2>1
  <2> QED BY <1>3, <1>7, <2>2, <2>3
<1> QED BY <1>5, <1>6, <1>7

LEMMA HasAppended ==
    ASSUME NEW rows \in Seq(Numbered), NEW row \in Numbered
    PROVE  /\ Has(Append(rows, row), row)
           /\ \A x : Has(rows, x) => Has(Append(rows, row), x)
<1> DEFINE all == Append(rows, row)
<1>1. /\ DOMAIN rows = 1..Len(rows) /\ Len(rows) \in Nat /\ DOMAIN all = 1..(Len(rows) + 1)
      /\ all[Len(rows) + 1] = row /\ \A i \in 1..Len(rows) : all[i] = rows[i]
  BY AppendProperties
<1> HIDE DEF all
<1>2. Has(all, row)
  BY <1>1 DEF Has
<1>3. ASSUME NEW x, Has(rows, x) PROVE Has(all, x)
  <2>1. PICK j \in 1..Len(rows) : rows[j] = x
    BY <1>1, <1>3 DEF Has
  <2>2. j \in DOMAIN all /\ all[j] = x
    BY <1>1, <2>1
  <2> QED BY <2>2 DEF Has
<1> QED BY <1>2, <1>3 DEF all

\* A completed write keeps the streams that are not hit as they should be.
LEMMA WriteSpares ==
    ASSUME Stored, Spared, NEW p \in up, NEW record \in InFlight(p), Appends(record),
           acked' \subseteq acked \cup {record}, UNCHANGED backend,
           backend = "jsonl" => \A q \in up', x \in Streams :
               /\ record \in Row /\ record.stream = x =>
                     index'[q].rows[x] = Append(Contents(p).rows[x], [n |-> record.n, what |-> record.what])
               /\ ~(record \in Row /\ record.stream = x) => index'[q].rows[x] = Contents(p).rows[x]
    PROVE  Spared'
<1>1. record \in Row \cup Idem /\ ~open'
  BY InFlightTyped DEF Stored, Appends
<1> SUFFICES ASSUME NEW s \in Streams \ hit'
             PROVE  /\ \A i \in 1..Len(Whole'.rows[s]) : Whole'.rows[s][i].n = i
                    /\ backend = "jsonl" => \A q \in up' : index'[q].rows[s] = Whole'.rows[s]
                    /\ \A x \in acked' : x \in Row /\ x.stream = s => Has(Whole'.rows[s], [n |-> x.n, what |-> x.what])
  BY <1>1 DEF Spared, Untouched
<1>2. s \in Streams \ hit
  BY <1>1, RowsWritten
<1> DEFINE rows == Whole.rows[s]
           more == Whole'.rows[s]
<1>3. /\ rows \in Seq(Numbered) /\ \A i \in 1..Len(rows) : rows[i].n = i
      /\ backend = "jsonl" => \A q \in up : index[q].rows[s] = rows
      /\ \A x \in acked : x \in Row /\ x.stream = s => Has(rows, [n |-> x.n, what |-> x.what])
  BY <1>2, WholeIsContent DEF Content, Spared, Untouched
<1>4. CASE record \in Row /\ record.stream = s
  <2>1. PICK e \in Entries : record = RowFor(p, s, e)
    BY <1>4 DEF InFlight, RowFor, Row
  <2> DEFINE row == [n |-> Len(rows) + 1, what |-> e]
  <2>2. /\ record.n = NextNumber(p, s) /\ record.what = e
    BY <2>1 DEF RowFor
  <2>3. /\ Contents(p).rows[s] = rows /\ NextNumber(p, s) = Len(rows) + 1
        /\ Placed(rows, [n |-> NextNumber(p, s), what |-> e]) = Append(rows, row)
    BY <1>2, SparedNumber
  <2>4. more = Placed(rows, [n |-> record.n, what |-> record.what])
    BY <1>1, <1>4, RowsWritten
  <2>5. [n |-> record.n, what |-> record.what] = row
    BY <2>2, <2>3
  <2>6. row \in Numbered /\ row.n = Len(rows) + 1
    BY <1>3 DEF Numbered
  <2> HIDE DEF row, rows, more
  <2>7. more = Append(rows, row)
    BY <2>2, <2>3, <2>4
  <2>8. /\ Len(more) = Len(rows) + 1 /\ more[Len(rows) + 1] = row /\ Len(rows) \in Nat
        /\ \A i \in 1..Len(rows) : more[i] = rows[i]
    BY <1>3, <2>6, <2>7, AppendProperties
  <2>9. \A i \in 1..Len(more) : more[i].n = i
    <3> TAKE i \in 1..Len(more)
    <3>1. i \in 1..Len(rows) \/ i = Len(rows) + 1
      BY <2>8
    <3> QED BY <1>3, <2>6, <2>8, <3>1
  <2>10. backend = "jsonl" => \A q \in up' : index'[q].rows[s] = more
    BY <1>2, <1>4, <2>3, <2>5, <2>7
  <2>11. \A x \in acked' : x \in Row /\ x.stream = s => Has(more, [n |-> x.n, what |-> x.what])
    <3> SUFFICES ASSUME NEW x \in acked', x \in Row, x.stream = s PROVE Has(more, [n |-> x.n, what |-> x.what])
      OBVIOUS
    <3>1. CASE x \in acked
      BY <1>3, <2>6, <2>7, <3>1, HasAppended
    <3>2. CASE x = record
      BY <1>3, <2>5, <2>6, <2>7, <3>2, HasAppended
    <3> QED BY <3>1, <3>2
  <2> QED BY <2>9, <2>10, <2>11 DEF more
<1>5. CASE ~(record \in Row /\ record.stream = s)
  <2>1. more = rows
    BY <1>1, <1>5, RowsWritten
  <2>2. Contents(p).rows[s] = rows
    <3>1. CASE backend = "jsonl"
      BY <1>3, <3>1 DEF Contents
    <3>2. CASE backend = "sqlite"
      BY <1>2, <3>2, SparedRead DEF Contents
    <3> QED BY <3>1, <3>2 DEF Stored
  <2> HIDE DEF rows, more
  <2>3. backend = "jsonl" => \A q \in up' : index'[q].rows[s] = more
    BY <1>2, <1>5, <2>1, <2>2
  <2>4. \A x \in acked' : x \in Row /\ x.stream = s => Has(more, [n |-> x.n, what |-> x.what])
    BY <1>3, <1>5, <2>1
  <2> QED BY <1>3, <2>1, <2>3, <2>4 DEF more
<1> QED BY <1>4, <1>5

LEMMA TearSpares ==
    ASSUME Stored, Spared, NEW p \in up, NEW record \in InFlight(p), Torn(record), UNCHANGED <<backend, acked>>,
           backend = "jsonl" => up' \subseteq up /\ \A q \in up' : index'[q] = index[q]
    PROVE  Spared'
<1>1. record \in Row \cup Idem
  BY InFlightTyped DEF Stored
<1>2. Whole' = Whole
  BY <1>1, WholeAfterTear
<1>3. /\ hit' = Struck(record)
      /\ \E line \in {record, Garbage} :
            /\ open => disk'[Len(disk')] = Garbage
            /\ ~open => disk'[Len(disk')] = line
  BY <1>1, TornIs DEF Torn
<1>4. disk'[Len(disk')] \in Row => disk'[Len(disk')] = record
  BY <1>3, GarbageAssumption DEF GarbageAssumption
<1>5. hit \subseteq hit' /\ (record \in Row => record.stream \in hit')
  BY <1>3 DEF Struck, Row, IsRow
<1>6. disk'[Len(disk')] \in Row => disk'[Len(disk')].stream \in hit'
  BY <1>4, <1>5
<1>7. ASSUME NEW s \in Streams \ hit' PROVE Untouched(s)'
  <2>1. Untouched(s)
    BY <1>5, <1>7 DEF Spared
  <2> QED BY <1>2, <2>1 DEF Untouched
<1> QED BY <1>6, <1>7 DEF Spared

LEMMA SparedNext == Stored /\ Scoped /\ Spared /\ [Next]_vars => Spared'
<1> SUFFICES ASSUME Stored, Scoped, Spared, [Next]_vars PROVE Spared'
  OBVIOUS
<1>0. /\ up \subseteq Proc /\ (backend = "jsonl" => \A p, q \in up : p = q) /\ index \in [Proc -> Content]
  BY DEF Stored
<1>1. ASSUME NEW p \in Proc, NEW record \in InFlight(p), NEW contents \in Content, p \in up,
             Acknowledge(p, record, contents),
             \A x \in Streams :
               /\ record \in Row /\ record.stream = x =>
                     contents.rows[x] = Append(Contents(p).rows[x], [n |-> record.n, what |-> record.what])
               /\ ~(record \in Row /\ record.stream = x) => contents.rows[x] = Contents(p).rows[x]
      PROVE  Spared'
  <2>1. /\ Appends(record) /\ index' = [index EXCEPT ![p] = contents] /\ acked' = acked \cup {record}
        /\ UNCHANGED <<backend, up>>
    BY <1>1 DEF Acknowledge
  <2>2. backend = "jsonl" => \A q \in up' : index'[q] = contents
    BY <1>0, <1>1, <2>1
  <2> QED BY <1>1, <2>1, <2>2, WriteSpares
<1>2. ASSUME NEW p \in Proc, NEW s \in Streams, NEW e \in Entries, Grown(p, s, e) PROVE Spared'
  <2> DEFINE record == RowFor(p, s, e)
             contents == WithRow(Contents(p), s, NextNumber(p, s), e)
  <2>1. record \in Row /\ contents \in Content /\ p \in up /\ Acknowledge(p, record, contents)
    BY <1>2, GrownTyped DEF Grown
  <2>2. record \in InFlight(p)
    BY DEF InFlight
  <2>3. /\ record.stream = s /\ record.n = NextNumber(p, s) /\ record.what = e
        /\ contents.rows = [Contents(p).rows EXCEPT ![s] = Append(@, [n |-> NextNumber(p, s), what |-> e])]
    BY DEF RowFor, WithRow
  <2>4. Contents(p).rows \in [Streams -> Seq(Numbered)]
    BY ContentsTyped DEF Content
  <2> HIDE DEF record, contents
  <2>5. \A x \in Streams :
           /\ record \in Row /\ record.stream = x =>
                 contents.rows[x] = Append(Contents(p).rows[x], [n |-> record.n, what |-> record.what])
           /\ ~(record \in Row /\ record.stream = x) => contents.rows[x] = Contents(p).rows[x]
    BY <2>1, <2>3, <2>4
  <2> QED BY <1>1, <2>1, <2>2, <2>5
<1>3. ASSUME NEW p \in Proc, NEW t \in Tuples, NEW o \in Owner, Claimed(p, t, o) PROVE Spared'
  <2> DEFINE record == [tuple |-> t, owner |-> o]
             contents == WithOwner(Contents(p), t, o)
  <2>1. /\ record \in Idem /\ contents \in Content /\ p \in up /\ Acknowledge(p, record, contents)
        /\ Contents(p).owner[t] = None
    BY <1>3, ClaimedTyped DEF Claimed
  <2>2. record \in InFlight(p) /\ record \notin Row /\ contents.rows = Contents(p).rows
    BY <2>1 DEF InFlight, Row, WithOwner
  <2> HIDE DEF record, contents
  <2> QED BY <1>1, <2>1, <2>2
<1>4. ASSUME NEW p \in Proc, Open(p) PROVE Spared'
  <2>1. /\ UNCHANGED <<backend, disk, open, acked, hit>> /\ up' = up \cup {p}
        /\ (backend = "jsonl" => up = {}) /\ index' = [index EXCEPT ![p] = Load(disk)]
    BY <1>4 DEF Open
  <2>2. Whole' = Whole
    BY <2>1 DEF Whole
  <2>3. ASSUME NEW s \in Streams \ hit PROVE Untouched(s)'
    <3>1. Untouched(s) /\ Load(disk).rows[s] = Whole.rows[s]
      BY <2>3, SparedRead DEF Spared
    <3>2. backend = "jsonl" => \A q \in up' : index'[q] = Load(disk)
      BY <1>0, <2>1
    <3> QED BY <2>1, <2>2, <3>1, <3>2 DEF Untouched
  <2> QED BY <2>1, <2>3 DEF Spared
<1>5. ASSUME NEW p \in up, Leave(p), UNCHANGED backend PROVE backend' = "jsonl" => up' = {}
  BY <1>0, <1>5 DEF Leave
<1>6. ASSUME UNCHANGED <<backend, disk, open, acked, hit>>,
             backend = "jsonl" => up' \subseteq up /\ \A q \in up' : index'[q] = index[q]
      PROVE  Spared'
  <2>1. Whole' = Whole
    BY <1>6 DEF Whole
  <2>2. ASSUME NEW s \in Streams \ hit PROVE Untouched(s)'
    <3>1. Untouched(s)
      BY <2>2 DEF Spared
    <3> QED BY <1>6, <2>1, <3>1 DEF Untouched
  <2> QED BY <1>6, <2>2 DEF Spared
<1>7. ASSUME NEW p \in Proc, Close(p) PROVE Spared'
  <2>1. p \in up /\ Leave(p) /\ UNCHANGED <<backend, disk, open, acked, hit>>
    BY <1>7 DEF Close
  <2>2. backend' = "jsonl" => up' = {}
    BY <1>5, <2>1
  <2> QED BY <1>6, <2>1, <2>2
<1>8. ASSUME NEW p \in Proc, NEW record \in InFlight(p), CrashAfterWrite(p, record) PROVE Spared'
  <2>1. p \in up /\ Appends(record) /\ Leave(p) /\ UNCHANGED <<backend, acked>>
    BY <1>8 DEF CrashAfterWrite
  <2>2. backend' = "jsonl" => up' = {}
    BY <1>5, <2>1
  <2> QED BY <2>1, <2>2, WriteSpares
<1>9. ASSUME NEW p \in Proc, NEW record \in InFlight(p), CrashMidWrite(p, record) PROVE Spared'
  <2>1. p \in up /\ Torn(record) /\ Leave(p) /\ UNCHANGED <<backend, acked>>
    BY <1>9 DEF CrashMidWrite
  <2>2. backend' = "jsonl" => up' = {}
    BY <1>5, <2>1
  <2> QED BY <2>1, <2>2, TearSpares
<1>10. ASSUME NEW p \in Proc, NEW record \in InFlight(p), WriteFails(p, record) PROVE Spared'
  <2>1. /\ p \in up /\ UNCHANGED <<backend, up, index, acked>>
        /\ Torn(record) \/ UNCHANGED <<disk, open, hit>>
    BY <1>10 DEF WriteFails
  <2>2. CASE Torn(record)
    BY <2>1, <2>2, TearSpares
  <2>3. CASE UNCHANGED <<disk, open, hit>>
    BY <1>6, <2>1, <2>3
  <2> QED BY <2>1, <2>2, <2>3
<1>11. CASE UNCHANGED vars
  BY <1>6, <1>11 DEF vars
<1>12. CASE Next
  <2>1. \E p \in Proc : Moves(p)
    BY <1>12, NextMoves
  <2> QED BY <1>2, <1>3, <1>4, <1>7, <1>8, <1>9, <1>10, <2>1 DEF Moves
<1> QED BY <1>11, <1>12

LEMMA SparedInit == Init => Spared
<1> SUFFICES ASSUME Init PROVE Spared
  OBVIOUS
<1>1. ~open /\ Whole = Empty /\ up = {} /\ acked = {}
  BY LoadNothing DEF Init, Whole
<1>2. \A s \in Streams : Whole.rows[s] = << >>
  BY <1>1 DEF Empty
<1> QED BY <1>1, <1>2 DEF Spared, Untouched

\* Whoever opens the store next reads every acknowledged row of a stream that is not hit.
LEMMA LostAreHit == Stored /\ Spared => LostStreams \subseteq hit
<1> SUFFICES ASSUME Stored, Spared, NEW record \in acked, IsRow(record), record.stream \notin hit
             PROVE  Recovered(record)
  BY DEF LostStreams
<1>1. record \in Row /\ ~IsIdem(record) /\ record.stream \in Streams
  BY DEF Stored, Row, Idem, IsRow, IsIdem
<1> DEFINE s == record.stream
           rows == Whole.rows[s]
           row == [n |-> record.n, what |-> record.what]
<1>2. rows \in Seq(Numbered) /\ Load(disk).rows[s] = rows
  BY <1>1, WholeIsContent, SparedRead DEF Content
<1>3. Untouched(s)
  BY <1>1 DEF Spared
<1>4. (\A i \in 1..Len(rows) : rows[i].n = i) /\ Has(rows, row)
  BY <1>1, <1>3 DEF Untouched
<1>5. DOMAIN rows = 1..Len(rows)
  BY <1>2
<1> HIDE DEF rows, row
<1>6. Gapless(s)
  BY <1>2, <1>4, <1>5 DEF Gapless
<1>7. \E i \in DOMAIN Load(disk).rows[s] : Load(disk).rows[s][i] = row
  BY <1>2, <1>4 DEF Has
<1>8. OnDisk(record)
  BY <1>1, <1>7 DEF OnDisk, row
<1> QED BY <1>6, <1>8 DEF Recovered

\* A torn write costs at most one acknowledged record, the one written onto the torn line after recovery, and
\* what readers lose with it, when the gap makes events() and get() throw, is the stream of a row that was torn
\* or written onto a torn line: load() in jsonl.ts reads every acknowledged row of the others, in its place.
THEOREM LossStaysBounded == Spec => []LossIsBounded
<1>1. Stored /\ Scoped /\ Bounded /\ Spared /\ [Next]_vars => Bounded' /\ Spared'
  BY BoundedNext, SparedNext
<1>2. Stored /\ Bounded /\ Spared => LossIsBounded
  BY LossBound, LostAreHit DEF LossIsBounded
<1> QED BY <1>1, <1>2, BoundedInit, SparedInit, StoreIsTyped, PTL DEF Spec
=============================================================================
