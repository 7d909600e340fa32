----------------------------- MODULE EventStore -----------------------------
(***************************************************************************)
(* The persistent event stores of packages/event-store/src: base.ts over   *)
(* the JSONL backend, a file of one record per line with an index in       *)
(* memory, or over the SQLite backend, whose statements number and insert  *)
(* a row, or insert a claim if absent, under one write lock.               *)
(*                                                                         *)
(* JSONL numbers rows from an in-process index and says that it supports   *)
(* one process at a time; SQLite is opened by all of them.  A crash or a   *)
(* failed write may leave a torn line: a fragment, or a record without its *)
(* newline.  Not modelled: payloads beyond what tells two rows apart,      *)
(* serialisation, redaction and the cache of live run objects, which       *)
(* ActionRuntime has.                                                      *)
(***************************************************************************)
EXTENDS Naturals, Sequences, FiniteSets, TLC

CONSTANTS
    Proc,       \* processes that open the store
    Backends,   \* subset of {"jsonl", "sqlite"}
    Scopes,     \* tenant, workspace and snapshot
    Default,    \* the scope of a run the unscoped root has not saved
    Runs,
    Entries,    \* event types, or states of a saved run
    Tuples,     \* idempotency tuples
    Prints,     \* input fingerprints
    MaxLines,   \* bound on the lines or rows written
    MaxFaults,  \* bound on crashes and failed writes
    Garbage,    \* a line that does not parse
    None

VARIABLES
    backend,   \* which backend this store has
    disk,      \* lines of the file, or rows in the order of their commit
    open,      \* the last line of the file has no newline
    up,        \* processes that have the store open
    index,     \* process -> what its backend read and wrote since it opened
    runScopes, \* process -> run -> scope learned by the root's save(), or None
    acked,     \* records whose write returned to its caller (history)
    tears,     \* torn writes (history)
    hit,       \* streams of the rows that were torn, or written onto a torn line (history)
    frozen,    \* what readers saw before the first torn write (history)
    faults     \* crashes and failed writes so far (bound)

vars == <<backend, disk, open, up, index, runScopes, acked, tears, hit, frozen, faults>>

-----------------------------------------------------------------------------
(* Records and recovery *)

Streams == {"event", "revision"} \X Scopes \X Runs
Owner   == [print : Prints, run : Runs]
Row     == [stream : Streams, n : Nat \ {0}, what : Entries]
Idem    == [tuple : Tuples, owner : Owner]

BackendsAssumption == Backends \subseteq {"jsonl", "sqlite"}
DefaultAssumption  == Default \in Scopes
BoundAssumption    == MaxLines \in Nat /\ MaxFaults \in Nat
GarbageAssumption  == Garbage \notin Row \cup Idem
NoneAssumption     == None \notin Owner
ASSUME BackendsAssumption
ASSUME DefaultAssumption
ASSUME BoundAssumption
ASSUME GarbageAssumption
ASSUME NoneAssumption

IsRow(line)  == "stream" \in DOMAIN line
IsIdem(line) == "tuple" \in DOMAIN line

\* What a backend answers from: the rows of every stream and the owner of every tuple.
Empty == [rows |-> [s \in Streams |-> << >>], owner |-> [t \in Tuples |-> None]]

\* A row in its place: the rows of a stream are sorted by their number.
Placed(rows, row) ==
    LET k == Cardinality({i \in DOMAIN rows : rows[i].n <= row.n})
    IN SubSeq(rows, 1, k) \o <<row>> \o SubSeq(rows, k + 1, Len(rows))

Entered(contents, line) ==
    IF IsRow(line)
    THEN [rows  |-> [contents.rows EXCEPT ![line.stream] = Placed(@, [n |-> line.n, what |-> line.what])],
          owner |-> contents.owner]
    ELSE [rows  |-> contents.rows,
          owner |-> [contents.owner EXCEPT ![line.tuple] = line.owner]]

\* Mutant: a line that does not parse makes recovery start over.
Restarted(contents, line) == IF line = Garbage THEN Empty ELSE Entered(contents, line)
\* A line that does not parse is skipped, wherever it is.
Taken(contents, line) == IF line = Garbage THEN contents ELSE Entered(contents, line)

\* load(): line after line.
Load(lines) ==
    LET after[i \in 0..Len(lines)] == IF i = 0 THEN Empty ELSE Taken(after[i - 1], lines[i])
    IN after[Len(lines)]

\* Mutant: SQLite, too, numbers and claims by what the process has read so far.
Cached(p) == index[p]
\* What the backend of p answers from: JSONL its index, SQLite the table.
Contents(p) == IF backend = "sqlite" THEN Load(disk) ELSE index[p]

\* What a reader sees, or would see on opening the store.
View == IF backend = "jsonl" /\ up # {} THEN index[CHOOSE p \in up : TRUE] ELSE Load(disk)

Init ==
    /\ backend \in Backends
    /\ disk = << >>
    /\ open = FALSE
    /\ up = {}
    /\ index = [p \in Proc |-> Empty]
    /\ runScopes = [p \in Proc |-> [r \in Runs |-> None]]
    /\ acked = {}
    /\ tears = 0
    /\ hit = {}
    /\ frozen = Empty
    /\ faults = 0

-----------------------------------------------------------------------------
(* Writing *)

\* appendFileSync: bytes that follow an unterminated line become part of it.
Written(record) == IF open THEN [disk EXCEPT ![Len(disk)] = Garbage]
                   ELSE Append(disk, record)

\* Mutant: numbering from zero.
ZeroBased(p, s) == Len(Contents(p).rows[s])
\* MAX(sequence) + 1, or the last row's sequence + 1.
NextNumber(p, s) == LET rows == Contents(p).rows[s]
                    IN IF rows = << >> THEN 1 ELSE rows[Len(rows)].n + 1

\* The stream of a row that is torn, or written onto a torn line, is hit.
Struck(record) == hit \cup IF IsRow(record) THEN {record.stream} ELSE {}

RowFor(p, s, e) == [stream |-> s, n |-> NextNumber(p, s), what |-> e]

Room == Len(disk) < MaxLines
History == <<tears, frozen, faults>>
Appends(record) == /\ disk' = Written(record)
                   /\ open' = FALSE
                   /\ hit' = IF open THEN Struck(record) ELSE hit

\* A record is written, taken into the index, and its number is returned.
Acknowledge(p, record, contents) ==
    /\ Appends(record)
    /\ index' = [index EXCEPT ![p] = contents]
    /\ acked' = acked \cup {record}
    /\ UNCHANGED <<backend, up, History>>

AppendTo(p, s, e) ==
    /\ p \in up /\ Room
    /\ Acknowledge(p, RowFor(p, s, e),
           [rows  |-> [Contents(p).rows EXCEPT ![s] = Append(@, [n |-> NextNumber(p, s), what |-> e])],
            owner |-> Contents(p).owner])

\* scopeFor(): the scope the root learned for the run in this process.
ScopeFor(p, r) == IF runScopes[p][r] = None THEN Default ELSE runScopes[p][r]

RootAppend(p, r, e) ==
    /\ AppendTo(p, <<"event", ScopeFor(p, r), r>>, e)
    /\ UNCHANGED runScopes

Admits(p, r, sc) == runScopes[p][r] \in {None, sc}

\* save() on the root: one run id has one scope, as far as this process knows.
RootSave(p, r, sc, e) ==
    /\ Admits(p, r, sc)
    /\ AppendTo(p, <<"revision", sc, r>>, e)
    /\ runScopes' = [runScopes EXCEPT ![p][r] = sc]

ScopedAppend(p, sc, r, e) ==
    /\ AppendTo(p, <<"event", sc, r>>, e)
    /\ UNCHANGED runScopes

ScopedSave(p, sc, r, e) ==
    /\ AppendTo(p, <<"revision", sc, r>>, e)
    /\ UNCHANGED runScopes

\* claimIdempotency(): only the first claim writes; a later one replays or conflicts.
Claim(p, t, o) ==
    /\ p \in up /\ Room /\ Contents(p).owner[t] = None
    /\ Acknowledge(p, [tuple |-> t, owner |-> o],
           [rows |-> Contents(p).rows, owner |-> [Contents(p).owner EXCEPT ![t] = o]])
    /\ UNCHANGED runScopes

-----------------------------------------------------------------------------
(* Opening, closing, crashing *)

Open(p) ==
    /\ p \notin up /\ (backend = "jsonl" => up = {})
    /\ up' = up \cup {p}
    /\ index' = [index EXCEPT ![p] = Load(disk)]
    /\ runScopes' = [runScopes EXCEPT ![p] = [r \in Runs |-> None]]
    /\ UNCHANGED <<backend, disk, open, acked, hit, History>>

Leave(p) == /\ up' = up \ {p}
            /\ index' = [index EXCEPT ![p] = Empty]
            /\ runScopes' = [runScopes EXCEPT ![p] = [r \in Runs |-> None]]

Close(p) ==
    /\ p \in up /\ Leave(p)
    /\ UNCHANGED <<backend, disk, open, acked, hit, History>>

\* The records a process may be writing when it dies or the write fails.
InFlight(p) ==
    {RowFor(p, s, e) : s \in Streams, e \in Entries}
      \cup {[tuple |-> t, owner |-> o] : t \in {u \in Tuples : Contents(p).owner[u] = None},
                                         o \in Owner}

\* The write completed and its caller died before it heard.
CrashAfterWrite(p, record) ==
    /\ p \in up /\ Room /\ faults < MaxFaults
    /\ Appends(record)
    /\ Leave(p)
    /\ faults' = faults + 1
    /\ UNCHANGED <<backend, acked, tears, frozen>>

\* What a write that stops early leaves in the file: a part of the record, or all
\* of it but the newline.  SQLite rolls it back.
Torn(record) ==
    /\ backend = "jsonl"
    /\ disk' \in {Written(record), Written(Garbage)}
    /\ open' = TRUE
    /\ tears' = tears + 1
    /\ hit' = Struck(record)
    /\ frozen' = IF tears = 0 THEN View ELSE frozen

CrashMidWrite(p, record) ==
    /\ p \in up /\ Room /\ faults < MaxFaults
    /\ Torn(record)
    /\ Leave(p)
    /\ faults' = faults + 1
    /\ UNCHANGED <<backend, acked>>

\* The write throws (a full disk): the caller hears of it, the index does not have
\* the record, and the root's save() has already learned the run's scope.
WriteFails(p, record) ==
    /\ p \in up /\ Room /\ faults < MaxFaults
    /\ Torn(record) \/ UNCHANGED <<disk, open, tears, hit, frozen>>
    /\ \/ UNCHANGED runScopes
       \/ /\ IsRow(record) /\ record.stream[1] = "revision"
          /\ Admits(p, record.stream[3], record.stream[2])
          /\ runScopes' = [runScopes EXCEPT ![p][record.stream[3]] = record.stream[2]]
    /\ faults' = faults + 1
    /\ UNCHANGED <<backend, up, index, acked>>

Writes(p) ==
    \/ \E r \in Runs, e \in Entries : RootAppend(p, r, e)
    \/ \E r \in Runs, sc \in Scopes, e \in Entries :
          RootSave(p, r, sc, e) \/ ScopedAppend(p, sc, r, e) \/ ScopedSave(p, sc, r, e)
    \/ \E t \in Tuples, o \in Owner : Claim(p, t, o)

Next == \E p \in Proc :
    \/ Writes(p) \/ Open(p) \/ Close(p)
    \/ \E record \in InFlight(p) :
          CrashAfterWrite(p, record) \/ CrashMidWrite(p, record) \/ WriteFails(p, record)

Spec == Init /\ [][Next]_vars

-----------------------------------------------------------------------------
(* Properties *)

TypeOK ==
    /\ backend \in Backends
    /\ disk \in Seq(Row \cup Idem \cup {Garbage}) /\ Len(disk) <= MaxLines
    /\ open \in BOOLEAN /\ (open => backend = "jsonl" /\ disk # << >>)
    /\ up \subseteq Proc /\ (backend = "jsonl" => Cardinality(up) <= 1)
    /\ \A p \in Proc : /\ index[p].rows \in [Streams -> Seq([n : 1..MaxLines + MaxFaults, what : Entries])]
                       /\ index[p].owner \in [Tuples -> Owner \cup {None}]
    /\ runScopes \in [Proc -> [Runs -> Scopes \cup {None}]]
    /\ acked \subseteq Row \cup Idem
    /\ hit \subseteq Streams
    /\ tears \in 0..MaxFaults /\ faults \in 0..MaxFaults

\* The lines of the record are in the file, and in the place it was written to.
OnDisk(record) ==
    LET contents == Load(disk)
    IN IF IsIdem(record) THEN contents.owner[record.tuple] = record.owner
       ELSE \E i \in DOMAIN contents.rows[record.stream] :
               contents.rows[record.stream][i] = [n |-> record.n, what |-> record.what]

\* events() and get() of a stream whose rows are not numbered 1, 2, 3 throw, and return none of them.
Gapless(s) == LET rows == Load(disk).rows[s] IN \A i \in DOMAIN rows : rows[i].n = i

\* What the next process to open the store can read.
Recovered(record) == OnDisk(record) /\ (IsRow(record) => Gapless(record.stream))

Lost        == {record \in acked : ~OnDisk(record)}
LostStreams == {record.stream : record \in {r \in acked : IsRow(r) /\ ~Recovered(r)}}

\* A torn write costs at most one acknowledged record, the one written onto the torn line after recovery, but its
\* readers may lose a whole stream: when rows follow, the gap makes events() and get() throw.  That stream is the one
\* of the row that was torn, or of the row written onto it; every acknowledged row of the others can be read.
LossIsBounded ==
    /\ Cardinality(Lost) <= tears
    /\ LostStreams \subseteq hit

\* What readers see, process after process, up to the first torn write.
Untorn == IF tears = 0 THEN View ELSE frozen
UntornMemory == INSTANCE MemoryEventStore WITH
                    Owners <- Owner, rows <- Untorn.rows, owner <- Untorn.owner

\* Until a write is torn, both backends behave as the reference store does, through
\* concurrent writers, closes and crashes: numbers 1, 2, 3 per stream, rows never
\* change or disappear, a tuple has one owner for good.
LikeMemoryUntilTorn == UntornMemory!MSpec

Memory == INSTANCE MemoryEventStore WITH
              Owners <- Owner, rows <- View.rows, owner <- View.owner

\* The same without the condition.
LikeMemory == Memory!MSpec
=============================================================================
