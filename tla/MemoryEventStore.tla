-------------------------- MODULE MemoryEventStore --------------------------
(***************************************************************************)
(* packages/event-store/src/memory.ts, the store the two persistent ones   *)
(* are measured by: an append-only sequence of numbered rows per stream    *)
(* and one owner per idempotency tuple.                                    *)
(***************************************************************************)
EXTENDS Naturals, Sequences

CONSTANTS Streams, Tuples, Entries, Owners, None

VARIABLES rows,  \* stream -> rows in order
          owner  \* tuple -> the record that claimed it, or None

MInit == /\ rows = [s \in Streams |-> << >>]
         /\ owner = [t \in Tuples |-> None]

\* appendEvent, appendRevision: the next number is one more than there are rows.
AppendRow(s) ==
    /\ \E e \in Entries :
          rows' = [rows EXCEPT ![s] = Append(@, [n |-> Len(@) + 1, what |-> e])]
    /\ UNCHANGED owner

\* putIdempotency: insert if absent.
PutIfAbsent(t) ==
    /\ owner[t] = None
    /\ \E o \in Owners : owner' = [owner EXCEPT ![t] = o]
    /\ UNCHANGED rows

MNext == (\E s \in Streams : AppendRow(s)) \/ (\E t \in Tuples : PutIfAbsent(t))

MSpec == MInit /\ [][MNext]_<<rows, owner>>
=============================================================================
