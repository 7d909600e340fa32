--------------------------- MODULE LanguageServer ----------------------------
(* language-server: a document an editor has open, kept in step by the edits it sends, and parsed at  *)
(* most once per version. An edit names what it replaces by line and character, in the text the editor *)
(* had; notifications may arrive late, twice and out of order.                                        *)
EXTENDS Integers, SequencesExt, FiniteSetsExt

CONSTANTS
    Absent,
    FirstTexts,     \* texts the editor opens a document with, as sequences of characters
    Insertions,     \* what it writes over a part of its text
    MaxSent,        \* bound on its notifications
    MaxAccepted     \* bound on the notifications the server takes, one that is there twice counted twice

VARIABLES
    client,     \* the editor: whether it has the document open, in which version, and its text after each notification
    wire,       \* the notifications that may still arrive
    document,   \* DocumentStore.documents, of this document
    parseCache, \* DocumentStore.parseCache, of this document
    parses,     \* DocumentStore.parses
    applied     \* what the document is made of: the notifications since its last whole text, and how many were taken

editorVars == <<client, wire, document, parseCache, parses, applied>>

-----------------------------------------------------------------------------
\* TextDocument. Lines end with a line feed, and a carriage return before it belongs to the end.
Position(line, character) == [line |-> line, character |-> character]
LineStarts(text) == <<0>> \o SetToSortSeq({i \in DOMAIN text : text[i] = "\n"}, <)
EndOf(text, starts, line) == IF line + 1 < Len(starts) THEN starts[line + 2] ELSE Len(text)
Terminator(line) ==
    CASE line = << >> \/ Last(line) # "\n" -> 0
      [] Len(line) > 1 /\ Last(line) = "\n" /\ line[Len(line) - 1] = "\r" -> 2
      [] OTHER -> 1
LineLength(text, starts, line) ==
    LET whole == SubSeq(text, starts[line + 1] + 1, EndOf(text, starts, line)) IN Len(whole) - Terminator(whole)
Smaller(a, b) == IF a < b THEN a ELSE b
Larger(a, b) == IF a < b THEN b ELSE a

\* offsetAt: a character behind the line is its end, a line behind the last the end of the text.
OffsetAt(text, position) ==
    LET starts == LineStarts(text)
    IN IF position.line >= Len(starts) THEN Len(text)
       ELSE starts[position.line + 1] + Larger(0, Smaller(position.character, LineLength(text, starts, position.line)))

\* positionAt, by halves.
RECURSIVE LineAt(_, _, _, _)
LineAt(starts, offset, low, high) ==
    LET mid == (low + high + 1) \div 2
    IN IF low >= high THEN low
       ELSE IF starts[mid + 1] <= offset THEN LineAt(starts, offset, mid, high) ELSE LineAt(starts, offset, low, mid - 1)
PositionAt(text, offset) ==
    LET starts == LineStarts(text)
        clamped == Larger(0, Smaller(offset, Len(text)))
        line == LineAt(starts, clamped, 0, Len(starts) - 1)
    IN Position(line, clamped - starts[line + 1])

RangeOfSourceLine(text, line1Based) ==
    LET starts == LineStarts(text)
        line == Smaller(line1Based - 1, Len(starts) - 1)
    IN IF line1Based <= 0 THEN [start |-> Position(0, 0), end |-> Position(0, 0)]
       ELSE [start |-> Position(line, 0), end |-> Position(line, LineLength(text, starts, line))]

\* withChanges: in order, each in the text the one before it left; or none of them.
Whole(text) == [range |-> Absent, text |-> text]
Change(start, end, text) == [range |-> [start |-> start, end |-> end], text |-> text]
Replaced(text, from, to, with) == SubSeq(text, 1, from) \o with \o SubSeq(text, to + 1, Len(text))
Changed(text, change) ==
    IF change.range = Absent THEN change.text
    ELSE LET from == OffsetAt(text, change.range.start)  to == OffsetAt(text, change.range.end)
         IN IF to < from THEN Absent ELSE Replaced(text, from, to, change.text)
WithChanges(text, changes) == FoldLeft(LAMBDA t, change : IF t = Absent THEN Absent ELSE Changed(t, change), text, changes)

-----------------------------------------------------------------------------
\* The editor, external. It counts lines as the protocol of the document says, and knows no place
\* between a carriage return and its line feed.
Places(text) == {o \in 0..Len(text) : ~(o \in 1..(Len(text) - 1) /\ text[o] = "\r" /\ text[o + 1] = "\n")}
PlaceOf(text, offset) ==
    LET ends == {i \in 1..offset : text[i] = "\n"} IN Position(Cardinality(ends), offset - (IF ends = {} THEN 0 ELSE Max(ends)))
Edit(text, from, to, with) ==
    [changes |-> <<Change(PlaceOf(text, from), PlaceOf(text, to), with)>>, text |-> Replaced(text, from, to, with)]
\* The range of an edit may be the wrong way round: then nobody knows what the editor meant.
Backwards ==
    {[changes |-> <<Whole(<<"w">>), Change(Position(0, 1), Position(0, 0), << >>)>>, text |-> Absent]}
TwoEdits(edit) ==
    [changes |-> edit.changes \o <<Change(Position(Len(edit.text) + 1, 0), Position(Len(edit.text) + 1, 0), <<"e">>)>>, text |-> edit.text \o <<"e">>]
Edits(text) ==
    LET spans == {span \in Places(text) \X Places(text) : span[2] - span[1] \in 0..2}
    IN {Edit(text, span[1], span[2], with) : span \in spans, with \in Insertions}
       \cup {Edit(text, span[1], span[2], << >>) : span \in {span \in spans : span[1] < span[2]}}
       \cup {TwoEdits(Edit(text, 0, 0, with)) : with \in Insertions} \cup Backwards
       \cup {[changes |-> <<Whole(with)>>, text |-> with] : with \in Insertions}

Sent == Len(client.texts)
Send(kind, version, changes, text) ==
    /\ Sent < MaxSent
    /\ client' = [open |-> kind # "close", version |-> version, texts |-> Append(client.texts, text)]
    /\ wire' = wire \cup {[kind |-> kind, serial |-> Sent + 1, version |-> version, changes |-> changes]}
    /\ UNCHANGED <<document, parseCache, parses, applied>>
ClientOpens == ~client.open /\ \E text \in FirstTexts : Send("open", 1, <<Whole(text)>>, text)
ClientCloses == client.open /\ Send("close", 0, << >>, Absent)
ClientEdits ==
    /\ client.open /\ Last(client.texts) # Absent
    /\ \E edit \in Edits(Last(client.texts)) : Send("change", client.version + 1, edit.changes, edit.text)

-----------------------------------------------------------------------------
\* The store. What it refuses changes nothing, and the sender is told.
Document(text, version) == [text |-> text, version |-> version]
\* A bug: a version that is there already is taken again.
NotOlder(version, current) == version >= current
Newer(version, current) == version > current
IsWhole(changes) == \E i \in DOMAIN changes : changes[i].range = Absent
Refused == UNCHANGED <<document, parseCache, applied>>
Accepted(text, m) ==
    /\ document' = Document(text, m.version)
    /\ applied' = [serials |-> (IF IsWhole(m.changes) THEN {} ELSE applied.serials) \cup {m.serial}, last |-> m.serial, count |-> applied.count + 1]

Open(m) == m.kind = "open" /\ applied.count < MaxAccepted /\ Accepted(m.changes[1].text, m) /\ parseCache' = Absent
Close(m) == m.kind = "close" /\ document' = Absent /\ parseCache' = Absent /\ UNCHANGED applied
Update(m) ==
    /\ m.kind = "change"
    /\ IF document = Absent \/ ~Newer(m.version, document.version) THEN Refused
       ELSE /\ applied.count < MaxAccepted /\ UNCHANGED parseCache
            /\ LET next == WithChanges(document.text, m.changes)
               IN IF next = Absent THEN UNCHANGED <<document, applied>> ELSE Accepted(next, m)
\* A notification that arrives may arrive again.
Arrives ==
    \E m \in wire :
        /\ Open(m) \/ Close(m) \/ Update(m)
        /\ wire' \in {wire, wire \ {m}} /\ UNCHANGED <<client, parses>>

\* parsed, for diagnostics or for completion.
IsCached == parseCache # Absent /\ parseCache.version = document.version /\ parseCache.text = document.text
AskParsed ==
    /\ document # Absent /\ UNCHANGED <<client, wire, document, applied>>
    /\ IF IsCached THEN UNCHANGED <<parseCache, parses>> ELSE parseCache' = document /\ parses' = parses + 1

EditorInit ==
    /\ client = [open |-> FALSE, version |-> 0, texts |-> << >>] /\ wire = {}
    /\ document = Absent /\ parseCache = Absent /\ parses = 0
    /\ applied = [serials |-> {}, last |-> 0, count |-> 0]
EditorNext == ClientOpens \/ ClientCloses \/ ClientEdits \/ Arrives \/ AskParsed
EditorSpec == EditorInit /\ [][EditorNext]_editorVars

-----------------------------------------------------------------------------
\* An edit is applied to whatever text is there, as long as its version is higher: only if none was
\* skipped since the last whole text is the document what the editor had when it sent the notification
\* taken last, whatever arrived late, twice or could not be applied.
NoneSkipped == applied.serials = Min(applied.serials)..applied.last
InStep == document # Absent /\ NoneSkipped => document.text = client.texts[applied.last]
\* However often it is asked for, a text that was taken is parsed once.
ParsedOnce == parses <= applied.count
\* Places and offsets of the document are each other's, and the lines of its source are its lines.
PlacesAgree(text) ==
    /\ \A o \in 0..Len(text) : PositionAt(text, o) = PlaceOf(text, o)
    /\ \A o \in Places(text) : OffsetAt(text, PositionAt(text, o)) = o
    /\ \A line \in 1..Len(LineStarts(text)) :
          LET r == RangeOfSourceLine(text, line)
          IN OffsetAt(text, r.start) <= OffsetAt(text, r.end)
             /\ \A o \in OffsetAt(text, r.start)..OffsetAt(text, r.end) : PlaceOf(text, o).line = line - 1

\* The document is always what the editor had when it sent the notification taken last: "A version that
\* is not newer is rejected rather than applied: LSP clients may deliver notifications out of order, and
\* applying a stale edit would corrupt the buffer" (document-store.ts:99-101). The code compares versions
\* only (:106), so an edit that overtook another is applied to a text it was not made for.
EveryVersionIsTheEditors == document # Absent => document.text = client.texts[applied.last]

DocumentIsInStep == InStep /\ ParsedOnce /\ (document # Absent => PlacesAgree(document.text))
=============================================================================
