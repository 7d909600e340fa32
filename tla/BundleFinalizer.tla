--------------------------- MODULE BundleFinalizer --------------------------
(* bundle/src/index.ts: the index and the manifest of a corpus are staged beside the bundle's, moved  *)
(* in one after the other, and verified by the loader; on a failure both go back. Any call of the     *)
(* file system may fail, the process may stop between two, and units may be written meanwhile.        *)
EXTENDS CorpusRegistry, Integers

CONSTANTS
    Finalizations,  \* what finalizations are asked for: entries and a manifest
    UnitEntries,    \* what the entry of a unit may be
    MaxRounds,      \* bound on finalizations
    MaxMishaps,     \* bound on failing calls, stops and writes of units
    Precedes(_, _)  \* the order of names

VARIABLES
    wanted,     \* the request under way or served last
    step,       \* the next step of the finalization under way, or "idle"
    outcome,    \* log: how finalizations ended; before: the index and the manifest there were at the
                \* start; oldIndex, oldManifest: whether one was moved away
    directory,
    mishaps

bundleVars == <<wanted, step, outcome, directory, mishaps>>

-----------------------------------------------------------------------------
\* compiler/src/global-index-emitter.ts: the index of a corpus. Atoms in use stand by domain, both in
\* the order of their names, and after them those that are deprecated. No two of them have one id (Refuses).

\* An atom without a domain goes by its first tag.
Cluster(atom) == IF atom.domain # "" THEN atom.domain ELSE IF atom.tags # << >> THEN atom.tags[1] ELSE "general"
InOrder(names) == [i \in 1..Cardinality(names) |-> CHOOSE n \in names : Cardinality({m \in names : Precedes(m, n)}) = i - 1]
ById(atoms) == [i \in 1..Cardinality(atoms) |-> CHOOSE a \in atoms : Cardinality({b \in atoms : Precedes(b.id, a.id)}) = i - 1]
Active(atoms) == {a \in ToSet(atoms) : ~a.deprecated}
Deprecated(atoms) == {a \in ToSet(atoms) : a.deprecated}
GroupByDomain(active, name) == {a \in active : Cluster(a) = name}
\* How much the atoms of a cluster have in common: the most frequent tag, of all atoms, as a fraction.
TagCount(atoms, tag) == FoldLeft(LAMBDA n, a : n + Len(SelectSeq(a.tags, LAMBDA t : t = tag)), 0, atoms)
Most(counts) == CHOOSE n \in counts : \A m \in counts : m <= n
Fraction(most, all) == IF most >= all THEN <<1, 1>> ELSE <<most, all>>
ComputeDensity(atoms) ==
    IF Len(atoms) <= 1 THEN <<1, 1>>
    ELSE Fraction(Most({TagCount(atoms, tag) : tag \in UNION {ToSet(a.tags) : a \in ToSet(atoms)}} \cup {0}), Len(atoms))
IdsOf(atoms) == [i \in DOMAIN atoms |-> atoms[i].id]
Clustered(name, atoms) == [name |-> name, density |-> ComputeDensity(atoms), atoms |-> IdsOf(atoms)]
Clusters(active) ==
    LET names == InOrder({Cluster(a) : a \in active})
    IN [i \in DOMAIN names |-> Clustered(names[i], ById(GroupByDomain(active, names[i])))]
BuildGlobalIndex(atoms) ==
    [total |-> Len(atoms), active |-> Cardinality(Active(atoms)), clusters |-> Clusters(Active(atoms)),
     deprecated |-> IdsOf(ById(Deprecated(atoms)))]

-----------------------------------------------------------------------------
File(bytes) == [kind |-> "file", bytes |-> bytes]
Put(bundle, name, bytes) ==
    [linked |-> bundle.linked,
     entries |-> [n \in DOMAIN bundle.entries \cup {name} |-> IF n = name THEN File(bytes) ELSE bundle.entries[n]]]
Without(bundle, names) ==
    [linked |-> bundle.linked, entries |-> [n \in DOMAIN bundle.entries \ names |-> bundle.entries[n]]]
Move(bundle, from, to) == Without(Put(bundle, to, Bytes(bundle, from)), {from})
Pair(bundle) == [n \in {Index, ManifestFile} \cap DOMAIN bundle.entries |-> bundle.entries[n]]
ManifestOf(bundle) == [wanted.manifest EXCEPT !.content = ContentDigest(bundle), !.index = Bytes(bundle, Index)]
Required == [requireManifest |-> TRUE, expected |-> Absent]
MayFail == mishaps < MaxMishaps
Now(at) == step = at /\ UNCHANGED wanted
Goes(at) == step' = at /\ UNCHANGED <<outcome, mishaps>>
Outcome(log, before, oldIndex, oldManifest) ==
    [log |-> log, before |-> before, oldIndex |-> oldIndex, oldManifest |-> oldManifest]
Ends(how) ==
    step' = "idle" /\ outcome' = Outcome(Append(outcome.log, how), outcome.before, outcome.oldIndex, outcome.oldManifest)
TurnedAway == step' = "idle" /\ outcome' = Outcome(Append(outcome.log, "refused"), Pair(directory), FALSE, FALSE)

BundleInit ==
    /\ wanted = Absent /\ step = "idle" /\ mishaps = 0
    /\ outcome = Outcome(<< >>, << >>, FALSE, FALSE)
    /\ \E entry \in UnitEntries : directory = [linked |-> FALSE, entries |-> [n \in {"unit.yaml"} |-> entry]]

\* Everything that can be refused is refused before anything is written; what earlier processes left
\* is removed first.
IsInvalid(entry) == entry.id = "" \/ entry.tokens < 0
Refuses(request) ==
    \/ request.entries = << >>
    \/ \E e \in ToSet(request.entries) : IsInvalid(e) \/ e.corpus \notin {Absent, request.manifest.corpus}
    \/ ~IsInjective(IdsOf(request.entries))
    \/ ManifestError(request.manifest) # ""
Irregular(bundle) == bundle.linked \/ Unhashable(bundle)
Started(bundle) ==
    /\ directory' = bundle
    /\ IF Irregular(bundle) THEN TurnedAway
       ELSE /\ step' = "stage index"
            /\ outcome' = Outcome(outcome.log, Pair(bundle), FALSE, FALSE)
Finalize ==
    /\ step = "idle" /\ Len(outcome.log) < MaxRounds /\ UNCHANGED mishaps
    /\ wanted' \in Finalizations
    /\ IF Refuses(wanted') THEN TurnedAway /\ UNCHANGED directory ELSE Started(Without(directory, Ephemeral))

StageIndex == Now("stage index") /\ Goes("index aside") /\ directory' = Put(directory, IndexStage, BuildGlobalIndex(wanted.entries))
IndexAside == Now("index aside") /\ Goes("index in") /\ directory' = IF Has(directory, Index) THEN Move(directory, Index, IndexBackup) ELSE directory
IndexIn ==
    /\ Now("index in") /\ UNCHANGED mishaps
    /\ directory' = Move(directory, IndexStage, Index) /\ step' = "stage manifest"
    /\ outcome' = Outcome(outcome.log, outcome.before, Has(directory, IndexBackup), outcome.oldManifest)
StageManifest ==
    /\ Now("stage manifest") /\ ~Unhashable(directory) /\ Goes("manifest aside")
    /\ directory' = Put(directory, ManifestStage, ManifestOf(directory))
ManifestAside ==
    /\ Now("manifest aside") /\ Goes("manifest in")
    /\ directory' = IF Has(directory, ManifestFile) THEN Move(directory, ManifestFile, ManifestBackup) ELSE directory
ManifestIn ==
    /\ Now("manifest in") /\ UNCHANGED mishaps
    /\ directory' = Move(directory, ManifestStage, ManifestFile) /\ step' = "verify"
    /\ outcome' = Outcome(outcome.log, outcome.before, outcome.oldIndex, Has(directory, ManifestBackup))
Verify ==
    /\ Now("verify") /\ UNCHANGED directory
    /\ Goes(IF LoadError(directory, Required) = "" THEN "clean" ELSE "undo manifest")
\* What cannot be removed is left for the next finalization.
Clean ==
    /\ Now("clean") /\ Ends("written")
    /\ \/ directory' = Without(directory, Ephemeral) /\ UNCHANGED mishaps
       \/ MayFail /\ UNCHANGED directory /\ mishaps' = mishaps + 1

\* A call fails. What was moved aside for a file that cannot take its place comes back at once.
BackIn(bundle, name, backup) == IF ~Has(bundle, name) /\ Has(bundle, backup) THEN Move(bundle, backup, name) ELSE bundle
Fail ==
    /\ step \in {"stage index", "index aside", "index in", "stage manifest", "manifest aside", "manifest in", "verify"}
    /\ MayFail /\ step' = "undo manifest" /\ UNCHANGED <<wanted, outcome>>
    /\ \/ /\ mishaps' = mishaps + 1
          /\ directory' = CASE step = "index in" -> BackIn(directory, Index, IndexBackup)
                         [] step = "manifest in" -> BackIn(directory, ManifestFile, ManifestBackup)
                         [] OTHER -> directory
       \/ /\ step \in {"index in", "manifest in"}  \* which may fail as well
          /\ mishaps + 1 < MaxMishaps /\ mishaps' = mishaps + 2 /\ UNCHANGED directory
FailHalfway ==  \* the directory of the bundle is there, but cannot be read as a whole
    /\ Now("stage manifest") /\ Unhashable(directory) /\ Goes("undo manifest") /\ UNCHANGED directory

\* Where nothing is known to have been moved away, what is there is taken for new, and removed.
\* Mutated: a file that took the place of the old one is kept.
RestoredNewer(bundle, name, backup, hadOld) ==
    IF hadOld /\ Has(bundle, backup) /\ ~Has(bundle, name) THEN Move(bundle, backup, name) ELSE bundle
Restored(bundle, name, backup, hadOld) ==
    IF ~hadOld THEN Without(bundle, {name}) ELSE IF Has(bundle, backup) THEN Move(bundle, backup, name) ELSE bundle
RestoreManifest ==
    /\ Now("undo manifest") /\ Goes("undo index")
    /\ directory' = Restored(directory, ManifestFile, ManifestBackup, outcome.oldManifest)
RestoreIndex ==
    /\ Now("undo index") /\ Ends("failed") /\ UNCHANGED mishaps
    /\ directory' = Without(Restored(directory, Index, IndexBackup, outcome.oldIndex), Ephemeral)
\* A restoration first removes what took the place of the old file. One that fails, before or after
\* that, is the last step but for the removal of what is left, backups included.
HalfRestored ==
    {directory}
    \cup (IF step = "undo manifest" /\ outcome.oldManifest THEN {Without(directory, {ManifestFile})} ELSE {})
    \cup (IF step = "undo index" /\ outcome.oldIndex THEN {Without(directory, {Index})} ELSE {})
GiveUp ==
    /\ step \in {"undo manifest", "undo index"} /\ UNCHANGED wanted
    /\ MayFail /\ mishaps' = mishaps + 1 /\ Ends("abandoned")
    /\ \E bundle \in HalfRestored : directory' = Without(bundle, Ephemeral)

Stop ==
    /\ step # "idle" /\ UNCHANGED wanted /\ directory' \in HalfRestored
    /\ MayFail /\ mishaps' = mishaps + 1 /\ Ends("stopped")
\* Somebody writes a unit, also one that is no regular file, until the finalizer has verified.
WriteUnit ==
    /\ step # "clean" /\ UNCHANGED wanted
    /\ MayFail /\ mishaps' = mishaps + 1
    /\ \E entry \in UnitEntries \ {directory.entries["unit.yaml"]} :
          directory' = [linked |-> directory.linked, entries |-> [directory.entries EXCEPT !["unit.yaml"] = entry]]
    /\ IF step = "idle" THEN Ends("changed") ELSE UNCHANGED <<step, outcome>>

BundleNext ==
    \/ Finalize \/ StageIndex \/ IndexAside \/ IndexIn \/ StageManifest \/ ManifestAside \/ ManifestIn \/ Verify \/ Clean
    \/ Fail \/ FailHalfway \/ RestoreManifest \/ RestoreIndex \/ GiveUp \/ Stop \/ WriteUnit
BundleSpec == BundleInit /\ [][BundleNext]_bundleVars

-----------------------------------------------------------------------------
EndedAs(how) == step = "idle" /\ outcome.log # << >> /\ Last(outcome.log) = how
Same(bundle, name) == (name \in DOMAIN outcome.before) = Has(bundle, name) /\ (Has(bundle, name) => outcome.before[name] = bundle.entries[name])
\* What was there at the start is still there, in its place or beside it, as long as nothing was wanted up.
StillThere(name, backup) == name \in DOMAIN outcome.before => \E n \in {name, backup} \cap DOMAIN directory.entries : directory.entries[n] = outcome.before[name]

\* Each of the ids stands at one place of the index, and nothing else does.
Places(index) ==
    {<<0, j>> : j \in DOMAIN index.deprecated}
    \cup UNION {{<<c, j>> : j \in DOMAIN index.clusters[c].atoms} : c \in DOMAIN index.clusters}
At(index, place) == IF place[1] = 0 THEN index.deprecated[place[2]] ELSE index.clusters[place[1]].atoms[place[2]]
NamesOnce(index, ids) ==
    /\ {At(index, place) : place \in Places(index)} = ids
    /\ \A p, q \in Places(index) : At(index, p) = At(index, q) => p = q

\* What is not what was there at the start is what was asked for, and the manifest then fits the index.
IsNew(name) == Has(directory, name) /\ ~Same(directory, name)
NewIndexStands == Has(directory, Index) /\ Bytes(directory, Index) = BuildGlobalIndex(wanted.entries)
NewManifestFits == NewIndexStands /\ Bytes(directory, ManifestFile).index = Bytes(directory, Index)

\* A finalization that reports success leaves a bundle the loader accepts, whose index names every entry
\* asked for once. One that is refused leaves the index and the manifest as they were. One that fails once
\* its manifest took the place of an old one puts both back; one that fails at an earlier step, be it that
\* a unit became unreadable, leaves no manifest, not the old one either. However one ends, stopped between
\* two calls or abandoned when a restoration fails: each file is the old one, the new one or missing, and
\* a new manifest never stands beside another index than its own (an old manifest may stand beside a new
\* index). Until the loader has accepted the new pair, the old one is in the directory.
BundleIsWhole ==
    /\ EndedAs("written") =>
          /\ LoadError(directory, Required) = ""
          /\ NamesOnce(Bytes(directory, Index), ToSet(IdsOf(wanted.entries)))
    /\ EndedAs("refused") => Same(directory, Index) /\ Same(directory, ManifestFile)
    /\ EndedAs("failed") =>
          IF outcome.oldManifest THEN Same(directory, Index) /\ Same(directory, ManifestFile) ELSE ~Has(directory, ManifestFile)
    /\ EndedAs("stopped") \/ EndedAs("abandoned") =>
          (IsNew(Index) => NewIndexStands) /\ (IsNew(ManifestFile) => NewManifestFits)
    /\ step \in {"index aside", "index in", "stage manifest", "manifest aside", "manifest in", "verify"} =>
          StillThere(Index, IndexBackup) /\ StillThere(ManifestFile, ManifestBackup)

\* What that takes of a request: its entries are a sequence, names stand in one order, and a manifest
\* has a digest of the index.
Ordered(names) ==
    /\ \A x \in names : ~Precedes(x, x)
    /\ \A x, y \in names : x # y => Precedes(x, y) \/ Precedes(y, x)
    /\ \A x, y, z \in names : Precedes(x, y) /\ Precedes(y, z) => Precedes(x, z)
NamesIn(atoms) == {a.id : a \in ToSet(atoms)} \cup {Cluster(a) : a \in ToSet(atoms)}
WellAsked == \A r \in Finalizations : r.entries \in Seq(ToSet(r.entries)) /\ Ordered(NamesIn(r.entries)) /\ "index" \in DOMAIN r.manifest
=============================================================================
