----------------------------- MODULE UnitEmitter ----------------------------
(* compiler/src/generic-unit.ts: a compiled unit is written beside the tree and moved into it. The    *)
(* old directory is moved away first and comes back when the new one cannot take its place. Any call  *)
(* of the file system may fail, and the process may stop between two of them.                          *)
EXTENDS Integers, SequencesExt

CONSTANTS
    NoDirectory,
    Versions,       \* the compiled forms of the unit, one per emission
    Artifacts,      \* the names of its projections, in order
    MaxTroubles     \* bound on failing calls and stops

VARIABLES
    emitted,    \* how emissions ended
    target,     \* the directory of the unit: a version with the files it has, or NoDirectory
    temp,       \* the staged directory
    backup,     \* the directory the old unit was moved to
    doing,      \* the next call of the emission under way, or "idle"
    troubles

emitVars == <<emitted, target, temp, backup, doing, troubles>>

Files == <<"atom.yaml">> \o Artifacts \o <<"index.xml">>
Staged(version, files) == [version |-> version, files |-> files]
WholeUnit(version) == Staged(version, ToSet(Files))
Emission == Len(emitted) + 1                 \* the one under way, or the next
CallMayFail == troubles < MaxTroubles
EmissionEnds(how) == emitted' = Append(emitted, how) /\ doing' = "idle"

EmitInit ==
    /\ \/ emitted = << >> /\ target = NoDirectory
       \/ emitted = <<"written">> /\ target = WholeUnit(1)
    /\ temp = NoDirectory /\ backup = NoDirectory
    /\ doing = "idle" /\ troubles = 0

\* The names are those of the process and the time: what an earlier process left is not found again.
BeginEmission ==
    /\ doing = "idle" /\ Emission \in Versions
    /\ temp' = Staged(Emission, {}) /\ backup' = NoDirectory /\ doing' = "write"
    /\ UNCHANGED <<emitted, target, troubles>>
\* One file after the other, each checked against what the unit says of it.
WriteFile ==
    /\ doing = "write" /\ temp.files # ToSet(Files)
    /\ temp' = Staged(temp.version, temp.files \cup {Files[Cardinality(temp.files) + 1]})
    /\ UNCHANGED <<emitted, target, backup, doing, troubles>>
MoveAside ==
    /\ doing = "write" /\ temp.files = ToSet(Files)
    /\ backup' = target /\ target' = NoDirectory /\ doing' = "move in"
    /\ UNCHANGED <<emitted, temp, troubles>>
MoveIn ==
    /\ doing = "move in"
    /\ target' = temp /\ temp' = NoDirectory /\ doing' = "clean"
    /\ UNCHANGED <<emitted, backup, troubles>>
\* What cannot be cleaned away is left; the unit is in its place.
RemoveOld ==
    /\ doing = "clean"
    /\ \/ backup' = NoDirectory /\ UNCHANGED troubles
       \/ backup # NoDirectory /\ CallMayFail /\ UNCHANGED backup /\ troubles' = troubles + 1
    /\ EmissionEnds("written") /\ UNCHANGED <<target, temp>>

\* A call fails: the old unit goes back if nothing took its place, and the rest is removed, also when
\* the way back fails.
FailEmission ==
    /\ doing \in {"write", "move in"} /\ CallMayFail
    /\ troubles' = troubles + 1 /\ doing' = "restore"
    /\ UNCHANGED <<emitted, target, temp, backup>>
\* Mutated: the rest is removed before the old unit goes back.
RestoreTooLate ==
    /\ doing = "restore" /\ EmissionEnds("failed")
    /\ temp' = NoDirectory /\ backup' = NoDirectory /\ UNCHANGED <<target, troubles>>
Restore ==
    /\ doing = "restore" /\ EmissionEnds("failed")
    /\ \/ target' = (IF target = NoDirectory THEN backup ELSE target) /\ UNCHANGED troubles
       \/ /\ target = NoDirectory /\ backup # NoDirectory /\ UNCHANGED target
          /\ CallMayFail /\ troubles' = troubles + 1
    /\ temp' = NoDirectory /\ backup' = NoDirectory

\* The process stops; the next one starts from what is in the tree.
StopEmission ==
    /\ doing # "idle" /\ EmissionEnds("stopped")
    /\ CallMayFail /\ troubles' = troubles + 1
    /\ UNCHANGED <<target, temp, backup>>

EmitNext ==
    \/ BeginEmission \/ WriteFile \/ MoveAside \/ MoveIn \/ RemoveOld
    \/ FailEmission \/ Restore \/ StopEmission
EmitSpec == EmitInit /\ [][EmitNext]_emitVars

-----------------------------------------------------------------------------
\* The directory of a unit is never half of one. With at most one trouble it is the unit written last,
\* also after an emission that failed; after a stop it may be a later one, or the old one is still there
\* under the name it was moved to.
Emissions(how) == {i \in DOMAIN emitted : emitted[i] = how}
Newest == IF Emissions("written") = {} THEN NoDirectory ELSE WholeUnit(Max(Emissions("written")))
StoppedAway ==
    /\ Emissions("stopped") # {}
    /\ \/ target \in {WholeUnit(v) : v \in Versions}
       \/ target = NoDirectory /\ backup = Newest
AUnitIsWhole ==
    /\ target # NoDirectory => target.files = ToSet(Files)
    /\ doing = "idle" /\ troubles <= 1 => target = Newest \/ StoppedAway
=============================================================================
