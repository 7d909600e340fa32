\* Two plugins are admitted and one activated; what was begun comes to an end.
SPECIFICATION LiveSpec
CONSTANTS
    Plugins = {"p", "q"}
    Dirs <- FiveDirs
    Dependencies <- QNeedsP
    Declared <- Manifest
    Operator <- Policy
    Requests <- Asked
    Network = {"fetch", "ungranted"}
    Activations = {a1}
    Shutdowns = {s1}
    Calls = {c1}
    None = None
CHECK_DEADLOCK FALSE
INVARIANTS
    RecordIsRegistered
PROPERTIES
    NobodyWaitsForEver
    StoppedReleases
