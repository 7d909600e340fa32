\* An edit that overtakes another is applied to a text it was not made for.
SPECIFICATION ComponentsSpec
CONSTANTS
    p1 = p1  p2 = p2  q1 = q1  q2 = q2
    Proc = {p1, p2}
    Backends = {"jsonl", "sqlite"}
    Scopes = {s1, s2}
    Default = s1
    Runs = {r1}
    Entries = {e1}
    Tuples = {t1}
    Prints = {f1}
    MaxLines = 3
    MaxFaults = 2
    Garbage = Garbage
    None = None
    Absent = None
    Unset = None
    Unsaid = None
    Catalog <- LevelsShown
    Routing <- ProfilesRouted
    Engines <- EnginesBuilt
    Holdings <- BundlesHeld
    Projections <- ProjectionsAsked
    MaxProjections = 2
    Precedes <- NameOrder
    Finalizations <- BundlesAsked
    UnitEntries <- UnitsWritten
    PolicyInquiries <- InquiriesMade
    NoDirectory = None
    Versions = {1, 2, 3}
    Artifacts <- UnitArtifacts
    MaxTroubles = 2
    MaxRounds = 3
    MaxMishaps = 2
    Formal <- FormalNamespaces
    Bundles <- OneReplaced
    FirstDisks <- StartingDisks
    Boots <- StartingBoots
    Swaps <- LaterSwaps
    Calls = {q1, q2}
    HttpRequests <- AskedOfServer
    Cleared <- OneReader
    MaxWrites = 1
    Ids <- FourIds
    Relations <- Model
    Requests <- AskedRequests
    MaxSwaps = 1
    Focuses = {"editor"}
    GraphUnits = {1}
    MaxEdges = 0
    Budget = 0
    MaxRelations = 0
SYMMETRY Symmetry
CHECK_DEADLOCK FALSE
INVARIANTS
    EveryVersionIsTheEditors
