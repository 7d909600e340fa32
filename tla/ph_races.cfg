\* Two activations, two shutdowns and two calls of one plugin race with its child.
SPECIFICATION Spec
CONSTANTS
    Plugins = {"p"}
    Dirs <- OneDir
    Dependencies <- NoDependencies
    Declared <- NoCaps
    Operator <- NoCaps
    Requests <- Nothing
    Network = {"fetch"}
    Activations = {a1, a2}
    Shutdowns = {s1, s2}
    Calls = {c1, c2}
    None = None
CHECK_DEADLOCK FALSE
INVARIANTS
    TypeOK
    PendingExact
    NoneAdrift
    Histories
PROPERTIES
    AnswerIsFinal
    ActivationsAreSound
