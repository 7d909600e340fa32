\* A plugin is activated twice: its shutdown releases the second child only.
SPECIFICATION LiveSpec
CONSTANTS
    Plugins = {"p"}
    Dirs <- OneDir
    Dependencies <- NoDependencies
    Declared <- NoCaps
    Operator <- NoCaps
    Requests <- Nothing
    Network = {"fetch"}
    Activations = {a1, a2}
    Shutdowns = {s1}
    Calls = {}
    None = None
CHECK_DEADLOCK FALSE
PROPERTIES
    ShutdownReleases
