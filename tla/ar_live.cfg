\* Every call and every walk comes to an end that nobody outside holds up.
SPECIFICATION FairSceneSpec
CONSTANTS
    p1 = p1  p2 = p2  s1 = s1  s2 = s2
    Scenes = {"live"}
    Proc = {p1, p2}
    Stores = {s1}
    StoreOf <- OneStore
    Callers = {c1, c2}
    Keys = {k1}
    Inputs = {i1}
    RunIds = {r1, r2}
    Plans <- AllPlans
    DryRun = {TRUE, FALSE}
    Approvers = {p1, p2}
    UniqueIds = TRUE
    MaxCrashes = 0
    MaxApprovals = 0
    None = None
CHECK_DEADLOCK FALSE
PROPERTIES
    NobodyWaitsForEver
    SuccessIsAudited
