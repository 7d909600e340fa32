\* Both processes receive an approval of the same run.
SPECIFICATION SceneSpec
CONSTANTS
    p1 = p1  p2 = p2  s1 = s1  s2 = s2
    Scenes = {"both"}
    Proc = {p1, p2}
    Stores = {s1}
    StoreOf <- OneStore
    Callers = {c1, c2}
    Keys = {k1}
    Inputs = {i1, i2}
    RunIds = {r1, r2}
    Plans <- AllPlans
    DryRun = {TRUE, FALSE}
    Approvers = {p1, p2}
    UniqueIds = TRUE
    MaxCrashes = 0
    MaxApprovals = 2
    None = None
CHECK_DEADLOCK FALSE
INVARIANTS
    OneEffectPerKey
