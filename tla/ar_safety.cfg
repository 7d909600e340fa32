\* Processes race for a key, a suspended run is approved across a crash, and one
\* process walks what a planner may hand it.
SPECIFICATION SceneSpec
CONSTANTS
    p1 = p1  p2 = p2  s1 = s1  s2 = s2
    Scenes = {"race", "approve", "plans"}
    Proc = {p1, p2}
    Stores = {s1}
    StoreOf <- OneStore
    Callers = {c1, c2, c3}
    Keys = {k1}
    Inputs = {i1, i2}
    RunIds = {r1, r2, r3}
    Plans <- AllPlans
    DryRun = {TRUE, FALSE}
    Approvers = {p1, p2}
    UniqueIds = TRUE
    MaxCrashes = 1
    MaxApprovals = 2
    None = None
SYMMETRY Symmetry
CHECK_DEADLOCK FALSE
INVARIANTS
    TypeOK
    OneEffectPerKey
    ClaimDiscipline
    ClaimPrecedesEffect
    AnswersAgree
    LedgerNamesSavedRun
    GatesPrecedeEffect
    RestEquivalence
    EachNodeOnce
PROPERTIES
    TerminalIsFinal
    KeepsPromise
