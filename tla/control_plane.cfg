CONSTANTS
    a = a
    b = b
    c = c
    NoJob = NoJob
    Jobs = {a, b}
    Deps <- Chain
    Workers = {w1, w2}
    Clients = {c1}
    Retriers = {c1}
    MaxAttempt = 2
    MaxQueue = 1
    Budgets <- Mishaps
    s1 = s1
    a1 = a1
    a2 = a2
    Nobody = Nobody
    Sessions = {s1}
    Artifacts = {a1, a2}
    SessionOf <- OneSession
    WaysOf <- MadeAndUploaded
    Sweepers = {w1, w2}
    Deleters = {d1}
    MaxFaults = 1
SPECIFICATION ControlSpec
INVARIANTS OneOwner StartsAfterDependencies StoreTypeOK ObjectsHaveRows AssembledIsWhole
PROPERTIES PinnedIsKept
CHECK_DEADLOCK FALSE
