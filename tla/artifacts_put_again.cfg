CONSTANTS
    s1 = s1
    a1 = a1
    a2 = a2
    Nobody = Nobody
    Sessions = {s1}
    Artifacts = {a1}
    SessionOf <- OneSession
    WaysOf <- AnyWay
    Sweepers = {w1}
    Deleters = {}
    MaxFaults = 0
SPECIFICATION StoreSpec
INVARIANT CompleteIsWhole
CHECK_DEADLOCK FALSE
