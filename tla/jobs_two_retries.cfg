CONSTANTS
    a = a
    b = b
    c = c
    NoJob = NoJob
    Jobs = {a}
    Deps <- Alone
    Workers = {w1, w2}
    Clients = {c1, c2}
    Retriers = {c1, c2}
    MaxAttempt = 2
    MaxQueue = 2
    Budgets <- NoHazard
SPECIFICATION Spec
INVARIANT OneOwner
CHECK_DEADLOCK FALSE
