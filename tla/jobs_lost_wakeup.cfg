CONSTANTS
    a = a
    b = b
    c = c
    NoJob = NoJob
    Jobs = {a, b}
    Deps <- Chain
    Workers = {w1, w2}
    Clients = {c1}
    Retriers = {}
    MaxAttempt = 1
    MaxQueue = 1
    Budgets <- NoHazard
SPECIFICATION FairSpec
PROPERTIES JobsSettle
CHECK_DEADLOCK FALSE
