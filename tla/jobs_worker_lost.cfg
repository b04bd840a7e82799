CONSTANTS
    a = a
    b = b
    c = c
    NoJob = NoJob
    Jobs = {a}
    Deps <- Alone
    Workers = {w1}
    Clients = {c1}
    Retriers = {}
    MaxAttempt = 1
    MaxQueue = 1
    Budgets <- CrashOnce
SPECIFICATION FairSpec
PROPERTIES JobsSettle
CHECK_DEADLOCK FALSE
