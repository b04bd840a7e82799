CONSTANTS
    a = a
    b = b
    c = c
    NoJob = NoJob
    Jobs = {a, b, c}
    Deps <- Diamond
    Workers = {w1}
    Clients = {c1}
    Retriers = {}
    MaxAttempt = 1
    MaxQueue = 1
    Budgets <- NoHazard
SPECIFICATION Spec
PROPERTIES SettledRowsStay
CHECK_DEADLOCK FALSE
