CONSTANTS
    j1 = j1
    j2 = j2
    j3 = j3
    id1 = id1
    id2 = id2
    r1 = r1
    r2 = r2
    b1 = b1
    b2 = b2
    None = None
    Nothing = Nothing
    Journeys = {j1, j2, j3}
    RunIds = {id1, id2}
    RunId <- Retried
    Asks <- Uneven
    MaxFailures = 1
    Runs = {r1}
    Inputs <- Visits
    Batches = {b1}
    BatchRun <- OnFirstRun
    Requests <- Asked
    Concurrency = 1
SPECIFICATION WorkerSpec
INVARIANTS WorkerTypeOK ThoughtsOnce AloneReportsItsOwn LiveView WorkConserved EvidenceAccounted BatchCovers
PROPERTIES EveryoneAnswered
CHECK_DEADLOCK FALSE
