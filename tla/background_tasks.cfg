CONSTANTS
    None = None
    p1 = p1
    p2 = p2
    Cohort <- MCCohort
    Tasks <- MCTasks
    Praise <- MCPraise
    Problem <- MCProblem
    Harness <- MCHarness
    Stopwords <- MCStopwords
    Quality <- MCQuality
    Quoted <- MCQuoted
    SeenAcross <- MCSeenAcross
    Outcomes <- MCOutcomes
    Critiques <- MCCritiques
    SampleLimit = 2
    ThoughtLimit = 3
    RedesignLimit = 1
    PriorityLimit = 3
    PreserveLimit = 1
    a = a
    b = b
    c = c
    NoJob = NoJob
    Jobs = {a}
    Deps <- Alone
    Workers = {w1, w2}
    Clients = {c1, c2}
    Retriers = {c1}
    MaxAttempt = 3
    MaxQueue = 2
    Budgets <- Losses
    Dependents = {a, b, c}
    DependentDeps <- Fork
    OnlyWorker = w1
    s1 = s1
    a1 = a1
    a2 = a2
    Nobody = Nobody
    Sessions = {s1}
    Artifacts = {a1, a2}
    SessionOf <- OneSession
    WaysOf <- MadeAndUploaded
    Sweepers = {w1, w2}
    Deleters = {}
    MaxFaults = 1
SPECIFICATION TasksSpec
INVARIANTS
    TypeOK
    AccountedOnce
    ClustersAreClosed
    EvidenceIsItsOwn
    ReasoningIsKept
    ViewsAgree
    RowsAgree
    ResultOfLastAttempt
PROPERTIES DispatchedIsClaimed JobsSettle SweepsReachAll
CHECK_DEADLOCK FALSE
