CONSTANTS
    w1 = w1
    w2 = w2
    Missing = Missing
    r1 = r1
    None = None
    Tabs = {t1, t2}
    Repos = {r1}
    Paths = {report}
    MaxArtifacts = 2
    MaxClicks = 6
    MaxTroubles = 1
    Workspaces = {w1, w2}
    ApiWorkspace = w2
    Published <- Indexes
    BatchAttempts = 2
    Attempts = 2
    MaxMishaps = 1
    Counts = {2}
    ApiCounts = {0, 1}
    LiveCap = 1
    TaskAttempts = 2
    TaskCounts = {10}
    Scenes <- NoScene
    MaxTurns = 3
    s1 = s1
    s2 = s2
    Sessions = {s1, s2}
    Earlier = {s2}
    Cohort <- Personas
    CompareLimit = 1
    Viewings <- Controls
SPECIFICATION GradioSpec
INVARIANT TicksOnlyOnScreen
CHECK_DEADLOCK FALSE
