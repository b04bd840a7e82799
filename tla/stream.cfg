CONSTANTS
    j1 = j1
    j2 = j2
    k1 = k1
    Nobody = Nobody
    None = None
    Keys = {k1}
    LockKey <- OneKey
    Topic <- First
    Jobs = {j1, j2}
    EventTypes = {e1, e2}
    Writers = {w1, w2}
    Clients = {c1}
    Rounds = 2
    MaxSequence = 2
    MaxFailures = 1
    MaxCuts = 1
SPECIFICATION FairSpec
INVARIANT Sequenced
PROPERTIES ImplementsLog EverythingIsSeen
