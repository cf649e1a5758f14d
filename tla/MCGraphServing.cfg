SPECIFICATION FairSpec
CONSTANTS
    r1 = r1
    r2 = r2
    Requests = {r1, r2}
    Inputs = {1, 2}
    Files <- MCFiles
    FirstFile <- MCFirstFile
    RestWorkers = 4
    Cores = 1
    Threads = 1
    QueueOff = FALSE
    MaxGen = 2
    MaxMessages = 2
    MaxClock = 2
    None = None
INVARIANTS
    PoolSafety
    RequestsIsolated
PROPERTIES
    ChangeCompletes
CHECK_DEADLOCK FALSE
