CONSTANTS
    Requests = {r1, r2}
    Manager = Manager
    NoThread = NoThread
    Shapes = {s1, s2}
    ConfigShape = s1
    NoShape = NoShape
    Nireq = 1
    WaitCheckpoints = 1
    AsyncStartFails = TRUE
SPECIFICATION FairSpec
INVARIANTS
    InstanceSafety
PROPERTIES
    NoChangeUnderUse
    OperationsEnd
CHECK_DEADLOCK FALSE
