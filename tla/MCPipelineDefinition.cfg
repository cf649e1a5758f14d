SPECIFICATION FairSpec
CONSTANTS
    m1 = m1
    n1 = n1
    n2 = n2
    p1 = p1
    Requests = {r1}
    Models = {m1}
    Versions = {}
    Definitions <- MCDefinitions
    NoDefinition = NoDefinition
    NoModel = NoModel
    Poll = Poll
    WaitCheckpoints = 1
    LiveManagers = 2
INVARIANTS
    PipelineSafety
    StateIsCurrent
PROPERTIES
    NoChangeWhileBuilding
    EverythingEnds
