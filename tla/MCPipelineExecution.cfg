SPECIFICATION FairSpec
CONSTANTS
    m1 = m1
    m2 = m2
    Models = {m1, m2}
    Contended = {m1}
    Configs <- MCConfigs
    Faulty = {"split", "dl", "right"}
    Streams = 1
    Other = Other
    IdBits = 8
    MaxSize = 3
INVARIANTS
    SessionsAreSound
    ReturnsClean
    ValidatedPipelinesWork
PROPERTIES
    ExecutionEnds
