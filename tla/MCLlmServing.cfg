SPECIFICATION FairSpec
CONSTANTS
    r1 = r1
    r2 = r2
    Req = {r1, r2}
    Profiles <- MCProfiles
    MaxModelLength = 3
    MaxBatchedTokens = 2
    MaxPromptLength = 1
INVARIANTS
    AnswersFaithful
    DisconnectionSeen
PROPERTIES
    GenerationEnds
CHECK_DEADLOCK FALSE
