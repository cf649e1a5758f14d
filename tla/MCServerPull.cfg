SPECIFICATION PullServerSpec
CONSTANTS
    main = main
    other = other
    h = h
    cfg = cfg
    bin = bin
    Main = main
    Threads <- MCThreads
    Handlers <- MCHandlers
    Commands <- MCCommands
    Scenarios <- MCScenarios
    Files <- MCFiles
    LfsFiles <- MCLfsFiles
    Kinds <- AllKinds
    MaxMishaps <- MCMishaps
    Budgets <- MCBudgets
INVARIANTS
    ServerIsSound
    DiskTellsTruth
PROPERTIES
    FilesKept
    ServerGetsDone
CHECK_DEADLOCK FALSE
