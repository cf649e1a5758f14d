SPECIFICATION Spec
CONSTANTS
    SizeMax = 31
    ItemSize <- MCItemSize
    RawOnly = {"H"}
    None <- MCNone
    Models <- MCModels
    KfsRequests <- MCKfsRequests
    Bodies <- MCBodies
    CapiInputs <- MCCapiInputs
    CapiOutputs <- MCCapiOutputs
    CapiSizes = {2, 8, 16}
INVARIANTS
    BuffersSafe
    FrontEndsAgree
    ReloadServes
    AnsweredOnce
CHECK_DEADLOCK FALSE
