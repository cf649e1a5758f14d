CONSTANTS
    Clients = {c1, c2, c3}
    NoClient = NoClient
    StreamsLength = 2
SPECIFICATION FairSpec
INVARIANTS
    QueueSafety
PROPERTIES
    ImplementsPool
    ServedWhileReturnsContinue
