SPECIFICATION FairSpec
CONSTANTS
    None = None
    WindowSize = 5
    OutboxCapacity = 2
    FeedCapacity = 3
    BatchRecords = 2
    MaxFills = 4
    MaxOperations = 1
    MaxFaults = 2
    FaultKinds = {"timeout", "archive", "journal", "append", "crash", "restart", "rival", "overtake"}
INVARIANTS
    TypeOK
    NothingIsForgotten
    OutIsTheHead
PROPERTIES
    KeepsThePromise
    EverythingArrives
CHECK_DEADLOCK FALSE
