SPECIFICATION FairSpec
CONSTANTS
    None = None
    WindowSize = 5
    OutboxCapacity = 2
    FeedCapacity = 3
    BatchRecords = 2
    MaxFills = 2
    MaxOperations = 0
    MaxFaults = 1
    FaultKinds = {"timeout"}
PROPERTY RetriesGetThrough
CHECK_DEADLOCK FALSE
