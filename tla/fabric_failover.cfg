SPECIFICATION FairSpec
CONSTANTS
    b1 = b1  b2 = b2  c1 = c1  c2 = c2  p1 = p1
    NoOne = NoOne
    Brokers = {b1, b2}
    Clients = {c1, c2}
    Pids = {p1}
    Owner <- MCOwner
    WindowSize = 1
    MaxBatches = 1
    MaxRows = 2
    MaxTerms = 3
    MaxFaults = 1
    FaultKinds = {"answer", "append", "lapse", "crash", "drain"}
INVARIANTS
    TypeOK
    ReplicaIsPrefix
    OneHolderPerEpoch
PROPERTIES
    KeepsThePromise
    SentIsAnswered
CHECK_DEADLOCK FALSE
