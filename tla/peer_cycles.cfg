SPECIFICATION FairSpec
CONSTANTS
    a = a
    b = b
    c = c
    ab1 = ab1
    bc1 = bc1
    Nodes = {a, b}
    Opps = {ab1}
    Coordinator <- MCCoordinator
    Counterparty <- MCCounterparty
    Size = 2
    NoTrade = NoTrade
    NoView = NoView
    NoAuthority = NoAuthority
    NoEpoch = NoEpoch
    Authorities <- PartialFills
    Spreads = {1}
    Ttl = 2
    MaxOpen = 2
    Skew <- MCSkew
    MaxTime = 4
    MaxFaults = 2
INVARIANTS
    TypeOK
    ClosedLeavesTheLeast
    FiredLegIsHeld
    CyclesAccountedFor
PROPERTIES
    ImplementsContract
    NothingLingers
CHECK_DEADLOCK FALSE
