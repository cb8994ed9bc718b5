SPECIFICATION Spec
CONSTANTS
    a = a
    b = b
    c = c
    ab1 = ab1
    bc1 = bc1
    Nodes = {a, b}
    Opps = {ab1}
    Coordinator <- MCCoordinator
    Counterparty <- MCCounterparty
    Size = 2
    NoTrade = NoTrade
    NoView = NoView
    NoAuthority = NoAuthority
    NoEpoch = NoEpoch
    Authorities <- Steady
    Spreads = {1}
    Ttl = 2
    MaxOpen = 2
    Skew <- NoSkew
    MaxTime = 4
    MaxFaults = 0
INVARIANTS
    NoLegIsStranded
CHECK_DEADLOCK FALSE
