SPECIFICATION Spec
CONSTANTS
    a = a
    b = b
    c = c
    ab1 = ab1
    bc1 = bc1
    Nodes = {a, b, c}
    Opps = {ab1, bc1}
    Coordinator <- MCCoordinator
    Counterparty <- MCCounterparty
    Size = 2
    NoTrade = NoTrade
    NoView = NoView
    NoAuthority = NoAuthority
    NoEpoch = NoEpoch
    Authorities <- Steady
    Spreads = {1}
    Ttl = 1
    MaxOpen = 2
    Skew <- NoSkew
    MaxTime = 1
    MaxFaults = 0
INVARIANTS
    FiredLegIsHeld
    BookWithinGrant
CHECK_DEADLOCK FALSE
