SPECIFICATION Spec
CONSTANTS
    b1 = b1  b2 = b2  c1 = c1  c2 = c2  p1 = p1
    NoOne = NoOne
    Brokers = {b1}
    Clients = {c1, c2}
    Pids = {p1}
    Owner <- MCOwner
    WindowSize = 1
    MaxBatches = 1
    MaxRows = 2
    MaxTerms = 1
    MaxFaults = 1
    FaultKinds = {"answer"}
PROPERTY FencedFromInit
CHECK_DEADLOCK FALSE
