SPECIFICATION Spec
CONSTANTS
    a = a  b = b  one = one  custody = custody  cash = cash
    deposit = deposit  deposit2 = deposit2  lotA = lotA
    d1 = d1  d2 = d2  d3 = d3  d4 = d4  g0 = g0  gap = gap  garbage = garbage
    Cells = {a, b}
    Accounts = {custody, cash}
    QuantityAccounts = {custody}
    OpIds = {deposit, deposit2}
    Lots = {lotA}
    Digests = {d1, d2, d3, d4, g0}
    Genesis = g0
    MaxSession = 1
    MaxSequence = 3
    MaxBalance = 2
    Records <- MCRecords
    Operations <- MCOperations
    NoRow = NoRow  NoLot = NoLot  NoTail = NoTail  NoPark = NoPark
    NoLast = NoLast  NoSession = NoSession  NoBatch = NoBatch
    Stride = 3
    Passed = {gap}
    Garbage = {garbage}
    Partitions = {one}
    Home <- OneHome
    Batches <- LagBatches
    LagLimit = 1
    MaxBatches = 3
    MaxFaults = 1
    FaultKinds = {"lostAck"}
INVARIANT NothingLostBehindTheCursor
