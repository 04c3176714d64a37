SPECIFICATION FairSpec
CONSTANTS
    w1 = w1
    w2 = w2
    w3 = w3
    p1 = p1
    p2 = p2
    k1 = k1
    k2 = k2
    k3 = k3
    NoWriter = NoWriter
    Writer = {w1, w3}
    Process = {p1, p2}
    Key = {k1, k3}
    ProcOf <- MCProcOf
    KeyOf <- KeysApart
    ValueOf <- OwnBytes
    ReservedPositions <- SameReserve
    MaxCasAttempts = 3
    MaxPosition = 5
    MaxTx = 2
INVARIANTS
    TypeOK
    PositionsAreCommitOrder
PROPERTIES
    ImplementsOrderedLog
    
CHECK_DEADLOCK FALSE
