SPECIFICATION Spec
CONSTANTS
    w1 = w1
    w2 = w2
    w3 = w3
    p1 = p1
    p2 = p2
    k1 = k1
    k2 = k2
    k3 = k3
    NoWriter = NoWriter
    Writer = {w1, w2, w3}
    Process = {p1, p2}
    Key = {k1, k2, k3}
    ProcOf <- MCProcOf
    KeyOf <- KeysShared
    ValueOf <- OwnBytes
    ReservedPositions <- OtherReserve
    MaxCasAttempts = 2
    MaxPosition = 9
    MaxTx = 2
INVARIANTS
    TakenOnce
    AnswersAreFacts
    
CHECK_DEADLOCK FALSE
