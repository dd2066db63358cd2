SPECIFICATION Spec
CONSTANTS
    None = None
    d1 = d1
    d2 = d2
    Data = {d1, d2}
    MTU_SIZE = 4
    CRC_SIZE = 2
    SenderId = 1
    ReceiverId = 2
    Scenarios <- SplitCrc
    Timeout = 1
    MaxTime = 0
INVARIANTS
    AcceptsOwnFrames
