SPECIFICATION MCSpec
CONSTANTS
    None = None
    Data = {d1}
    MTU_SIZE = 4
    CRC_SIZE = 2
    id = 1
    Priorities <- MCPriorities
    PortIds <- MCPortIds
    TransferIds <- MCTransferIds
    TransmissionTypes <- MCTransmissionTypes
    BufferUses <- MCOverClaims
    Timeout = 1
    MaxTime = 3
INVARIANTS
    NoPanic
