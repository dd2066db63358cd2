SPECIFICATION FairSpec
CONSTANTS
    None = None
    d1 = d1
    d2 = d2
    r1 = r1
    r2 = r2
    Data = {d1, d2, r1, r2}
    MTU_SIZE = 4
    CRC_SIZE = 2
    IdA = 1
    IdB = 2
    Plans <- MCPlans
    ReplyUse <- MCReplyUse
    ReplyTo <- MCReplyTo
    Timeout = 0
    MaxTime = 1
    MaxFaults = 1
INVARIANTS
    ResponsesMatch
    CalmBusAccepts
PROPERTIES
    DeliversTransfers
    AllDelivered
