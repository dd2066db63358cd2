\* A function has returned, or the bound on the time is reached: both stop.
SPECIFICATION Spec
CHECK_DEADLOCK FALSE
CONSTANTS
    None = None
    Data = {}
    MTU_SIZE = 8
    CRC_SIZE = 2
    TickRange = 16
    TicksPerMs = 2
    Timeouts = {0, 1, 2, 3, 4, 9}
    UpdateEvery = 3
    MaxTime = 40
INVARIANTS
    IdsRoundTrip
    AcceptedIdsAreWhole
    TableIsPolynomial
    ChangesAreDetected
    GoneInTime
PROPERTIES
    ExpiresAsInRealTime
