SPECIFICATION FairSpec
CONSTANTS
    None = None
    d1 = d1
    Data = {d1}
    MTU_SIZE = 4
    CRC_SIZE = 2
    id = 1
    Frames <- MCFrames
    Timeout = 1
    MaxTime = 2
    MaxBytes = 3
INVARIANTS
    RxTypeOK
    RxEntriesSound
    NewTransferNeverFails
PROPERTIES
    RefusedFrameKeepsPayloads
    RxTransfersExpire
