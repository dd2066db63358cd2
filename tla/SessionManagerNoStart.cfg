\* A panic ends the program.
CHECK_DEADLOCK FALSE
SPECIFICATION HeapSpec
CONSTANTS
    None = None
    Subscriptions <- MCSubscriptions
    Frames <- MCFrames
    MaxTime = 3
INVARIANTS
    ValidHasTimestamp
