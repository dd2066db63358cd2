\* Once the struct has been read nothing is left to do.
SPECIFICATION Spec
CHECK_DEADLOCK FALSE
CONSTANTS
    Types <- MCTypes
    Structs <- MCStructs
    Capacities = {1, 2, 3, 5, 8}
INVARIANTS
    SentInOrder
    ReadAsSent
    OnlyLastIsTold
PROPERTIES
    BothFinish
