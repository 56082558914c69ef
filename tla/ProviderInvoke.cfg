SPECIFICATION Spec
CONSTANTS
    Modes <- AllModes
    MaxEvents = 3
    MaxRetries = 1
INVARIANTS
    TypeOK
    HarnessGone
    TimeoutIsNoPass
    NegativePassEarned
    SingleFireGraded
PROPERTIES
    InvokeEnds
    ImplementsContract
CHECK_DEADLOCK FALSE
