SPECIFICATION Spec
CONSTANTS
    Modes <- PositiveTool
    MaxEvents = 2
    MaxRetries = 1
INVARIANT
    TreeIsGone
CHECK_DEADLOCK FALSE
