SPECIFICATION Spec
CONSTANTS
    Providers = {"codex_cli", "opencode", "copilot_cli"}
    Modes = {"execute", "skill+", "skill-", "tool+", "tool-"}
    MaxActs = 4
INVARIANTS
    TypeOK
    HarnessGone
    DetectedIsGraded
    NegativePassClean
    TimeoutFails
PROPERTIES
    AttemptEnds
    OrphanStops
    ImplementsContract
CHECK_DEADLOCK FALSE
