SPECIFICATION Spec
CONSTANTS
    NTasks = 2
    K = 1
    Plans <- MCPlans
    Skill = {s1, s2}
    Excluded = {s2}
    Text = {o1, o2}
    Provider = "claude_code"
    MaxRetries = 1
    MaxMishaps = 1
    Asserts <- MCAsserts
    Scopes <- MCScopes
    MaxRescores = 2
    MaxClock = 1
    MaxEdits = 1
    MaxBeside = 1
INVARIANTS
    TypeOK
    EvidenceIsOwn
    SkillsWhole
    VerdictsEarned
    ReportsStay
    CurrentIsNewest
PROPERTY
    PaidOnce
SYMMETRY Same
CHECK_DEADLOCK FALSE
