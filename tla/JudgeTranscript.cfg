SPECIFICATION Spec
CONSTANTS
    NTasks = 1
    K = 2
    Plans <- OneFixtured
    Skill = {s1, s2}
    Excluded = {s2}
    Text = {o1, o2}
    Provider = "claude_code"
    MaxRetries = 1
    MaxMishaps = 0
    Asserts <- MCAsserts
    Scopes = {}
    MaxRescores = 0
    MaxClock = 0
    MaxEdits = 0
    MaxBeside = 0
INVARIANT
    TranscriptJudged
CHECK_DEADLOCK FALSE
