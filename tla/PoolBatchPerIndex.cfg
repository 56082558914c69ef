CONSTANTS
    NTasks = 1
    K = 3
    NParallel = 2
    api = api
    NoGroup = NoGroup
    Group = {api}
    GroupOf <- FirstTaskGrouped
    Limit <- OneAtATime
    KnownIssue = {}
    RealityCheck = FALSE
    Failures = {}
    MaxFailures = 0
SPECIFICATION Spec
INVARIANTS
    BatchPerAttemptIndex
