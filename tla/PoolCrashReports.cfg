CONSTANTS
    NTasks = 2
    K = 2
    NParallel = 2
    api = api
    NoGroup = NoGroup
    Group = {api}
    GroupOf <- FirstTaskGrouped
    Limit <- OneAtATime
    KnownIssue = {}
    RealityCheck = FALSE
    Failures = {"workerDeath"}
    MaxFailures = 1
SPECIFICATION Spec
INVARIANTS
    CrashStillReports
