CONSTANTS
    NTasks = 1
    K = 3
    NParallel = 2
    api = api
    NoGroup = NoGroup
    Group = {api}
    GroupOf <- AllTasksGrouped
    Limit <- OneAtATime
    KnownIssue = {}
    RealityCheck = FALSE
    Failures = {"setup", "config", "rateLimit", "workerDeath"}
    MaxFailures = 2
SPECIFICATION Spec
PROPERTIES
    SubmittedIsAnswered
    RunEnds
