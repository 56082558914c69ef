CONSTANTS
    NTasks = 2
    K = 2
    NParallel = 2
    api = api
    NoGroup = NoGroup
    Group = {api}
    GroupOf <- FirstTaskGrouped
    Limit <- OneAtATime
    KnownIssue = {2}
    RealityCheck = FALSE
    Failures = {"setup", "config", "timeout", "unattached", "rateLimit",
                "providerCrash", "record", "workerDeath", "judge", "judgeLimit"}
    MaxFailures = 1
SPECIFICATION Spec
INVARIANTS
    TypeOK
    PermitsAccounted
    GroupCapRespected
    NoWorkerOutlivesTmpRoot
    WarmUpFirst
    RunJsonComplete
    GradedIsRescorable
    ExitZeroIsGreen
    HeartbeatAccounts
    IInv
PROPERTIES
    ImplementsLedger
