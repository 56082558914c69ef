CONSTANTS
    Proc = {parent, w1, w2}
    Parent = parent
    NoProc = NoProc
    NoServer = NoServer
    tickets = tickets
    wiki = wiki
    search = search
    Server = {tickets, wiki, search}
    Login = {tickets, wiki}
    Lifetime <- ShortLifetimes
    Permits = 1
    Attempts = 3
    MaxTime = 1
    MaxFailures = 1
SPECIFICATION Spec
INVARIANTS
    TypeOK
    NoReplay
    LoginKept
    MintsOnlySpent
PROPERTY
    CallEnds
CHECK_DEADLOCK FALSE
