CONSTANTS
    Proc = {parent, w1, w2}
    Parent = parent
    NoProc = NoProc
    NoServer = NoServer
    tickets = tickets
    wiki = wiki
    search = search
    Server = {tickets}
    Login = {tickets}
    Lifetime <- Lifetimes
    Permits = 1
    Attempts = 2
    MaxTime = 6
    MaxFailures = 0
SPECIFICATION Spec
PROPERTY NoneStartsSpent
CHECK_DEADLOCK FALSE
