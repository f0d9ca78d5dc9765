CONSTANTS
    c1 = c1
    c2 = c2
    p1 = p1
    MaxTenants = 3
    MaxProcesses = 1
    Pids = {p1}
    QuotaArgs <- NoArgs
    DefaultQuota <- ZeroQuota
    UsageArgs <- NoArgs
    StatusArgs = {}
    Word = 8
    Clients = {c1, c2}
    Requests <- MCRequests
    Backlog = 1
    DefaultLimit = 1
    DefaultMemory = 4
    DefaultPd = 1
    MayInterrupt = TRUE
    MaxSignals = 1
    MaxStarts = 2
    MaxCli = 2
SPECIFICATION DaemonSpec
CHECK_DEADLOCK FALSE
INVARIANTS AnswersTrue ReportsTrue
PROPERTIES DaemonProgress
