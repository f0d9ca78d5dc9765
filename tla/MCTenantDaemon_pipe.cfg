CONSTANTS
    c1 = c1
    c2 = c2
    p1 = p1
    MaxTenants = 3
    MaxProcesses = 1
    Pids = {p1}
    QuotaArgs <- NoArgs
    DefaultQuota <- ZeroQuota
    UsageArgs <- NoArgs
    StatusArgs = {}
    Word = 8
    Clients = {c1}
    Requests <- OneCreate
    Backlog = 1
    DefaultLimit = 1
    DefaultMemory = 4
    DefaultPd = 1
    MayInterrupt = FALSE
    MaxSignals = 0
    MaxStarts = 1
    MaxCli = 0
SPECIFICATION DaemonSpec
CHECK_DEADLOCK FALSE
INVARIANTS ListensUntilSignalled
