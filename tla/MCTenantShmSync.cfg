CONSTANTS
    c1 = c1
    c2 = c2
    p1 = p1
    p2 = p2
    MaxTenants = 2
    MaxProcesses = 2
    Pids = {p1, p2}
    QuotaArgs <- MCQuotaArgs
    DefaultQuota <- MCDefaultQuota
    UsageArgs <- MCUsageArgs
    StatusArgs = {"SUSPENDED"}
    Word = 4
    Clients = {c1, c2}
    MayCrash = TRUE
    MaxCalls = 3
SPECIFICATION SyncSpec
CHECK_DEADLOCK FALSE
INVARIANTS SectionSound
PROPERTIES ImplementsTable LockKeepsBecomingFree
