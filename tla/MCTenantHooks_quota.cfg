CONSTANTS
    p1 = p1
    p2 = p2
    h1 = h1
    h2 = h2
    h3 = h3
    MaxTenants = 3
    MaxProcesses = 2
    Pids = {p1, p2}
    QuotaArgs <- QuotaSet1
    DefaultQuota <- Quota1
    UsageArgs <- NoUsageArgs
    StatusArgs = {"SUSPENDED"}
    Word = 8
    Threads = {h1, h2}
    ProcOf <- TwoProcs
    EnvTenant <- OneTenant
    Ops <- QpVerbs
    AdminOps = {}
    AdminTenants = {}
    AdminPids = {}
    InitQuota <- Quota1
    MRLength = 1
    EnableQpControl = TRUE
    ProcShmMapped = TRUE
    QpTypes = {"RC"}
    AllowedTypes = {"RC"}
    MaxQpPerProcess = 2
    MaxGlobalQp = 2
    GlobalReadings = {0, 2}
    MaxOps = 4
SPECIFICATION HooksSpec
CHECK_DEADLOCK FALSE
INVARIANTS QuotaRespected
