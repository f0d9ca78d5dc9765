CONSTANTS
    p1 = p1
    p2 = p2
    h1 = h1
    h2 = h2
    h3 = h3
    MaxTenants = 3
    MaxProcesses = 2
    Pids = {p1, p2}
    QuotaArgs <- QuotaSet1
    DefaultQuota <- Quota1
    UsageArgs <- NoUsageArgs
    StatusArgs = {"SUSPENDED"}
    Word = 8
    Threads = {h1, h2, h3}
    ProcOf <- ThreeThreads
    EnvTenant <- TwoTenants
    Ops <- AllVerbs
    AdminOps = {"create", "delete", "quota", "status", "bind", "unbind", "exit"}
    AdminTenants = {1}
    AdminPids = {p1}
    InitQuota <- Quota1
    MRLength = 1
    EnableQpControl = TRUE
    ProcShmMapped = TRUE
    QpTypes = {"RC", "UC"}
    AllowedTypes = {"RC"}
    MaxQpPerProcess = 1
    MaxGlobalQp = 2
    GlobalReadings = {0, 2}
    MaxOps = 3
SPECIFICATION HooksSpec
CHECK_DEADLOCK FALSE
INVARIANTS TotalsAgree LocalCountsExact CountExact QuotaRespected NoFalseRefusal
