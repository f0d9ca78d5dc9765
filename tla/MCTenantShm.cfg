CONSTANTS
    p1 = p1
    p2 = p2
    p3 = p3
    MaxTenants = 3
    MaxProcesses = 2
    Pids = {p1, p2, p3}
    QuotaArgs <- MCQuotaArgs
    DefaultQuota <- MCDefaultQuota
    UsageArgs <- MCUsageArgs
    StatusArgs = {"ACTIVE", "SUSPENDED"}
    Word = 4
SYMMETRY Symmetry
SPECIFICATION TableSpec
INVARIANTS BindingsSound CountersMatch
PROPERTIES SuspendedAdmitsNobody
