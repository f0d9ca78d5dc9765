CONSTANTS
    t1 = t1
    t2 = t2
    Callers = {t1, t2}
    Adjuster = adjuster
    PolicyTenants = {"a"}
    Resources = {"qp", "mr", "memory"}
    Limits <- MCLimits
    DefaultLimit <- MCDefaultLimit
    Amounts = {1}
    Counts = {0, 1}
    W = 8
    MB = 2
    Ops <- MCOps
    MaxCalls = 3
SPECIFICATION PolicySpec
CHECK_DEADLOCK FALSE
INVARIANTS VerdictOfOneLimit
PROPERTIES OnlyAdjusterBlocks PublishedLimitsFollow
