CONSTANTS
    t1 = t1
    t2 = t2
    Callers = {t1}
    Adjuster = adjuster
    PolicyTenants = {"a"}
    Resources = {"qp", "mr", "memory", "cq"}
    Limits <- MCLimits
    DefaultLimit <- MCDefaultLimit
    Amounts = {1}
    Counts = {0, 1}
    W = 8
    MB = 2
    Ops <- AdjustOps
    MaxCalls = 2
SPECIFICATION PolicySpec
CHECK_DEADLOCK FALSE
PROPERTIES CallsReturn
