CONSTANTS
    p1 = p1
    p2 = p2
    p3 = p3
    c1 = c1
    c2 = c2
    MaxProcesses = 2
    Pids = {p1, p2, p3}
    Fields = {"qp_count", "mr_count"}
    Usages <- MCUsages
    Limits <- MCLimits
    DefaultLimits <- MCDefaultLimits
    Clients = {c1, c2}
    MaxCalls = 4
    Service = c1
    ServiceLimits <- MCServiceLimits
    KeyOrder <- MCKeyOrder
    KernelInit <- MCKernel
    KernelUsages <- MCKernelUsages
    ServiceCalls = 1
    MaxRounds = 2
    MaxChanges = 1
    MaxSignals = 1
    MaxStarts = 2
SPECIFICATION CollectorSpec
CONSTRAINT Sole
CHECK_DEADLOCK FALSE
INVARIANTS OneSlotPerProcess ReadsOwnRecord RoundTrue
PROPERTIES ImplementsRecords ServiceStops
