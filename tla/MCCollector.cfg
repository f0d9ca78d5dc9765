CONSTANTS
    c1 = c1
    c2 = c2
    None = none
    Clients = {c1, c2}
    Pids = {p1}
    KernelStates <- MCKernelStates
    Calls <- MCCalls
    Sizes = {1}
    MaxQp = 1
    MaxMemory = 1
    DefaultMax = 3
    Word = 16
    Backlog = 10
    MaxChanges = 1
    MaxCalls <- MCMaxCalls
SPECIFICATION CollectorSpec
CHECK_DEADLOCK FALSE
INVARIANTS GrantsCounted FreshStats VerdictOfOneMoment
PROPERTIES ClientsReturn CountsFollowKernel ShutdownCompletes
