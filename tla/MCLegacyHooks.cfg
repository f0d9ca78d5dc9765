CONSTANTS
    t1 = t1
    t2 = t2
    Threads = {t1, t2}
    Uses <- MCUses
    Paths = {"a", "b"}
    Levels = {1, 3}
    DefaultConfig <- MCDefault
    ConfigArgs <- MCConfigs
    Found = {TRUE, FALSE}
    MaxGlobalQp = 2
    GlobalReadings = {0, 2}
    EbpfReadings = {0, 2}
    MRLength = 1
SPECIFICATION LegacySpec
CHECK_DEADLOCK FALSE
INVARIANTS LogSound ConfigLayered CountsHeld LimitHolds RefusedAfterPeak
