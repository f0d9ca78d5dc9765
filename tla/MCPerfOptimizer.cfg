CONSTANTS
    p1 = p1
    p2 = p2
    t1 = t1
    t2 = t2
    Callers = {t1, t2}
    Flusher = flusher
    Pids = {p1, p2}
    Hash <- MCHash
    Buckets <- MCBuckets
    RegionRoom = 2
    Uses <- MCUses
    InitTtl = 1
    MinTtl = 1
    LowTtl = 1
    HighTtl = 2
    MaxTtl = 2
    TtlStep = 1
SPECIFICATION PerfSpec
CHECK_DEADLOCK FALSE
INVARIANTS LatestKept HitSound
PROPERTIES EventuallyWritten
