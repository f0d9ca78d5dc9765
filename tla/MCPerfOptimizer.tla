--------------------------- MODULE MCPerfOptimizer ---------------------------
(* TLC instance of PerfOptimizer: every process in the one bucket, so that  *)
(* lookups collide, and four uses: one thread and a buffer that fills up;   *)
(* two threads that only update, read and flush; two that switch batching,  *)
(* caching and the ttl; and two that prefetch and drop entries.             *)
EXTENDS PerfOptimizer, TLC

CONSTANTS p1, p2, t1, t2

MCBuckets == {0}
MCHash == [p \in Pids |-> 0]

Single   == [callers |-> {t1}, ops |-> {"batch", "get", "flush", "cleanup"},
             capacity |-> 1, time |-> 2, updates |-> 3, calls |-> 3]
Shared   == [callers |-> {t1, t2}, ops |-> {"batch", "get", "flush"},
             capacity |-> 2, time |-> 0, updates |-> 3, calls |-> 1]
Switched == [callers |-> {t1, t2}, ops |-> {"batch", "get", "batching", "cache", "ttl"},
             capacity |-> 2, time |-> 0, updates |-> 1, calls |-> 2]
Dropped  == [callers |-> {t1, t2}, ops |-> {"batch", "get", "prefetch", "invalidate", "clear"},
             capacity |-> 2, time |-> 0, updates |-> 1, calls |-> 2]
MCUses == {Single, Shared, Switched, Dropped}
=============================================================================
