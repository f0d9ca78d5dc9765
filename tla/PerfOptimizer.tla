---------------------------- MODULE PerfOptimizer ----------------------------
(***************************************************************************)
(* The performance optimizer (performance_optimizer.c): a buffer of usage  *)
(* updates that a background thread writes to the process region, and a    *)
(* cache of one entry per hash bucket that expires.                        *)
(*                                                                         *)
(* A usage record is abstracted to the number of the update that brought   *)
(* it, in the order in which updates are accepted.  The region is what     *)
(* ProcessShm shows it to be: records replaced in one step.  An entry of   *)
(* the cache is read and written under its own spin lock, which nobody     *)
(* holds across another step.  Statistics are left out; what they decide,  *)
(* the direction of adaptive_adjust, is a choice.                          *)
(***************************************************************************)
EXTENDS Naturals, Sequences, SequencesExt, FiniteSets

CONSTANTS
    Callers,        \* threads that call the optimizer
    Flusher,        \* the thread perf_optimizer_init starts
    Pids,
    Hash,           \* hash_pid: Pids -> Buckets
    Buckets,
    RegionRoom,     \* MAX_PROCESSES of the region
    Uses,           \* the ways applications use the optimizer
    InitTtl, MinTtl, MaxTtl, LowTtl, HighTtl, TtlStep

Threads == Callers \cup {Flusher}
Free    == "free"
Empty   == [pid |-> "none", u |-> 0, stamp |-> 0, valid |-> FALSE]
NoFrame == [op |-> "none", pid |-> "none", u |-> 0, i |-> 0, floor |-> 0]

ASSUME PerfAssumption ==
    /\ Flusher \notin Callers /\ Free \notin Threads
    /\ Hash \in [Pids -> Buckets] /\ IsFiniteSet(Pids)
    /\ RegionRoom \in Nat \ {0}
    /\ \A u \in Uses :
         /\ u.callers \subseteq Callers
         /\ u.ops \subseteq {"batch", "get", "invalidate", "clear", "flush", "prefetch", "cleanup",
                            "batching", "cache", "ttl"}
         /\ u.capacity \in Nat \ {0}
         /\ {u.time, u.updates, u.calls} \subseteq Nat
    /\ {InitTtl, MinTtl, MaxTtl, LowTtl, HighTtl, TtlStep} \subseteq Nat
    /\ TtlStep <= MinTtl /\ MinTtl <= LowTtl /\ HighTtl <= MaxTtl /\ InitTtl \in MinTtl..MaxTtl

VARIABLES
    use,                \* how this application uses the optimizer: never changes
    buffer,             \* g_batch_buffer: pids[] and pending_updates[], count long
    batch_mutex,        \* the holder of g_batch_mutex
    cache,              \* g_cache.entries
    ttl,                \* g_cache.ttl_ms
    g_running, g_batching_enabled, g_cache_enabled,
    region,             \* the process region: the update each process has there, 0 if none
    now,                \* get_current_time_ms
    pc, frame,          \* per thread: where it is; its call, argument, value and loop index
    calls,
    accepted            \* auxiliary: the process of every accepted update, in order

bufferVars == <<buffer, batch_mutex, region, accepted>>
cacheVars  == <<cache, ttl>>
flagVars   == <<g_running, g_batching_enabled, g_cache_enabled>>
perfVars   == <<bufferVars, cacheVars, flagVars, now, pc, frame, calls>>

Ops        == use.ops        \* the operations its threads call
Capacity   == use.capacity   \* CACHE_BUCKET_COUNT, the length of the update buffer
MaxTime    == use.time       \* bound: clock ticks
MaxUpdates == use.updates    \* bound: accepted updates
MaxCalls   == use.calls      \* bound: other calls

(* The last update accepted for p, 0 if there was none. *)
Latest(p) == SelectLastInSeq(accepted, LAMBDA q : q = p)

(* The place of p in the buffer, 0 if there is none. *)
Found(p) == SelectInSeq(buffer, LAMBDA e : e.pid = p)

(* perf_optimizer_init, its thread started. *)
PerfInit ==
    /\ use \in Uses
    /\ buffer = <<>> /\ batch_mutex = Free
    /\ cache = [b \in Buckets |-> Empty]
    /\ ttl = InitTtl
    /\ g_running = TRUE /\ g_batching_enabled = TRUE /\ g_cache_enabled = TRUE
    /\ region = [p \in Pids |-> 0]
    /\ now = 0 /\ calls = 0
    /\ pc = [t \in Threads |-> IF t = Flusher THEN "sleep" ELSE "idle"]
    /\ frame = [t \in Threads |-> NoFrame]
    /\ accepted = <<>>

Goto(t, l) == pc' = [pc EXCEPT ![t] = l]
Return(t)  == Goto(t, "idle") /\ frame' = [frame EXCEPT ![t] = NoFrame]

(* shm_update_process_resources, whose failure nobody looks at. *)
Written(p, x) ==
    IF region[p] # 0 \/ Cardinality({q \in Pids : region[q] # 0}) < RegionRoom
    THEN [region EXCEPT ![p] = x] ELSE region

-----------------------------------------------------------------------------
(* Calls.  The flag that decides between buffer and direct write, or that   *)
(* makes a lookup return at once, is read on entry.                         *)
Enter(t, o, p, l) ==
    /\ o \in Ops /\ t \in use.callers /\ pc[t] = "idle"
    /\ frame' = [frame EXCEPT ![t] = [op |-> o, pid |-> p, u |-> 0, i |-> 0, floor |-> Latest(p)]]
    /\ Goto(t, l)
    /\ UNCHANGED <<bufferVars, cacheVars, now>>

Counted == calls < MaxCalls /\ calls' = calls + 1

BatchUpdate(t, p) ==
    /\ Len(accepted) < MaxUpdates /\ UNCHANGED calls
    /\ Enter(t, "batch", p, IF g_batching_enabled THEN "batch" ELSE "direct")
    /\ UNCHANGED flagVars

GetCached(t, p) ==
    /\ Counted /\ g_cache_enabled
    /\ Enter(t, "get", p, "peek")
    /\ UNCHANGED flagVars

Prefetch(t, p)   == Counted /\ Enter(t, "prefetch", p, "fetch") /\ UNCHANGED flagVars
Invalidate(t, p) == Counted /\ Enter(t, "invalidate", p, "drop") /\ UNCHANGED flagVars
ClearCache(t, p) == Counted /\ Enter(t, "clear", p, "sweep") /\ UNCHANGED flagVars
FlushNow(t, p)   == Counted /\ Enter(t, "flush", p, "flush") /\ UNCHANGED flagVars

Cleanup(t, p) ==
    /\ Counted /\ Enter(t, "cleanup", p, "join")
    /\ g_running' = FALSE
    /\ UNCHANGED <<g_batching_enabled, g_cache_enabled>>

(* Single stores: enable_batching, enable_cache, and set_cache_ttl with its *)
(* clamp.                                                                   *)
Set(t, o) ==
    /\ o \in Ops /\ t \in use.callers /\ pc[t] = "idle" /\ Counted
    /\ UNCHANGED <<bufferVars, cache, now, pc, frame, g_running>>

EnableBatching(t) ==
    /\ Set(t, "batching")
    /\ g_batching_enabled' = ~g_batching_enabled
    /\ UNCHANGED <<ttl, g_cache_enabled>>

EnableCache(t) ==
    /\ Set(t, "cache")
    /\ g_cache_enabled' = ~g_cache_enabled
    /\ UNCHANGED <<ttl, g_batching_enabled>>

SetTtl(t) ==
    /\ Set(t, "ttl")
    /\ ttl' \in MinTtl..MaxTtl
    /\ UNCHANGED <<g_batching_enabled, g_cache_enabled>>

-----------------------------------------------------------------------------
(* The buffer: everything under g_batch_mutex up to its release is a step,  *)
(* except the flush, which others can see half done in the region.          *)
Pending(t) == [pid |-> frame[t].pid, u |-> Len(accepted) + 1]

Accept(t) ==
    /\ accepted' = Append(accepted, frame[t].pid)
    /\ frame' = [frame EXCEPT ![t].u = Len(accepted')]

(* Merge with the process's pending update, append, or find the buffer full *)
(* and release the mutex to flush.                                          *)
BatchInsert(t) ==
    LET f == Found(frame[t].pid) IN
    /\ pc[t] = "batch" /\ batch_mutex = Free
    /\ \/ /\ f > 0
          /\ buffer' = [buffer EXCEPT ![f] = Pending(t)]
          /\ Accept(t) /\ Goto(t, "store")
       \/ /\ f = 0 /\ Len(buffer) < Capacity
          /\ buffer' = Append(buffer, Pending(t))
          /\ Accept(t) /\ Goto(t, "store")
       \/ /\ f = 0 /\ Len(buffer) >= Capacity
          /\ Goto(t, "flush")
          /\ UNCHANGED <<buffer, accepted, frame>>
    /\ UNCHANGED <<batch_mutex, region, cacheVars, flagVars, now, calls>>

(* After the flush: entry 0 is overwritten and count set to 1.              *)
BatchRetry(t) ==
    /\ pc[t] = "retry" /\ batch_mutex = Free
    /\ buffer' = <<Pending(t)>>
    /\ Accept(t) /\ Goto(t, "store")
    /\ UNCHANGED <<batch_mutex, region, cacheVars, flagVars, now, calls>>

(* Batching is off: straight to the region, and the cache stays as it is.   *)
WriteDirect(t) ==
    /\ pc[t] = "direct"
    /\ region' = Written(frame[t].pid, Len(accepted) + 1)
    /\ accepted' = Append(accepted, frame[t].pid)
    /\ Return(t)
    /\ UNCHANGED <<buffer, batch_mutex, cacheVars, flagVars, now, calls>>

(* Where perf_optimizer_flush_batch_buffer returns to. *)
FlushReturn(t) ==
    \/ t = Flusher /\ Goto(t, "adapt") /\ frame' = [frame EXCEPT ![t].i = 0]
    \/ frame[t].op = "batch" /\ Goto(t, "retry") /\ frame' = [frame EXCEPT ![t].i = 0]
    \/ frame[t].op = "cleanup" /\ Goto(t, "cleaned") /\ frame' = [frame EXCEPT ![t] = NoFrame]
    \/ frame[t].op = "flush" /\ Return(t)

FlushBegin(t) ==
    /\ pc[t] = "flush" /\ batch_mutex = Free
    /\ \/ buffer = <<>> /\ FlushReturn(t) /\ UNCHANGED batch_mutex
       \/ /\ buffer # <<>>
          /\ batch_mutex' = t
          /\ frame' = [frame EXCEPT ![t].i = 1]
          /\ Goto(t, "put")
    /\ UNCHANGED <<buffer, region, accepted, cacheVars, flagVars, now, calls>>

FlushPut(t) ==
    LET k == frame[t].i IN
    /\ pc[t] = "put" /\ k <= Len(buffer)
    /\ region' = Written(buffer[k].pid, buffer[k].u)
    /\ frame' = [frame EXCEPT ![t].i = k + 1]
    /\ UNCHANGED <<buffer, batch_mutex, accepted, cacheVars, flagVars, now, calls, pc>>

FlushEnd(t) ==
    /\ pc[t] = "put" /\ frame[t].i > Len(buffer)
    /\ buffer' = <<>> /\ batch_mutex' = Free
    /\ FlushReturn(t)
    /\ UNCHANGED <<region, accepted, cacheVars, flagVars, now, calls>>

(* Variant: cleanup does not wait for anything to be written. *)
Join_without_flush(t) ==
    /\ pc[t] = "join" /\ pc[Flusher] = "exit"
    /\ Goto(t, "cleaned")
    /\ UNCHANGED <<bufferVars, cacheVars, flagVars, now, calls, frame>>

(* perf_optimizer_cleanup: pthread_join, then a last flush.                 *)
Join(t) ==
    /\ pc[t] = "join" /\ pc[Flusher] = "exit"
    /\ Goto(t, "flush")
    /\ UNCHANGED <<bufferVars, cacheVars, flagVars, now, calls, frame>>

-----------------------------------------------------------------------------
(* The cache.                                                               *)
Bucket(t) == Hash[frame[t].pid]

(* perf_optimizer_update_cached_resources, of batch and of prefetch.        *)
Store(t) ==
    /\ pc[t] = "store"
    /\ cache' = IF g_cache_enabled
                THEN [cache EXCEPT ![Bucket(t)] =
                          [pid |-> frame[t].pid, u |-> frame[t].u, stamp |-> now, valid |-> TRUE]]
                ELSE cache
    /\ Return(t)
    /\ UNCHANGED <<bufferVars, ttl, flagVars, now, calls>>

IsFor(entry, p) == entry.valid /\ entry.pid = p

(* The check without the lock. *)
Peek(t) ==
    /\ pc[t] = "peek"
    /\ \/ IsFor(cache[Bucket(t)], frame[t].pid) /\ Goto(t, "lookup") /\ UNCHANGED frame
       \/ ~IsFor(cache[Bucket(t)], frame[t].pid) /\ Return(t)
    /\ UNCHANGED <<bufferVars, cacheVars, flagVars, now, calls>>

(* Variant: what the unlocked check saw is trusted. *)
Lookup_trusts_peek(t) ==
    LET e == cache[Bucket(t)] IN
    /\ pc[t] = "lookup"
    /\ \/ /\ now - e.stamp <= ttl
          /\ Goto(t, "hit") /\ frame' = [frame EXCEPT ![t].u = e.u]
       \/ now - e.stamp > ttl /\ Return(t)
    /\ UNCHANGED <<bufferVars, cacheVars, flagVars, now, calls>>

(* The check again under the lock, then the age: an old entry is dropped.   *)
Lookup(t) ==
    LET b == Bucket(t)
        own == IsFor(cache[b], frame[t].pid)
        old == now - cache[b].stamp > ttl IN
    /\ pc[t] = "lookup"
    /\ \/ /\ own /\ ~old
          /\ Goto(t, "hit") /\ frame' = [frame EXCEPT ![t].u = cache[b].u]
          /\ UNCHANGED cache
       \/ /\ own /\ old
          /\ cache' = [cache EXCEPT ![b].valid = FALSE]
          /\ Return(t)
       \/ ~own /\ Return(t) /\ UNCHANGED cache
    /\ UNCHANGED <<bufferVars, ttl, flagVars, now, calls>>

(* The caller has its record. *)
ReturnHit(t) ==
    /\ pc[t] = "hit" /\ Return(t)
    /\ UNCHANGED <<bufferVars, cacheVars, flagVars, now, calls>>

(* perf_optimizer_invalidate_cache and perf_optimizer_clear_cache; the      *)
(* buckets are independent, so their order does not matter.                 *)
Drop(t) ==
    /\ \/ pc[t] = "drop" /\ cache' = [cache EXCEPT ![Bucket(t)].valid = @ /\ cache[Bucket(t)].pid # frame[t].pid]
       \/ pc[t] = "sweep" /\ cache' = [b \in Buckets |-> [cache[b] EXCEPT !.valid = FALSE]]
    /\ Return(t)
    /\ UNCHANGED <<bufferVars, ttl, flagVars, now, calls>>

(* shm_get_process_resources, of prefetch: it succeeds, with zeroes, for a  *)
(* process that has no record.                                              *)
Fetch(t) ==
    /\ pc[t] = "fetch"
    /\ Goto(t, "store")
    /\ frame' = [frame EXCEPT ![t].u = region[frame[t].pid]]
    /\ UNCHANGED <<bufferVars, cacheVars, flagVars, now, calls>>

-----------------------------------------------------------------------------
(* The background thread.                                                   *)
(* Variant: a single pending update is not worth a flush. *)
Wake_for_many ==
    /\ pc[Flusher] = "sleep"
    /\ Goto(Flusher, IF ~g_running THEN "exit" ELSE IF Len(buffer) > 1 THEN "flush" ELSE "adapt")
    /\ UNCHANGED <<bufferVars, cacheVars, flagVars, now, calls, frame>>

Wake ==
    /\ pc[Flusher] = "sleep"
    /\ Goto(Flusher, IF ~g_running THEN "exit" ELSE IF g_batching_enabled THEN "flush" ELSE "adapt")
    /\ UNCHANGED <<bufferVars, cacheVars, flagVars, now, calls, frame>>

(* Every hundredth round adaptive_adjust compares the hit rate; then the    *)
(* while condition.                                                         *)
Adapt ==
    /\ pc[Flusher] = "adapt"
    /\ \/ Goto(Flusher, IF g_running THEN "sleep" ELSE "exit")
       \/ ttl > LowTtl /\ Goto(Flusher, "lower")
       \/ ttl < HighTtl /\ Goto(Flusher, "raise")
    /\ UNCHANGED <<bufferVars, cacheVars, flagVars, now, calls, frame>>

AdaptTtl ==
    /\ \/ pc[Flusher] = "lower" /\ ttl' = ttl - TtlStep
       \/ pc[Flusher] = "raise" /\ ttl' = ttl + TtlStep
    /\ Goto(Flusher, IF g_running THEN "sleep" ELSE "exit")
    /\ UNCHANGED <<bufferVars, cache, flagVars, now, calls, frame>>

Tick ==
    /\ now < MaxTime
    /\ now' = now + 1
    /\ UNCHANGED <<bufferVars, cacheVars, flagVars, calls, pc, frame>>

-----------------------------------------------------------------------------
Call(t, p) ==
    \/ BatchUpdate(t, p) \/ GetCached(t, p) \/ Prefetch(t, p) \/ Invalidate(t, p)
    \/ ClearCache(t, p) \/ FlushNow(t, p) \/ Cleanup(t, p)

Flush(t) == FlushBegin(t) \/ FlushPut(t) \/ FlushEnd(t)

Serve(t) ==
    \/ BatchInsert(t) \/ BatchRetry(t) \/ WriteDirect(t) \/ Flush(t) \/ Join(t)
    \/ Store(t) \/ Peek(t) \/ Lookup(t) \/ ReturnHit(t) \/ Drop(t) \/ Fetch(t)

FlusherStep == Wake \/ Flush(Flusher) \/ Adapt \/ AdaptTtl

PerfNext ==
    /\ \/ \E t \in Callers, p \in Pids : Call(t, p)
       \/ \E t \in Callers : EnableBatching(t) \/ EnableCache(t) \/ SetTtl(t) \/ Serve(t)
       \/ FlusherStep
       \/ Tick
    /\ UNCHANGED use

(* A call that has begun runs on, and so does the background thread; nobody *)
(* is obliged to call.                                                      *)
PerfSpec ==
    /\ PerfInit /\ [][PerfNext]_<<use, perfVars>>
    /\ \A t \in Callers : WF_perfVars(Serve(t))
    /\ WF_perfVars(FlusherStep)

-----------------------------------------------------------------------------
Labels == {"idle", "batch", "store", "flush", "retry", "direct", "put", "join", "cleaned", "peek",
           "lookup", "hit", "drop", "sweep", "fetch", "sleep", "exit", "adapt", "lower", "raise"}
Updates == 1..Len(accepted)

(* Buffer, cache and threads have the shape the code gives them; the buffer *)
(* never outgrows its array.                                                *)
PerfTypeOK ==
    /\ buffer \in Seq([pid : Pids, u : Updates]) /\ Len(buffer) <= Capacity
    /\ batch_mutex \in Threads \cup {Free}
    /\ cache \in [Buckets -> {Empty} \cup [pid : Pids, u : {0} \cup Updates, stamp : 0..now, valid : BOOLEAN]]
    /\ ttl \in 0..(MaxTtl + TtlStep)
    /\ region \in [Pids -> {0} \cup Updates]
    /\ pc \in [Threads -> Labels]
    /\ \A t \in Threads : frame[t].i \in 0..(Capacity + 1) /\ frame[t].u \in {0} \cup Updates

(* Conditions on the use (README, "Conditions"): one thread calls; the      *)
(* buffer, or the region, has room for every process; batching and caching  *)
(* stay on.                                                                 *)
Alone      == \E t \in Callers : use.callers = {t}
NeverFull  == Capacity >= Cardinality(Pids)
RoomForAll == RegionRoom >= Cardinality(Pids)
Steady     == Ops \cap {"batching", "cache", "prefetch"} = {}

(* No accepted update is lost: the latest of a process is pending in the    *)
(* buffer, or, when nothing of it is pending, in the region; and when       *)
(* cleanup has returned to the only caller nothing is pending.              *)
LatestKept ==
    Steady /\ RoomForAll /\ (Alone \/ NeverFull) =>
        /\ \A p \in Pids :
             IF Found(p) > 0 THEN buffer[Found(p)].u = Latest(p) ELSE region[p] = Latest(p)
        /\ Alone /\ (\E t \in Callers : pc[t] = "cleaned") => buffer = <<>>

(* A lookup that passed the unlocked check still returns a record of the    *)
(* process it was asked for (or the zeroes of one that has none), though    *)
(* others share its bucket and the use is any.                              *)
HitIsOwn ==
    \A t \in Callers : pc[t] = "hit" => frame[t].u = 0 \/ accepted[frame[t].u] = frame[t].pid

(* A hit is not behind the updates that had been accepted when the lookup   *)
(* began: batch_update refreshes the cache with what it buffers.            *)
HitNotBehind ==
    Steady /\ Alone => \A t \in Callers : pc[t] = "hit" => frame[t].u >= frame[t].floor

(* A hit of the cache can be used: it is the process's own record, and not  *)
(* behind what a single thread has reported.                                *)
HitSound == PerfTypeOK /\ HitIsOwn /\ HitNotBehind

(* The region catches up again and again, though callers use the mutex too: *)
(* while the background thread runs, no update waits in the buffer for ever.*)
EventuallyWritten ==
    \A p \in Pids : []<>(Steady /\ g_running => region[p] = Latest(p))
=============================================================================
