----------------------- MODULE PerfOptimizer_proofs -----------------------
(***************************************************************************)
(* Proofs about the optimizer's buffer and cache, for any callers,         *)
(* processes, hash function, buffer length and ways of using it.           *)
(***************************************************************************)
EXTENDS PerfOptimizer, FiniteSetTheorems, TLAPS

CallerLabels  == {"idle", "batch", "store", "flush", "retry", "direct", "put", "join", "cleaned", "peek",
                  "lookup", "hit", "drop", "sweep", "fetch"}
FlusherLabels == {"sleep", "exit", "adapt", "lower", "raise", "flush", "put"}

(* Update number u is one of process p; 0 is none. *)
Own(u, p) == u = 0 \/ (u \in Updates /\ accepted[u] = p)

FlagsOK ==
    /\ use \in Uses
    /\ g_running \in BOOLEAN /\ g_batching_enabled \in BOOLEAN /\ g_cache_enabled \in BOOLEAN
    /\ now \in Nat /\ ttl \in 0 .. (MaxTtl + TtlStep)
    /\ pc[Flusher] = "lower" => ttl >= TtlStep
    /\ pc[Flusher] = "raise" => ttl <= MaxTtl

(* A process has at most one entry in the buffer. *)
BufferOK ==
    /\ accepted \in Seq(Pids)
    /\ buffer \in Seq([pid : Pids, u : Nat]) /\ Len(buffer) <= Capacity
    /\ \A k \in 1 .. Len(buffer) : Own(buffer[k].u, buffer[k].pid) /\ buffer[k].u # 0
    /\ \A j, k \in 1 .. Len(buffer) : j # k => buffer[j].pid # buffer[k].pid
    /\ region \in [Pids -> Nat] /\ \A p \in Pids : Own(region[p], p)

(* A flush holds the mutex from its first write to the region to its last.  *)
MutexOK ==
    /\ batch_mutex \in Threads \cup {Free}
    /\ \A t \in Threads : pc[t] = "put" <=> batch_mutex = t
    /\ \A t \in Threads : frame[t].i \in Nat
    /\ \A t \in Threads : IF pc[t] = "put" THEN 1 <= frame[t].i /\ frame[t].i <= Len(buffer) + 1
                          ELSE frame[t].i = 0

FrameOK(t) ==
    /\ frame[t] \in [op : use.ops \cup {"none"}, pid : Pids \cup {"none"}, u : Nat, i : Nat, floor : Nat]
    /\ Own(frame[t].u, frame[t].pid)
    /\ pc[t] \notin {"idle", "cleaned"} => frame[t].pid \in Pids
    /\ pc[t] \in {"batch", "retry", "direct"} => frame[t].op = "batch"
    /\ pc[t] = "store" => frame[t].op \in {"batch", "prefetch"}
    /\ pc[t] \in {"peek", "lookup", "hit"} => frame[t].op = "get"
    /\ pc[t] \in {"drop"} => frame[t].op = "invalidate"
    /\ pc[t] = "sweep" => frame[t].op = "clear"
    /\ pc[t] = "join" => frame[t].op = "cleanup"
    /\ pc[t] = "fetch" => frame[t].op = "prefetch"
    /\ pc[t] \in {"flush", "put"} => frame[t].op \in {"batch", "flush", "cleanup"}
    /\ t \notin use.callers => pc[t] = "idle"

FlusherFrames == [op : {"none"}, pid : {"none"}, u : {0}, i : Nat, floor : {0}]

ThreadsOK ==
    /\ pc \in [Threads -> Labels] /\ DOMAIN frame = Threads
    /\ pc[Flusher] \in FlusherLabels /\ frame[Flusher] \in FlusherFrames
    /\ \A t \in Callers : pc[t] \in CallerLabels /\ FrameOK(t)

CacheOK ==
    /\ cache \in [Buckets -> {Empty} \cup [pid : Pids, u : Nat, stamp : Nat, valid : BOOLEAN]]
    /\ \A b \in Buckets : cache[b].stamp <= now /\ Own(cache[b].u, cache[b].pid)
    /\ \A b \in Buckets : cache[b].valid => Hash[cache[b].pid] = b

(* Without a direct write, no record of the region is newer than a pending one. *)
SteadyOK ==
    Steady =>
        /\ g_batching_enabled /\ g_cache_enabled
        /\ \A t \in Callers : pc[t] \notin {"direct", "fetch"}
        /\ \A k \in 1 .. Len(buffer) : region[buffer[k].pid] <= buffer[k].u

PerfInv == FlagsOK /\ BufferOK /\ MutexOK /\ ThreadsOK /\ CacheOK /\ SteadyOK

(* What the buffer and the region have of the latest updates, under the     *)
(* conditions of LatestKept.                                                *)
Keeps == Steady /\ RoomForAll /\ (Alone \/ NeverFull)

KeptOK ==
    Keeps =>
        /\ \A k \in 1 .. Len(buffer) : buffer[k].u = Latest(buffer[k].pid)
        /\ \A p \in Pids : (\A k \in 1 .. Len(buffer) : buffer[k].pid # p) => region[p] = Latest(p)
        /\ \A t \in Threads : pc[t] = "put" =>
             \A k \in 1 .. Len(buffer) : k < frame[t].i => region[buffer[k].pid] = buffer[k].u
        /\ \A t \in Callers : pc[t] = "retry" => buffer = <<>>
        /\ NeverFull => \A t \in Callers : frame[t].op = "batch" => pc[t] \notin {"flush", "put", "retry"}
        /\ Alone => \A t \in Callers : pc[t] = "cleaned" => buffer = <<>>

(* What the cache has of the latest updates of a single caller. *)
FollowsOK ==
    Steady /\ Alone =>
        \A t \in Callers : t \in use.callers =>
            /\ \A b \in Buckets : cache[b].valid /\ ~(pc[t] = "store" /\ frame[t].pid = cache[b].pid) =>
                                      cache[b].u = Latest(cache[b].pid)
            /\ pc[t] = "store" => frame[t].u = Latest(frame[t].pid)
            /\ pc[t] \in {"peek", "lookup", "hit"} => frame[t].floor = Latest(frame[t].pid)
            /\ pc[t] = "hit" => frame[t].u = Latest(frame[t].pid)

OptimizerInv == PerfInv /\ KeptOK /\ FollowsOK

-----------------------------------------------------------------------------
(* First and last places in a sequence. *)
LEMMA Least ==
    ASSUME NEW T, T \subseteq Nat, T # {}
    PROVE  \E x \in T : \A y \in T : x <= y
<1>1. PICK R : R = OpToRel(<, Nat)
  OBVIOUS
<1>2. IsWellFoundedOn(R, Nat)
  BY <1>1, NatLessThanWellFounded, Zenon
<1>3. R = {n \in Nat \X Nat : n[1] < n[2]}
  BY <1>1, Zenon DEF OpToRel
<1>4. \A x, y \in Nat : x < y => <<x, y>> \in R
  BY <1>3
<1>5. PICK x \in T : \A y \in T : ~(<<y, x>> \in R)
  BY <1>2, WFMin
<1>6. \A y \in T : x \in Nat /\ y \in Nat /\ ~(y < x)
  BY <1>4, <1>5
<1>7. QED
  BY <1>6

LEMMA Greatest ==
    ASSUME NEW n \in Nat, NEW T, T \subseteq 1 .. n, T # {}
    PROVE  \E x \in T : \A y \in T : x >= y
<1> DEFINE D == {n - x : x \in T}
<1>0. \A x \in T : x \in Nat /\ 1 <= x /\ x <= n /\ n - x \in Nat
  <2>1. \A x \in T : x \in 1 .. n
    OBVIOUS
  <2>2. QED
    BY <2>1
<1>1. D \subseteq Nat /\ D # {}
  BY <1>0
<1>2. PICK d \in D : \A e \in D : d <= e
  <2> HIDE DEF D
  <2> QED BY <1>1, Least
<1>3. PICK x \in T : d = n - x
  BY <1>2
<1>4. \A y \in T : n - y \in D
  OBVIOUS
<1>5. \A y \in T : n - x <= n - y
  <2> HIDE DEF D
  <2> QED BY <1>2, <1>3, <1>4
<1>6. QED
  BY <1>0, <1>5

(* The last place of p in a sequence, as SelectLastInSeq finds it. *)
Places(s, p)    == {i \in 1 .. Len(s) : s[i] = p}
LastPlace(s, p) == IF Places(s, p) # {} THEN Max(Places(s, p)) ELSE 0

LEMMA LastPlaceIs ==
    ASSUME NEW s \in Seq(Pids), NEW p
    PROVE  /\ LastPlace(s, p) \in 0 .. Len(s)
           /\ LastPlace(s, p) = 0 => \A i \in 1 .. Len(s) : s[i] # p
           /\ LastPlace(s, p) # 0 => /\ s[LastPlace(s, p)] = p
                                     /\ \A i \in 1 .. Len(s) : s[i] = p => i <= LastPlace(s, p)
<1>0. Len(s) \in Nat /\ Places(s, p) \subseteq 1 .. Len(s)
  BY DEF Places
<1>1. CASE Places(s, p) = {}
  BY <1>0, <1>1 DEF LastPlace, Places
<1>2. CASE Places(s, p) # {}
  <2>1. \E x \in Places(s, p) : \A y \in Places(s, p) : x >= y
    BY <1>0, <1>2, Greatest
  <2>2. LastPlace(s, p) \in Places(s, p) /\ \A y \in Places(s, p) : LastPlace(s, p) >= y
    BY <1>2, <2>1 DEF Max, LastPlace
  <2>3. QED
    BY <1>0, <1>2, <2>2 DEF Places
<1>3. QED
  BY <1>1, <1>2

LEMMA LatestIs ==
    ASSUME accepted \in Seq(Pids), NEW p
    PROVE  /\ Latest(p) \in 0 .. Len(accepted)
           /\ Latest(p) = 0 => \A i \in 1 .. Len(accepted) : accepted[i] # p
           /\ Latest(p) # 0 => /\ accepted[Latest(p)] = p
                               /\ \A i \in 1 .. Len(accepted) : accepted[i] = p => i <= Latest(p)
<1>1. Latest(p) = LastPlace(accepted, p)
  BY DEF Latest, SelectLastInSeq, LastPlace, Places
<1>2. QED
  BY <1>1, LastPlaceIs

LEMMA LatestIsNext ==
    ASSUME accepted' \in Seq(Pids), NEW p
    PROVE  /\ Latest(p)' \in 0 .. Len(accepted')
           /\ Latest(p)' = 0 => \A i \in 1 .. Len(accepted') : accepted'[i] # p
           /\ Latest(p)' # 0 => /\ accepted'[Latest(p)'] = p
                                /\ \A i \in 1 .. Len(accepted') : accepted'[i] = p => i <= Latest(p)'
<1>1. Latest(p)' = LastPlace(accepted', p)
  BY DEF Latest, SelectLastInSeq, LastPlace, Places
<1>2. QED
  BY <1>1, LastPlaceIs

LEMMA LatestAppend ==
    ASSUME accepted \in Seq(Pids), NEW q \in Pids, accepted' = Append(accepted, q)
    PROVE  /\ accepted' \in Seq(Pids) /\ Len(accepted') = Len(accepted) + 1
           /\ Latest(q)' = Len(accepted) + 1
           /\ \A p \in Pids \ {q} : Latest(p)' = Latest(p)
<1>1. /\ accepted' \in Seq(Pids) /\ Len(accepted') = Len(accepted) + 1 /\ Len(accepted) \in Nat
      /\ accepted'[Len(accepted) + 1] = q
      /\ \A i \in 1 .. Len(accepted) : accepted'[i] = accepted[i]
  OBVIOUS
<1>2. Latest(q)' = Len(accepted) + 1
  <2>1. /\ Latest(q)' \in 0 .. Len(accepted) + 1 /\ Latest(q)' # 0
        /\ \A i \in 1 .. Len(accepted') : accepted'[i] = q => i <= Latest(q)'
    BY <1>1, LatestIsNext
  <2>2. QED
    BY <1>1, <2>1
<1>3. ASSUME NEW p \in Pids \ {q} PROVE Latest(p)' = Latest(p)
  <2>1. /\ Latest(p)' \in 0 .. Len(accepted) + 1
        /\ Latest(p)' = 0 => \A i \in 1 .. Len(accepted) : accepted[i] # p
        /\ Latest(p)' # 0 => /\ accepted'[Latest(p)'] = p
                             /\ \A i \in 1 .. Len(accepted) : accepted[i] = p => i <= Latest(p)'
    BY <1>1, LatestIsNext
  <2>2. Latest(p)' # 0 => Latest(p)' \in 1 .. Len(accepted) /\ accepted[Latest(p)'] = p
    BY <1>1, <1>3, <2>1
  <2>3. /\ Latest(p) \in 0 .. Len(accepted)
        /\ Latest(p) = 0 => \A i \in 1 .. Len(accepted) : accepted[i] # p
        /\ Latest(p) # 0 => /\ accepted[Latest(p)] = p
                            /\ \A i \in 1 .. Len(accepted) : accepted[i] = p => i <= Latest(p)
    BY LatestIs
  <2>4. QED
    BY <1>1, <2>1, <2>2, <2>3
<1>4. QED
  BY <1>1, <1>2, <1>3

LEMMA LatestSame == ASSUME accepted' = accepted, NEW p PROVE Latest(p)' = Latest(p)
  BY DEF Latest, SelectLastInSeq

LEMMA FoundIs ==
    ASSUME BufferOK, NEW p
    PROVE  /\ Found(p) \in 0 .. Len(buffer)
           /\ Found(p) = 0 => \A k \in 1 .. Len(buffer) : buffer[k].pid # p
           /\ Found(p) # 0 => buffer[Found(p)].pid = p
<1> DEFINE I == {k \in 1 .. Len(buffer) : buffer[k].pid = p}
<1>0. Len(buffer) \in Nat
  BY DEF BufferOK
<1>1. Found(p) = IF I # {} THEN Min(I) ELSE 0
  BY DEF Found, SelectInSeq
<1>2. CASE I = {}
  BY <1>0, <1>1, <1>2
<1>3. CASE I # {}
  <2>1. \E x \in I : \A y \in I : x <= y
    <3>1. I \subseteq Nat
      BY <1>0
    <3>2. QED
      BY <1>3, <3>1, Least
  <2>2. Min(I) \in I
    <3> HIDE DEF I
    <3> QED BY <2>1 DEF Min
  <2>3. QED
    BY <1>0, <1>1, <1>3, <2>2
<1>4. QED
  BY <1>2, <1>3

-----------------------------------------------------------------------------
(* A step moves no thread but t. *)
Moves(t) ==
    /\ \A s \in Threads \ {t} : pc'[s] = pc[s] /\ frame'[s] = frame[s]
    /\ pc' \in [Threads -> Labels] /\ DOMAIN frame' = Threads

(* Updates are accepted one at a time. *)
Grows == accepted' = accepted \/ \E q \in Pids : accepted' = Append(accepted, q)

LEMMA Members == Flusher \in Threads /\ Flusher \notin Callers /\ \A t \in Callers : t \in Threads /\ t # Flusher
  BY PerfAssumption DEF Threads

LEMMA UseType ==
    ASSUME use \in Uses
    PROVE  use.callers \subseteq Callers /\ Capacity \in Nat /\ Capacity > 0
  BY PerfAssumption DEF Capacity

LEMMA SameConditions ==
    ASSUME use' = use
    PROVE  /\ Steady' <=> Steady
           /\ Alone' <=> Alone
           /\ NeverFull' <=> NeverFull
           /\ Keeps' <=> Keeps
           /\ Capacity' = Capacity
  BY DEF Steady, Alone, NeverFull, Keeps, RoomForAll, Ops, Capacity

LEMMA OwnStays ==
    ASSUME accepted \in Seq(Pids), Grows, NEW u, NEW p, Own(u, p)
    PROVE  Own(u, p)'
<1>1. CASE accepted' = accepted
  BY <1>1 DEF Own, Updates
<1>2. ASSUME NEW q \in Pids, accepted' = Append(accepted, q) PROVE Own(u, p)'
  <2>1. /\ Len(accepted') = Len(accepted) + 1 /\ Len(accepted) \in Nat
        /\ \A i \in 1 .. Len(accepted) : accepted'[i] = accepted[i]
    BY <1>2
  <2>2. QED
    BY <2>1 DEF Own, Updates
<1>3. QED
  BY <1>1, <1>2 DEF Grows

LEMMA GotoMoves ==
    ASSUME ThreadsOK, NEW t \in Threads, NEW l \in Labels, Goto(t, l), NEW f, frame' = [frame EXCEPT ![t] = f]
    PROVE  Moves(t) /\ pc'[t] = l /\ frame'[t] = f
  BY DEF ThreadsOK, Goto, Moves

LEMMA GotoOnly ==
    ASSUME ThreadsOK, NEW t \in Threads, NEW l \in Labels, Goto(t, l), frame' = frame
    PROVE  Moves(t) /\ pc'[t] = l /\ frame'[t] = frame[t]
  BY DEF ThreadsOK, Goto, Moves

LEMMA CallerThread ==
    ASSUME PerfInv, use' = use, Grows, NEW t \in Callers, Moves(t), pc'[t] \in CallerLabels, FrameOK(t)'
    PROVE  ThreadsOK'
<1>a. ThreadsOK /\ accepted \in Seq(Pids)
  BY DEF PerfInv, BufferOK
<1>1. ASSUME NEW s \in Callers \ {t} PROVE pc'[s] \in CallerLabels /\ FrameOK(s)'
  <2>1. s \in Threads /\ s # t /\ pc'[s] = pc[s] /\ frame'[s] = frame[s] /\ FrameOK(s) /\ pc[s] \in CallerLabels
    BY <1>a, Members DEF Moves, ThreadsOK
  <2>2. Own(frame[s].u, frame[s].pid)
    BY <2>1 DEF FrameOK
  <2>3. PICK u, p : u = frame[s].u /\ p = frame[s].pid
    OBVIOUS
  <2>4. Own(u, p)'
    BY <1>a, <2>2, <2>3, OwnStays
  <2>5. Own(frame[s].u, frame[s].pid)'
    BY <2>1, <2>3, <2>4 DEF Own
  <2>6. QED
    BY <2>1, <2>5 DEF FrameOK
<1>2. pc'[Flusher] = pc[Flusher] /\ frame'[Flusher] = frame[Flusher]
  BY Members DEF Moves
<1>3. QED
  BY <1>a, <1>1, <1>2 DEF ThreadsOK, Moves

LEMMA FlusherThread ==
    ASSUME PerfInv, use' = use, UNCHANGED accepted, Moves(Flusher), pc'[Flusher] \in FlusherLabels,
           frame'[Flusher] \in FlusherFrames
    PROVE  ThreadsOK'
<1>a. ThreadsOK
  BY DEF PerfInv
<1>1. ASSUME NEW s \in Callers PROVE pc'[s] \in CallerLabels /\ FrameOK(s)'
  <2>1. s \in Threads /\ s # Flusher /\ pc'[s] = pc[s] /\ frame'[s] = frame[s] /\ FrameOK(s) /\ pc[s] \in CallerLabels
    BY <1>a, Members DEF Moves, ThreadsOK
  <2>2. QED
    BY <2>1 DEF FrameOK, Own, Updates
<1>2. QED
  BY <1>a, <1>1 DEF ThreadsOK, Moves

LEMMA QuietMutex ==
    ASSUME MutexOK, NEW t \in Threads, Moves(t), UNCHANGED <<buffer, batch_mutex>>,
           pc[t] # "put", pc'[t] # "put", frame'[t].i = 0
    PROVE  MutexOK'
<1>1. \A s \in Threads : pc'[s] = "put" <=> pc[s] = "put"
  BY DEF Moves
<1>2. \A s \in Threads \ {t} : frame'[s] = frame[s] /\ pc'[s] = pc[s]
  BY DEF Moves
<1>3. QED
  BY <1>1, <1>2 DEF MutexOK

LEMMA QuietBuffer ==
    ASSUME BufferOK, use' = use, UNCHANGED <<buffer, region, accepted>>
    PROVE  BufferOK'
  BY DEF BufferOK, Own, Updates, Capacity

LEMMA QuietCache ==
    ASSUME CacheOK, UNCHANGED <<cache, accepted>>, now \in Nat, now' \in Nat, now <= now'
    PROVE  CacheOK'
<1>1. \A b \in Buckets : cache[b].stamp \in Nat
  BY DEF CacheOK, Empty
<1>2. QED
  BY <1>1 DEF CacheOK, Own, Updates

LEMMA QuietSteady ==
    ASSUME SteadyOK, use' = use, UNCHANGED <<buffer, region>>,
           Steady => UNCHANGED <<g_batching_enabled, g_cache_enabled>>,
           NEW t \in Threads, Moves(t), Steady => pc'[t] \notin {"direct", "fetch"}
    PROVE  SteadyOK'
<1>1. Steady => \A s \in Callers : pc'[s] \notin {"direct", "fetch"}
  BY Members DEF SteadyOK, Moves
<1>2. QED
  BY <1>1, SameConditions DEF SteadyOK

LEMMA QuietKept ==
    ASSUME KeptOK, use' = use, UNCHANGED <<buffer, region, accepted>>, NEW t \in Threads, Moves(t),
           Keeps /\ pc'[t] = "put" =>
               \A k \in 1 .. Len(buffer) : k < frame'[t].i => region[buffer[k].pid] = buffer[k].u,
           Keeps /\ pc'[t] = "retry" => buffer = <<>> /\ ~NeverFull,
           Keeps /\ NeverFull /\ t \in Callers /\ pc'[t] \in {"flush", "put"} /\ frame'[t].op = "batch" =>
               pc[t] \in {"flush", "put"} /\ frame[t].op = "batch",
           pc'[t] = "cleaned" => buffer = <<>>
    PROVE  KeptOK'
<1> SUFFICES ASSUME Keeps
             PROVE  KeptOK'
  BY SameConditions DEF KeptOK
<1>1. \A p : Latest(p)' = Latest(p)
  BY LatestSame
<1>2. \A s \in Threads \ {t} : pc'[s] = pc[s] /\ frame'[s] = frame[s]
  BY DEF Moves
<1>3. \A k \in 1 .. Len(buffer) : buffer'[k].u = Latest(buffer[k].pid)'
  BY <1>1 DEF KeptOK
<1>4. \A p \in Pids : (\A k \in 1 .. Len(buffer) : buffer[k].pid # p) => region'[p] = Latest(p)'
  BY <1>1 DEF KeptOK
<1>5. \A s \in Threads : pc'[s] = "put" =>
         \A k \in 1 .. Len(buffer) : k < frame'[s].i => region[buffer[k].pid] = buffer[k].u
  BY <1>2 DEF KeptOK
<1>6. \A s \in Callers : pc'[s] = "retry" => buffer = <<>>
  BY <1>2, Members DEF KeptOK
<1>7. NeverFull => \A s \in Callers : frame'[s].op = "batch" => pc'[s] \notin {"flush", "put", "retry"}
  BY <1>2, Members DEF KeptOK
<1>8. Alone => \A s \in Callers : pc'[s] = "cleaned" => buffer = <<>>
  BY <1>2, Members DEF KeptOK
<1>9. QED
  BY <1>3, <1>4, <1>5, <1>6, <1>7, <1>8, SameConditions DEF KeptOK

(* The cache at most loses entries, and no thread comes to "store" or to a lookup. *)
LEMMA QuietFollows ==
    ASSUME FollowsOK, use' = use, UNCHANGED accepted, NEW t \in Threads, Moves(t),
           \A b \in Buckets : cache'[b].valid => /\ cache[b].valid
                                                 /\ cache'[b].u = cache[b].u /\ cache'[b].pid = cache[b].pid,
           pc[t] # "store",
           Steady /\ Alone /\ t \in use.callers =>
               /\ pc'[t] # "store"
               /\ pc'[t] \in {"peek", "lookup", "hit"} => frame'[t].floor = Latest(frame'[t].pid)
               /\ pc'[t] = "hit" => frame'[t].u = Latest(frame'[t].pid)
    PROVE  FollowsOK'
<1> SUFFICES ASSUME Steady, Alone, NEW s \in Callers, s \in use.callers
             PROVE  /\ \A b \in Buckets :
                          cache'[b].valid /\ ~(pc'[s] = "store" /\ frame'[s].pid = cache'[b].pid) =>
                              cache'[b].u = Latest(cache'[b].pid)
                    /\ pc'[s] = "store" => frame'[s].u = Latest(frame'[s].pid)
                    /\ pc'[s] \in {"peek", "lookup", "hit"} => frame'[s].floor = Latest(frame'[s].pid)
                    /\ pc'[s] = "hit" => frame'[s].u = Latest(frame'[s].pid)
  <2>1. \A p : Latest(p)' = Latest(p)
    BY LatestSame
  <2> QED BY <2>1, SameConditions DEF FollowsOK
<1>1. /\ \A b \in Buckets : cache[b].valid /\ ~(pc[s] = "store" /\ frame[s].pid = cache[b].pid) =>
                                cache[b].u = Latest(cache[b].pid)
      /\ pc[s] = "store" => frame[s].u = Latest(frame[s].pid)
      /\ pc[s] \in {"peek", "lookup", "hit"} => frame[s].floor = Latest(frame[s].pid)
      /\ pc[s] = "hit" => frame[s].u = Latest(frame[s].pid)
  BY DEF FollowsOK
<1>2. CASE s # t
  <2>1. pc'[s] = pc[s] /\ frame'[s] = frame[s]
    BY <1>2, Members DEF Moves
  <2>2. QED
    BY <1>1, <2>1
<1>3. CASE s = t
  BY <1>1, <1>3
<1>4. QED
  BY <1>2, <1>3

-----------------------------------------------------------------------------
(* Steps that leave buffer, region and cache alone. *)
LEMMA CallerDrop ==
    ASSUME OptimizerInv, use' = use, NEW t \in Callers, Moves(t), UNCHANGED <<bufferVars, ttl, now>>, CacheOK',
           \A b \in Buckets : cache'[b].valid => /\ cache[b].valid
                                                 /\ cache'[b].u = cache[b].u /\ cache'[b].pid = cache[b].pid,
           g_running' \in BOOLEAN, UNCHANGED <<g_batching_enabled, g_cache_enabled>>,
           pc[t] \notin {"put", "store"}, pc'[t] \in CallerLabels \ {"put"}, frame'[t].i = 0, FrameOK(t)',
           Steady => pc'[t] \notin {"direct", "fetch", "store"},
           Keeps /\ pc'[t] = "retry" => buffer = <<>> /\ ~NeverFull,
           Keeps /\ NeverFull /\ pc'[t] = "flush" /\ frame'[t].op = "batch" =>
               pc[t] = "flush" /\ frame[t].op = "batch",
           pc'[t] = "cleaned" => buffer = <<>>,
           Steady /\ Alone =>
               /\ pc'[t] \in {"peek", "lookup", "hit"} => frame'[t].floor = Latest(frame'[t].pid)
               /\ pc'[t] = "hit" => frame'[t].u = Latest(frame'[t].pid)
    PROVE  OptimizerInv'
<1>a. /\ FlagsOK /\ BufferOK /\ MutexOK /\ ThreadsOK /\ CacheOK /\ SteadyOK /\ KeptOK /\ FollowsOK /\ PerfInv
      /\ t \in Threads
  BY Members DEF OptimizerInv, PerfInv
<1>b. UNCHANGED <<buffer, batch_mutex, region, accepted>>
  BY DEF bufferVars
<1>1. FlagsOK'
  <2>1. pc'[Flusher] = pc[Flusher]
    BY Members DEF Moves
  <2>2. QED
    BY <1>a, <1>b, <2>1 DEF FlagsOK
<1>2. ThreadsOK'
  BY <1>a, <1>b, CallerThread DEF Grows
<1>3. BufferOK' /\ MutexOK'
  BY <1>a, <1>b, QuietBuffer, QuietMutex
<1>4. SteadyOK'
  BY <1>a, <1>b, QuietSteady
<1>5. KeptOK'
  BY <1>a, <1>b, QuietKept
<1>6. FollowsOK'
  BY <1>a, <1>b, QuietFollows
<1>7. QED
  BY <1>1, <1>2, <1>3, <1>4, <1>5, <1>6 DEF OptimizerInv, PerfInv

LEMMA CallerMove ==
    ASSUME OptimizerInv, use' = use, NEW t \in Callers, Moves(t), UNCHANGED <<bufferVars, cacheVars, now>>,
           g_running' \in BOOLEAN, UNCHANGED <<g_batching_enabled, g_cache_enabled>>,
           pc[t] \notin {"put", "store"}, pc'[t] \in CallerLabels \ {"put"}, frame'[t].i = 0, FrameOK(t)',
           Steady => pc'[t] \notin {"direct", "fetch", "store"},
           Keeps /\ pc'[t] = "retry" => buffer = <<>> /\ ~NeverFull,
           Keeps /\ NeverFull /\ pc'[t] = "flush" /\ frame'[t].op = "batch" =>
               pc[t] = "flush" /\ frame[t].op = "batch",
           pc'[t] = "cleaned" => buffer = <<>>,
           Steady /\ Alone =>
               /\ pc'[t] \in {"peek", "lookup", "hit"} => frame'[t].floor = Latest(frame'[t].pid)
               /\ pc'[t] = "hit" => frame'[t].u = Latest(frame'[t].pid)
    PROVE  OptimizerInv'
<1>1. now \in Nat /\ now' \in Nat /\ now <= now' /\ UNCHANGED <<cache, accepted, ttl>> /\ CacheOK
  BY DEF OptimizerInv, PerfInv, FlagsOK, bufferVars, cacheVars
<1>2. CacheOK'
  BY <1>1, QuietCache
<1>3. QED
  BY <1>1, <1>2, CallerDrop

LEMMA FlusherMove ==
    ASSUME OptimizerInv, use' = use, Moves(Flusher), UNCHANGED <<bufferVars, cache, flagVars, now>>,
           pc[Flusher] # "put", pc'[Flusher] \in FlusherLabels \ {"put"},
           frame'[Flusher].i = 0, frame'[Flusher] \in FlusherFrames,
           ttl' \in 0 .. (MaxTtl + TtlStep), pc'[Flusher] = "lower" => ttl' >= TtlStep,
           pc'[Flusher] = "raise" => ttl' <= MaxTtl
    PROVE  OptimizerInv'
<1>a. /\ FlagsOK /\ BufferOK /\ MutexOK /\ ThreadsOK /\ CacheOK /\ SteadyOK /\ KeptOK /\ FollowsOK /\ PerfInv
      /\ Flusher \in Threads /\ use.callers \subseteq Callers
  BY Members, UseType DEF OptimizerInv, PerfInv, FlagsOK
<1>b. UNCHANGED <<buffer, batch_mutex, region, accepted, g_running, g_batching_enabled, g_cache_enabled>>
  BY DEF bufferVars, flagVars
<1>1. FlagsOK'
  BY <1>a, <1>b DEF FlagsOK
<1>2. ThreadsOK'
  BY <1>a, <1>b, FlusherThread
<1>3. BufferOK' /\ MutexOK'
  BY <1>a, <1>b, QuietBuffer, QuietMutex
<1>4. CacheOK'
  <2>1. now \in Nat /\ now' \in Nat /\ now <= now'
    BY <1>a DEF FlagsOK
  <2>2. QED
    BY <1>a, <1>b, <2>1, QuietCache
<1>5. SteadyOK'
  BY <1>a, <1>b, QuietSteady DEF FlusherLabels
<1>6. KeptOK'
  <2>1. pc'[Flusher] \notin {"retry", "cleaned", "put"}
    BY DEF FlusherLabels
  <2>2. QED
    BY <1>a, <1>b, <2>1, Members, QuietKept
<1>7. FollowsOK'
  <2>1. pc[Flusher] # "store" /\ Flusher \notin use.callers
    BY <1>a, Members DEF ThreadsOK, FlusherLabels
  <2>2. QED
    BY <1>a, <1>b, <2>1, QuietFollows
<1>8. QED
  BY <1>1, <1>2, <1>3, <1>4, <1>5, <1>6, <1>7 DEF OptimizerInv, PerfInv

LEMMA SettingStep ==
    ASSUME OptimizerInv, use' = use, UNCHANGED <<bufferVars, cache, pc, frame>>,
           g_running' \in BOOLEAN, g_batching_enabled' \in BOOLEAN, g_cache_enabled' \in BOOLEAN,
           Steady => UNCHANGED <<g_batching_enabled, g_cache_enabled>>, now' \in Nat, now <= now',
           ttl' = ttl \/ ttl' \in MinTtl .. MaxTtl
    PROVE  OptimizerInv'
<1>a. /\ FlagsOK /\ BufferOK /\ MutexOK /\ ThreadsOK /\ CacheOK /\ SteadyOK /\ KeptOK /\ FollowsOK /\ PerfInv
  BY DEF OptimizerInv, PerfInv
<1>b. UNCHANGED <<buffer, batch_mutex, region, accepted>>
  BY DEF bufferVars
<1>c. \A p : Latest(p)' = Latest(p)
  BY <1>b, LatestSame
<1>1. FlagsOK'
  <2>1. MinTtl \in Nat /\ MaxTtl \in Nat /\ TtlStep \in Nat /\ TtlStep <= MinTtl
    BY PerfAssumption
  <2>2. QED
    BY <1>a, <2>1 DEF FlagsOK
<1>2. ThreadsOK'
  BY <1>a, <1>b DEF ThreadsOK, FrameOK, Own, Updates
<1>3. BufferOK' /\ MutexOK'
  BY <1>a, <1>b, QuietBuffer DEF MutexOK
<1>4. CacheOK'
  BY <1>a, <1>b, QuietCache DEF FlagsOK
<1>5. SteadyOK'
  BY <1>a, <1>b, SameConditions DEF SteadyOK
<1>6. KeptOK'
  BY <1>a, <1>b, <1>c, SameConditions DEF KeptOK
<1>7. FollowsOK'
  BY <1>a, <1>b, <1>c, SameConditions DEF FollowsOK
<1>8. QED
  BY <1>1, <1>2, <1>3, <1>4, <1>5, <1>6, <1>7 DEF OptimizerInv, PerfInv

-----------------------------------------------------------------------------
(* Entering a call. *)
Entries == {<<"batch", "batch">>, <<"batch", "direct">>, <<"get", "peek">>, <<"prefetch", "fetch">>,
            <<"invalidate", "drop">>, <<"clear", "sweep">>, <<"flush", "flush">>, <<"cleanup", "join">>}

LEMMA EnterStep ==
    ASSUME OptimizerInv, use' = use, NEW t \in Callers, NEW p \in Pids, NEW o, NEW l, <<o, l>> \in Entries,
           Steady => l # "direct", Enter(t, o, p, l),
           g_running' \in BOOLEAN, UNCHANGED <<g_batching_enabled, g_cache_enabled>>
    PROVE  OptimizerInv'
<1>e. \/ o = "batch" /\ l \in {"batch", "direct"}
      \/ o = "get" /\ l = "peek"
      \/ o = "prefetch" /\ l = "fetch"
      \/ o = "invalidate" /\ l = "drop"
      \/ o = "clear" /\ l = "sweep"
      \/ o = "flush" /\ l = "flush"
      \/ o = "cleanup" /\ l = "join"
  BY DEF Entries
<1>a. /\ ThreadsOK /\ t \in Threads /\ accepted \in Seq(Pids) /\ use \in Uses
      /\ pc[t] = "idle" /\ o \in use.ops /\ t \in use.callers /\ Goto(t, l)
      /\ UNCHANGED <<bufferVars, cacheVars, now>>
      /\ frame' = [frame EXCEPT ![t] = [op |-> o, pid |-> p, u |-> 0, i |-> 0, floor |-> Latest(p)]]
  BY Members DEF OptimizerInv, PerfInv, BufferOK, Enter, Ops, FlagsOK
<1>1. l \in Labels /\ l \in CallerLabels \ {"put", "retry", "cleaned", "store", "hit", "lookup"}
  BY <1>e DEF Labels, CallerLabels
<1>2. PICK f : f = [op |-> o, pid |-> p, u |-> 0, i |-> 0, floor |-> Latest(p)]
  OBVIOUS
<1>3. Moves(t) /\ pc'[t] = l /\ frame'[t] = f
  BY <1>a, <1>1, <1>2, GotoMoves
<1>4. f \in [op : use.ops \cup {"none"}, pid : Pids \cup {"none"}, u : Nat, i : Nat, floor : Nat]
  BY <1>a, <1>2, LatestIs
<1>5. FrameOK(t)'
  BY <1>a, <1>e, <1>2, <1>3, <1>4 DEF FrameOK, Own
<1>6. Steady => l \notin {"direct", "fetch", "store"}
  BY <1>a, <1>e DEF Steady, Ops
<1>7. QED
  BY <1>a, <1>e, <1>1, <1>2, <1>3, <1>5, <1>6, CallerMove

LEMMA CallSteps ==
    ASSUME OptimizerInv, use' = use, NEW t \in Callers, NEW p \in Pids, Call(t, p)
    PROVE  OptimizerInv'
<1>a. g_running \in BOOLEAN /\ (Steady => g_batching_enabled)
  BY DEF OptimizerInv, PerfInv, FlagsOK, SteadyOK
<1>1. PICK o, l : /\ <<o, l>> \in Entries /\ (Steady => l # "direct") /\ Enter(t, o, p, l)
                  /\ g_running' \in BOOLEAN /\ UNCHANGED <<g_batching_enabled, g_cache_enabled>>
  <2>1. CASE BatchUpdate(t, p)
    <3>1. PICK l : l = IF g_batching_enabled THEN "batch" ELSE "direct"
      OBVIOUS
    <3>2. <<"batch", l>> \in Entries /\ (Steady => l # "direct")
      BY <1>a, <3>1 DEF Entries
    <3>3. /\ Enter(t, "batch", p, l) /\ g_running' \in BOOLEAN
          /\ UNCHANGED <<g_batching_enabled, g_cache_enabled>>
      BY <1>a, <2>1, <3>1 DEF BatchUpdate, flagVars
    <3>4. QED
      BY <3>2, <3>3
  <2>2. CASE GetCached(t, p)
    <3>1. <<"get", "peek">> \in Entries
      BY DEF Entries
    <3>2. /\ Enter(t, "get", p, "peek") /\ g_running' \in BOOLEAN
          /\ UNCHANGED <<g_batching_enabled, g_cache_enabled>>
      BY <1>a, <2>2 DEF GetCached, flagVars
    <3>3. QED
      BY <3>1, <3>2
  <2>3. CASE Prefetch(t, p)
    <3>1. <<"prefetch", "fetch">> \in Entries
      BY DEF Entries
    <3>2. /\ Enter(t, "prefetch", p, "fetch") /\ g_running' \in BOOLEAN
          /\ UNCHANGED <<g_batching_enabled, g_cache_enabled>>
      BY <1>a, <2>3 DEF Prefetch, flagVars
    <3>3. QED
      BY <3>1, <3>2
  <2>4. CASE Invalidate(t, p)
    <3>1. <<"invalidate", "drop">> \in Entries
      BY DEF Entries
    <3>2. /\ Enter(t, "invalidate", p, "drop") /\ g_running' \in BOOLEAN
          /\ UNCHANGED <<g_batching_enabled, g_cache_enabled>>
      BY <1>a, <2>4 DEF Invalidate, flagVars
    <3>3. QED
      BY <3>1, <3>2
  <2>5. CASE ClearCache(t, p)
    <3>1. <<"clear", "sweep">> \in Entries
      BY DEF Entries
    <3>2. /\ Enter(t, "clear", p, "sweep") /\ g_running' \in BOOLEAN
          /\ UNCHANGED <<g_batching_enabled, g_cache_enabled>>
      BY <1>a, <2>5 DEF ClearCache, flagVars
    <3>3. QED
      BY <3>1, <3>2
  <2>6. CASE FlushNow(t, p)
    <3>1. <<"flush", "flush">> \in Entries
      BY DEF Entries
    <3>2. /\ Enter(t, "flush", p, "flush") /\ g_running' \in BOOLEAN
          /\ UNCHANGED <<g_batching_enabled, g_cache_enabled>>
      BY <1>a, <2>6 DEF FlushNow, flagVars
    <3>3. QED
      BY <3>1, <3>2
  <2>7. CASE Cleanup(t, p)
    <3>1. <<"cleanup", "join">> \in Entries
      BY DEF Entries
    <3>2. /\ Enter(t, "cleanup", p, "join") /\ g_running' \in BOOLEAN
          /\ UNCHANGED <<g_batching_enabled, g_cache_enabled>>
      BY <1>a, <2>7 DEF Cleanup, flagVars
    <3>3. QED
      BY <3>1, <3>2
  <2>8. QED
    BY <2>1, <2>2, <2>3, <2>4, <2>5, <2>6, <2>7 DEF Call
<1>2. QED
  BY <1>1, EnterStep

(* A call has returned. *)
LEMMA ReturnMoves ==
    ASSUME ThreadsOK, NEW t \in Callers, Return(t), use' = use
    PROVE  Moves(t) /\ pc'[t] = "idle" /\ frame'[t] = NoFrame /\ frame'[t].i = 0 /\ FrameOK(t)'
<1>1. Moves(t) /\ pc'[t] = "idle" /\ frame'[t] = NoFrame
  BY Members DEF ThreadsOK, Return, Goto, Moves, Labels
<1>2. QED
  BY <1>1 DEF NoFrame, FrameOK, Own

-----------------------------------------------------------------------------
(* The cache. *)
LEMMA BucketIn == ASSUME NEW t, frame[t].pid \in Pids PROVE Bucket(t) \in Buckets
  BY PerfAssumption DEF Bucket

(* The thread that runs is one of the use's, and under Alone the only one. *)
LEMMA Facts ==
    ASSUME OptimizerInv, NEW t \in Callers
    PROVE  /\ FlagsOK /\ BufferOK /\ MutexOK /\ ThreadsOK /\ CacheOK /\ SteadyOK /\ KeptOK /\ FollowsOK
           /\ t \in Threads /\ FrameOK(t) /\ pc[t] \in CallerLabels
           /\ pc[t] # "idle" => t \in use.callers
           /\ pc[t] # "put" => frame[t].i = 0
           /\ pc[t] \notin {"idle", "cleaned"} => frame[t].pid \in Pids
  BY Members DEF OptimizerInv, PerfInv, ThreadsOK, FrameOK, MutexOK

(* Return, with the cache as it is. *)
LEMMA ReturnStep ==
    ASSUME OptimizerInv, use' = use, NEW t \in Callers, Return(t), pc[t] \notin {"put", "store"},
           UNCHANGED <<bufferVars, cacheVars, flagVars, now>>
    PROVE  OptimizerInv'
<1>1. Moves(t) /\ pc'[t] = "idle" /\ frame'[t].i = 0 /\ FrameOK(t)'
  BY Facts, ReturnMoves
<1>2. UNCHANGED <<g_running, g_batching_enabled, g_cache_enabled>> /\ g_running \in BOOLEAN
  BY Facts DEF flagVars, FlagsOK
<1>3. QED
  BY <1>1, <1>2, CallerMove DEF CallerLabels

LEMMA PeekStep ==
    ASSUME OptimizerInv, use' = use, NEW t \in Callers, Peek(t)
    PROVE  OptimizerInv'
<1>a. pc[t] = "peek" /\ UNCHANGED <<bufferVars, cacheVars, flagVars, now>> /\ ThreadsOK /\ FrameOK(t) /\ FollowsOK
      /\ t \in Threads /\ frame[t].i = 0 /\ t \in use.callers
  BY Facts DEF Peek
<1>1. CASE Return(t)
  BY <1>a, <1>1, ReturnStep
<1>2. CASE Goto(t, "lookup") /\ UNCHANGED frame
  <2>1. Moves(t) /\ pc'[t] = "lookup" /\ frame'[t] = frame[t]
    BY <1>a, <1>2, GotoOnly DEF Labels
  <2>2. UNCHANGED <<accepted, g_running, g_batching_enabled, g_cache_enabled>> /\ g_running \in BOOLEAN
    BY <1>a, Facts DEF flagVars, bufferVars, FlagsOK
  <2>3. FrameOK(t)'
    BY <1>a, <2>1, <2>2 DEF FrameOK, Own, Updates
  <2>4. Steady /\ Alone => frame'[t].floor = Latest(frame'[t].pid)
    BY <1>a, <2>1 DEF FollowsOK
  <2>5. QED
    BY <1>a, <2>1, <2>2, <2>3, <2>4, CallerMove DEF CallerLabels
<1>3. QED
  BY <1>1, <1>2 DEF Peek

LEMMA HitStep ==
    ASSUME OptimizerInv, use' = use, NEW t \in Callers, pc[t] = "lookup", IsFor(cache[Bucket(t)], frame[t].pid),
           Goto(t, "hit"), frame' = [frame EXCEPT ![t].u = cache[Bucket(t)].u],
           UNCHANGED <<bufferVars, cacheVars, flagVars, now>>
    PROVE  OptimizerInv'
<1>a. /\ ThreadsOK /\ FrameOK(t) /\ FollowsOK /\ CacheOK /\ t \in Threads /\ frame[t].i = 0 /\ t \in use.callers
      /\ frame[t].pid \in Pids
  BY Facts
<1>b. PICK b \in Buckets : b = Bucket(t) /\ cache[b].valid /\ cache[b].pid = frame[t].pid
  BY <1>a, BucketIn DEF IsFor
<1>1. /\ Moves(t) /\ pc'[t] = "hit" /\ frame'[t] = [frame[t] EXCEPT !.u = cache[b].u]
  <2>1. PICK f : f = [frame[t] EXCEPT !.u = cache[b].u]
    OBVIOUS
  <2>2. frame' = [frame EXCEPT ![t] = f]
    BY <1>b, <2>1
  <2>3. Moves(t) /\ pc'[t] = "hit" /\ frame'[t] = f
    BY <1>a, <2>2, GotoMoves DEF Labels
  <2>4. QED
    BY <2>1, <2>3
<1>2. frame[t] \in [op : use.ops \cup {"none"}, pid : Pids \cup {"none"}, u : Nat, i : Nat, floor : Nat]
  BY <1>a DEF FrameOK
<1>3. cache[b].u \in Nat /\ Own(cache[b].u, frame[t].pid)
  BY <1>a, <1>b DEF CacheOK, Empty
<1>4. /\ frame'[t] \in [op : use.ops \cup {"none"}, pid : Pids \cup {"none"}, u : Nat, i : Nat, floor : Nat]
      /\ frame'[t].u = cache[b].u /\ frame'[t].pid = frame[t].pid /\ frame'[t].op = frame[t].op
      /\ frame'[t].floor = frame[t].floor /\ frame'[t].i = 0
  BY <1>a, <1>1, <1>2, <1>3
<1>5. UNCHANGED <<accepted, g_running, g_batching_enabled, g_cache_enabled>> /\ g_running \in BOOLEAN
  BY Facts DEF flagVars, bufferVars, FlagsOK
<1>6. FrameOK(t)'
  BY <1>a, <1>1, <1>3, <1>4, <1>5 DEF FrameOK, Own, Updates
<1>7. Steady /\ Alone => frame'[t].floor = Latest(frame'[t].pid) /\ frame'[t].u = Latest(frame'[t].pid)
  BY <1>a, <1>b, <1>4 DEF FollowsOK
<1>8. QED
  BY <1>1, <1>4, <1>5, <1>6, <1>7, CallerMove DEF CallerLabels

(* Entries lose their validity. *)
LEMMA DropStep ==
    ASSUME OptimizerInv, use' = use, NEW t \in Callers, Return(t), pc[t] \notin {"put", "store"},
           UNCHANGED <<bufferVars, ttl, flagVars, now>>, DOMAIN cache' = Buckets, cache' = [b \in Buckets |-> cache'[b]],
           \A b \in Buckets : cache'[b] = cache[b] \/ cache'[b] = [cache[b] EXCEPT !.valid = FALSE]
    PROVE  OptimizerInv'
<1>1. Moves(t) /\ pc'[t] = "idle" /\ frame'[t].i = 0 /\ FrameOK(t)' /\ CacheOK
  BY Facts, ReturnMoves
<1>2. UNCHANGED <<accepted, g_running, g_batching_enabled, g_cache_enabled>> /\ g_running \in BOOLEAN
  BY Facts DEF flagVars, bufferVars, FlagsOK
<1>3. ASSUME NEW b \in Buckets
      PROVE  /\ cache'[b] \in {Empty} \cup [pid : Pids, u : Nat, stamp : Nat, valid : BOOLEAN]
             /\ cache'[b].stamp = cache[b].stamp /\ cache'[b].u = cache[b].u /\ cache'[b].pid = cache[b].pid
             /\ cache'[b].valid => cache[b].valid
  <2>1. cache[b] = Empty \/ cache[b] \in [pid : Pids, u : Nat, stamp : Nat, valid : BOOLEAN]
    BY <1>1 DEF CacheOK
  <2>2. [Empty EXCEPT !.valid = FALSE] = Empty
    <3>1. Empty.valid = FALSE /\ Empty \in [pid : {"none"}, u : {0}, stamp : {0}, valid : {FALSE}]
      BY DEF Empty
    <3>2. QED
      BY <3>1
  <2>3. CASE cache[b] = Empty
    BY <2>2, <2>3
  <2>4. CASE cache[b] \in [pid : Pids, u : Nat, stamp : Nat, valid : BOOLEAN]
    BY <2>4
  <2>5. QED
    BY <2>1, <2>3, <2>4
<1>4. CacheOK'
  BY <1>1, <1>2, <1>3 DEF CacheOK, Own, Updates
<1>5. QED
  BY <1>1, <1>2, <1>3, <1>4, CallerDrop DEF CallerLabels

LEMMA LookupStep ==
    ASSUME OptimizerInv, use' = use, NEW t \in Callers, Lookup(t)
    PROVE  OptimizerInv'
<1>a. pc[t] = "lookup" /\ UNCHANGED <<bufferVars, ttl, flagVars, now>>
  BY DEF Lookup
<1>b. CacheOK /\ Bucket(t) \in Buckets
  BY <1>a, Facts, BucketIn
<1>1. CASE IsFor(cache[Bucket(t)], frame[t].pid) /\ Goto(t, "hit") /\ frame' = [frame EXCEPT ![t].u = cache[Bucket(t)].u]
           /\ UNCHANGED cache
  BY <1>a, <1>1, HitStep DEF cacheVars
<1>2. CASE cache' = [cache EXCEPT ![Bucket(t)].valid = FALSE] /\ Return(t)
  <2>1. /\ DOMAIN cache' = Buckets /\ cache' = [b \in Buckets |-> cache'[b]]
        /\ \A b \in Buckets : cache'[b] = cache[b] \/ cache'[b] = [cache[b] EXCEPT !.valid = FALSE]
    BY <1>b, <1>2 DEF CacheOK
  <2>2. QED
    BY <1>a, <1>2, <2>1, DropStep
<1>3. CASE Return(t) /\ UNCHANGED cache
  BY <1>a, <1>3, ReturnStep DEF cacheVars
<1>4. QED
  BY <1>1, <1>2, <1>3 DEF Lookup

LEMMA DropSteps ==
    ASSUME OptimizerInv, use' = use, NEW t \in Callers, Drop(t)
    PROVE  OptimizerInv'
<1>a. pc[t] \in {"drop", "sweep"} /\ Return(t) /\ UNCHANGED <<bufferVars, ttl, flagVars, now>>
  BY DEF Drop
<1>b. CacheOK /\ Bucket(t) \in Buckets
  BY <1>a, Facts, BucketIn
<1>1. CASE cache' = [cache EXCEPT ![Bucket(t)].valid = @ /\ cache[Bucket(t)].pid # frame[t].pid]
  <2>1. PICK x : x = Bucket(t) /\ x \in Buckets
    BY <1>b
  <2>2. PICK v : v = (cache[x].valid /\ cache[x].pid # frame[t].pid)
    OBVIOUS
  <2>3. cache' = [cache EXCEPT ![x] = [cache[x] EXCEPT !.valid = v]] /\ v \in BOOLEAN
    BY <1>1, <2>1, <2>2
  <2>4. /\ cache[x] = Empty \/ cache[x] \in [pid : Pids, u : Nat, stamp : Nat, valid : BOOLEAN]
    BY <1>b, <2>1 DEF CacheOK
  <2>5. v = TRUE => cache[x].valid = TRUE
    BY <2>2, <2>4 DEF Empty
  <2>6. [cache[x] EXCEPT !.valid = v] = cache[x] \/ [cache[x] EXCEPT !.valid = v] = [cache[x] EXCEPT !.valid = FALSE]
    BY <2>3, <2>4, <2>5 DEF Empty
  <2>7. /\ DOMAIN cache' = Buckets /\ cache' = [b \in Buckets |-> cache'[b]]
        /\ \A b \in Buckets : cache'[b] = cache[b] \/ cache'[b] = [cache[b] EXCEPT !.valid = FALSE]
    BY <1>b, <2>1, <2>3, <2>6 DEF CacheOK
  <2>8. QED
    BY <1>a, <2>7, DropStep
<1>2. CASE cache' = [b \in Buckets |-> [cache[b] EXCEPT !.valid = FALSE]]
  BY <1>a, <1>2, DropStep
<1>3. QED
  BY <1>1, <1>2 DEF Drop

(* A record goes into the cache. *)
LEMMA StoreStep ==
    ASSUME OptimizerInv, use' = use, NEW t \in Callers, Store(t)
    PROVE  OptimizerInv'
<1>a. /\ pc[t] = "store" /\ Return(t) /\ UNCHANGED <<buffer, batch_mutex, region, accepted, ttl, now>>
      /\ UNCHANGED <<g_running, g_batching_enabled, g_cache_enabled>>
  BY DEF Store, bufferVars, flagVars
<1>b. /\ FlagsOK /\ BufferOK /\ MutexOK /\ ThreadsOK /\ CacheOK /\ SteadyOK /\ KeptOK /\ FollowsOK /\ PerfInv
      /\ t \in Threads /\ t \in use.callers /\ frame[t].i = 0 /\ FrameOK(t) /\ frame[t].pid \in Pids
      /\ now \in Nat
  BY <1>a, Facts DEF OptimizerInv, FlagsOK
<1>c. Moves(t) /\ pc'[t] = "idle" /\ frame'[t].i = 0 /\ FrameOK(t)'
  BY <1>a, <1>b, ReturnMoves
<1>d. PICK x \in Buckets : x = Bucket(t) /\ x = Hash[frame[t].pid]
  BY <1>b, BucketIn DEF Bucket
<1>e. PICK e : e = [pid |-> frame[t].pid, u |-> frame[t].u, stamp |-> now, valid |-> TRUE]
  OBVIOUS
<1>f. /\ e \in [pid : Pids, u : Nat, stamp : Nat, valid : BOOLEAN] /\ e.pid = frame[t].pid /\ e.u = frame[t].u
      /\ e.stamp = now /\ e.valid /\ Own(e.u, e.pid)
  BY <1>b, <1>e DEF FrameOK
<1>g. /\ g_cache_enabled => cache' = [cache EXCEPT ![x] = e]
      /\ ~g_cache_enabled => cache' = cache
  BY <1>d, <1>e DEF Store
<1>1. FlagsOK'
  <2>1. pc'[Flusher] = pc[Flusher]
    BY <1>c, Members DEF Moves
  <2>2. QED
    BY <1>a, <1>b, <2>1 DEF FlagsOK
<1>2. ThreadsOK'
  BY <1>a, <1>b, <1>c, CallerThread DEF Grows, CallerLabels
<1>3. BufferOK' /\ MutexOK'
  BY <1>a, <1>b, <1>c, QuietBuffer, QuietMutex
<1>4. SteadyOK'
  BY <1>a, <1>b, <1>c, QuietSteady
<1>5. KeptOK'
  BY <1>a, <1>b, <1>c, QuietKept
<1>6. CacheOK'
  <2>1. CASE ~g_cache_enabled
    BY <1>a, <1>b, <1>g, <2>1, QuietCache
  <2>2. CASE g_cache_enabled
    BY <1>a, <1>b, <1>d, <1>f, <1>g, <2>2 DEF CacheOK, Own, Updates
  <2>3. QED
    BY <2>1, <2>2
<1>7. FollowsOK'
  <2> SUFFICES ASSUME Steady, Alone, NEW s \in Callers, s \in use.callers,
                      NEW b \in Buckets, cache'[b].valid
               PROVE  cache'[b].u = Latest(cache'[b].pid)
    <3>0. \A p : Latest(p)' = Latest(p)
      BY <1>a, LatestSame
    <3>1. Steady /\ Alone => \A s \in Callers : s \in use.callers => s = t
      BY <1>b DEF Alone
    <3>2. QED
      BY <1>c, <3>0, <3>1, SameConditions DEF FollowsOK
  <2>1. s = t
    BY <1>b DEF Alone
  <2>2. g_cache_enabled /\ cache' = [cache EXCEPT ![x] = e]
    BY <1>a, <1>b, <1>g DEF SteadyOK
  <2>3. CASE b = x
    <3>1. cache'[b] = e
      BY <1>b, <2>2, <2>3 DEF CacheOK
    <3>2. frame[t].u = Latest(frame[t].pid)
      BY <1>a, <1>b DEF FollowsOK
    <3>3. QED
      BY <1>c, <1>f, <2>1, <2>2, <3>1, <3>2
  <2>4. CASE b # x
    <3>1. cache'[b] = cache[b]
      BY <1>b, <2>2, <2>4 DEF CacheOK
    <3>2. cache[b].pid # frame[t].pid
      BY <1>b, <1>d, <2>4, <3>1 DEF CacheOK
    <3>3. cache[b].u = Latest(cache[b].pid)
      BY <1>b, <3>1, <3>2 DEF FollowsOK
    <3>4. QED
      BY <1>c, <2>1, <2>2, <3>1, <3>3
  <2>5. QED
    BY <2>3, <2>4
<1>8. QED
  BY <1>1, <1>2, <1>3, <1>4, <1>5, <1>6, <1>7 DEF OptimizerInv, PerfInv

LEMMA FetchStep ==
    ASSUME OptimizerInv, use' = use, NEW t \in Callers, Fetch(t)
    PROVE  OptimizerInv'
<1>a. /\ pc[t] = "fetch" /\ UNCHANGED <<bufferVars, cacheVars, flagVars, now>> /\ Goto(t, "store")
      /\ UNCHANGED <<accepted, g_running, g_batching_enabled, g_cache_enabled>>
      /\ frame' = [frame EXCEPT ![t].u = region[frame[t].pid]]
  BY DEF Fetch, bufferVars, flagVars
<1>b. /\ ThreadsOK /\ BufferOK /\ SteadyOK /\ FrameOK(t) /\ t \in Threads /\ frame[t].pid \in Pids /\ frame[t].i = 0
      /\ g_running \in BOOLEAN
  BY <1>a, Facts DEF FlagsOK
<1>c. ~Steady
  BY <1>a, <1>b DEF SteadyOK
<1>1. PICK f : f = [frame[t] EXCEPT !.u = region[frame[t].pid]]
  OBVIOUS
<1>2. Moves(t) /\ pc'[t] = "store" /\ frame'[t] = f
  BY <1>a, <1>b, <1>1, GotoMoves DEF Labels
<1>3. frame[t] \in [op : use.ops \cup {"none"}, pid : Pids \cup {"none"}, u : Nat, i : Nat, floor : Nat]
  BY <1>b DEF FrameOK
<1>4. region[frame[t].pid] \in Nat /\ Own(region[frame[t].pid], frame[t].pid)
  BY <1>b DEF BufferOK
<1>5. /\ f \in [op : use.ops \cup {"none"}, pid : Pids \cup {"none"}, u : Nat, i : Nat, floor : Nat]
      /\ f.u = region[frame[t].pid] /\ f.pid = frame[t].pid /\ f.op = frame[t].op /\ f.i = 0
  BY <1>b, <1>1, <1>3, <1>4
<1>6. frame[t].op = "prefetch" /\ t \in use.callers
  BY <1>a, <1>b DEF FrameOK
<1>7. FrameOK(t)'
  BY <1>a, <1>b, <1>2, <1>4, <1>5, <1>6 DEF FrameOK, Own, Updates
<1>8. QED
  BY <1>a, <1>b, <1>c, <1>2, <1>5, <1>7, CallerMove DEF CallerLabels, Keeps

LEMMA JoinStep ==
    ASSUME OptimizerInv, use' = use, NEW t \in Callers, Join(t)
    PROVE  OptimizerInv'
<1>a. /\ pc[t] = "join" /\ UNCHANGED <<bufferVars, cacheVars, flagVars, now, frame>> /\ Goto(t, "flush")
      /\ UNCHANGED <<accepted, g_running, g_batching_enabled, g_cache_enabled>>
  BY DEF Join, bufferVars, flagVars
<1>b. ThreadsOK /\ FrameOK(t) /\ t \in Threads /\ frame[t].i = 0 /\ g_running \in BOOLEAN
  BY <1>a, Facts DEF FlagsOK
<1>1. Moves(t) /\ pc'[t] = "flush" /\ frame'[t] = frame[t]
  BY <1>a, <1>b, GotoOnly DEF Labels
<1>2. frame[t].op = "cleanup" /\ t \in use.callers
  BY <1>a, <1>b DEF FrameOK
<1>3. FrameOK(t)'
  BY <1>a, <1>b, <1>1, <1>2 DEF FrameOK, Own, Updates
<1>4. QED
  BY <1>a, <1>b, <1>1, <1>2, <1>3, CallerMove DEF CallerLabels

-----------------------------------------------------------------------------
(* The buffer. *)
LEMMA OthersIdle ==
    ASSUME OptimizerInv, Alone, NEW t \in Callers, t \in use.callers, NEW s \in Callers, s # t
    PROVE  pc[s] = "idle"
  BY DEF OptimizerInv, PerfInv, ThreadsOK, FrameOK, Alone

LEMMA EntryType ==
    ASSUME BufferOK, NEW k \in 1 .. Len(buffer)
    PROVE  buffer[k].pid \in Pids /\ buffer[k].u \in Nat
<1>1. PICK E : E = [pid : Pids, u : Nat]
  OBVIOUS
<1>2. buffer \in Seq(E)
  BY <1>1 DEF BufferOK
<1>3. buffer[k] \in E
  BY <1>2
<1>4. QED
  BY <1>1, <1>3

LEMMA GrowCache ==
    ASSUME CacheOK, accepted \in Seq(Pids), Grows, UNCHANGED <<cache, now>>
    PROVE  CacheOK'
<1>1. ASSUME NEW b \in Buckets PROVE Own(cache[b].u, cache[b].pid)'
  <2>1. PICK u, p : u = cache[b].u /\ p = cache[b].pid
    OBVIOUS
  <2>2. Own(u, p)'
    BY <2>1, OwnStays DEF CacheOK
  <2>3. QED
    BY <2>1, <2>2 DEF Own
<1>2. QED
  BY <1>1 DEF CacheOK

LEMMA GrowRegion ==
    ASSUME accepted \in Seq(Pids), Grows, NEW r, \A p \in Pids : Own(r[p], p)
    PROVE  \A p \in Pids : (r[p] = 0 \/ (r[p] \in Updates' /\ accepted'[r[p]] = p))
<1> TAKE p \in Pids
<1>1. PICK u : u = r[p]
  OBVIOUS
<1>2. Own(u, p)'
  BY <1>1, OwnStays
<1>3. QED
  BY <1>1, <1>2 DEF Own

(* The new entry n takes the place of the process's older one, or a new one; the other entries stay. *)
Replaces(n) ==
    /\ buffer' \in Seq([pid : Pids, u : Nat]) /\ Len(buffer') <= Capacity
    /\ \A j, k \in 1 .. Len(buffer') : j # k => buffer'[j].pid # buffer'[k].pid
    /\ \E k \in 1 .. Len(buffer') : buffer'[k] = n
    /\ \A k \in 1 .. Len(buffer') :
         \/ buffer'[k] = n
         \/ buffer'[k].pid # n.pid /\ \E j \in 1 .. Len(buffer) : buffer[j] = buffer'[k]
    /\ Keeps => \A j \in 1 .. Len(buffer) : buffer[j].pid # n.pid => \E k \in 1 .. Len(buffer') : buffer'[k] = buffer[j]

LEMMA AcceptStep ==
    ASSUME OptimizerInv, use' = use, NEW t \in Callers, pc[t] \in {"batch", "retry"}, batch_mutex = Free,
           Replaces(Pending(t)), Accept(t), Goto(t, "store"),
           UNCHANGED <<batch_mutex, region, cacheVars, flagVars, now>>
    PROVE  OptimizerInv'
<1>a. /\ FlagsOK /\ BufferOK /\ MutexOK /\ ThreadsOK /\ CacheOK /\ SteadyOK /\ KeptOK /\ FollowsOK /\ PerfInv
      /\ t \in Threads /\ FrameOK(t) /\ t \in use.callers /\ frame[t].i = 0 /\ frame[t].pid \in Pids
      /\ accepted \in Seq(Pids) /\ Len(accepted) \in Nat
  <2>1. pc[t] # "idle" /\ pc[t] # "put" /\ pc[t] # "cleaned" /\ PerfInv
    BY DEF OptimizerInv
  <2>2. /\ FlagsOK /\ BufferOK /\ MutexOK /\ ThreadsOK /\ CacheOK /\ SteadyOK /\ KeptOK /\ FollowsOK
        /\ t \in Threads /\ FrameOK(t) /\ t \in use.callers /\ frame[t].i = 0 /\ frame[t].pid \in Pids
    BY <2>1, Facts
  <2>3. QED
    BY <2>1, <2>2 DEF BufferOK
<1>b. UNCHANGED <<cache, ttl, g_running, g_batching_enabled, g_cache_enabled>>
  BY DEF cacheVars, flagVars
<1>c. PICK q \in Pids, m \in Nat : q = frame[t].pid /\ m = Len(accepted) + 1
  BY <1>a
<1>d. PICK n : n = [pid |-> q, u |-> m]
  OBVIOUS
<1>e. Pending(t) = n /\ n.pid = q /\ n.u = m
  BY <1>c, <1>d DEF Pending
<1>f. accepted' = Append(accepted, q) /\ Grows
  BY <1>c DEF Accept, Grows
<1>g. /\ accepted' \in Seq(Pids) /\ Len(accepted') = m /\ Latest(q)' = m
      /\ \A p \in Pids \ {q} : Latest(p)' = Latest(p)
  BY <1>a, <1>c, <1>f, LatestAppend
<1>h. m \in Updates' /\ accepted'[m] = q
  BY <1>a, <1>c, <1>f, <1>g DEF Updates
<1>i. Replaces(n)
  BY <1>e
<1>j. \A s \in Threads : pc[s] # "put"
  BY <1>a, PerfAssumption DEF MutexOK
<1>k. PICK f : f = [frame[t] EXCEPT !.u = m]
  OBVIOUS
<1>l. Moves(t) /\ pc'[t] = "store" /\ frame'[t] = f
  <2>1. frame' = [frame EXCEPT ![t] = f]
    BY <1>g, <1>k DEF Accept
  <2>2. QED
    BY <1>a, <2>1, GotoMoves DEF Labels
<1>m. /\ f \in [op : use.ops \cup {"none"}, pid : Pids \cup {"none"}, u : Nat, i : Nat, floor : Nat]
      /\ f.u = m /\ f.pid = q /\ f.op = "batch" /\ f.i = 0
  <2>1. frame[t] \in [op : use.ops \cup {"none"}, pid : Pids \cup {"none"}, u : Nat, i : Nat, floor : Nat]
        /\ frame[t].op = "batch"
    BY <1>a DEF FrameOK
  <2>2. QED
    BY <1>a, <1>c, <1>k, <2>1
<1>1. FlagsOK'
  <2>1. pc'[Flusher] = pc[Flusher]
    BY <1>l, Members DEF Moves
  <2>2. QED
    BY <1>a, <1>b, <2>1 DEF FlagsOK
<1>2. ThreadsOK'
  <2>1. FrameOK(t)'
    BY <1>a, <1>h, <1>l, <1>m DEF FrameOK, Own
  <2>2. QED
    BY <1>a, <1>f, <1>l, <2>1, CallerThread DEF CallerLabels
<1>3. BufferOK'
  <2>1. ASSUME NEW k \in 1 .. Len(buffer')
        PROVE  Own(buffer[k].u, buffer[k].pid)' /\ buffer'[k].u # 0
    <3>1. CASE buffer'[k] = n
      BY <1>a, <1>c, <1>e, <1>h, <3>1 DEF Own
    <3>2. ASSUME NEW j \in 1 .. Len(buffer), buffer[j] = buffer'[k]
          PROVE  Own(buffer[k].u, buffer[k].pid)' /\ buffer'[k].u # 0
      <4>1. PICK u, p : u = buffer[j].u /\ p = buffer[j].pid
        OBVIOUS
      <4>2. Own(u, p) /\ u # 0
        BY <1>a, <4>1 DEF BufferOK
      <4>3. Own(u, p)'
        BY <1>a, <1>f, <4>2, OwnStays
      <4>4. QED
        BY <3>2, <4>1, <4>2, <4>3 DEF Own
    <3>3. QED
      BY <1>i, <3>1, <3>2 DEF Replaces
  <2>2. \A p \in Pids : Own(region[p], p)'
    <3>1. \A p \in Pids : (region[p] = 0 \/ (region[p] \in Updates' /\ accepted'[region[p]] = p))
      BY <1>a, <1>f, GrowRegion DEF BufferOK
    <3>2. QED
      BY <3>1 DEF Own
  <2>3. QED
    BY <1>a, <1>g, <1>i, <2>1, <2>2, SameConditions DEF BufferOK, Replaces
<1>4. MutexOK'
  <2>1. \A s \in Threads : pc'[s] # "put" /\ frame'[s].i = 0
    BY <1>a, <1>j, <1>l, <1>m DEF Moves, MutexOK
  <2>2. QED
    BY <1>a, <2>1, PerfAssumption DEF MutexOK
<1>5. CacheOK'
  BY <1>a, <1>b, <1>f, GrowCache
<1>6. SteadyOK'
  <2> SUFFICES ASSUME Steady PROVE SteadyOK'
    BY SameConditions DEF SteadyOK
  <2>1. \A s \in Callers : pc'[s] \notin {"direct", "fetch"}
    BY <1>a, <1>l, Members DEF SteadyOK, Moves
  <2>2. ASSUME NEW k \in 1 .. Len(buffer') PROVE region[buffer'[k].pid] <= buffer'[k].u
    <3>1. CASE buffer'[k] = n
      <4>1. region[q] \in Nat /\ Own(region[q], q)
        BY <1>a DEF BufferOK
      <4>2. region[q] <= m
        BY <1>a, <1>c, <4>1 DEF Own, Updates
      <4>3. QED
        BY <1>e, <3>1, <4>2
    <3>2. CASE buffer'[k] # n
      BY <1>a, <1>i, <3>2 DEF Replaces, SteadyOK
    <3>3. QED
      BY <3>1, <3>2
  <2>3. QED
    BY <1>a, <1>b, <2>1, <2>2 DEF SteadyOK
<1>7. KeptOK'
  <2> SUFFICES ASSUME Keeps PROVE KeptOK'
    BY SameConditions DEF KeptOK
  <2>o. \A s \in Threads \ {t} : pc'[s] = pc[s] /\ frame'[s] = frame[s]
    BY <1>l DEF Moves
  <2>1. ASSUME NEW k \in 1 .. Len(buffer') PROVE buffer'[k].u = Latest(buffer[k].pid)'
    <3>1. CASE buffer'[k] = n
      BY <1>e, <1>g, <3>1
    <3>2. CASE buffer'[k] # n
      <4>1. PICK j \in 1 .. Len(buffer) : buffer[j] = buffer'[k] /\ buffer[j].pid # q
        BY <1>e, <1>i, <3>2 DEF Replaces
      <4>2. PICK p \in Pids : p = buffer[j].pid
        BY <1>a, EntryType
      <4>3. buffer[j].u = Latest(p)
        BY <4>2 , <1>a DEF KeptOK
      <4>4. QED
        BY <1>g, <4>1, <4>2, <4>3
    <3>3. QED
      BY <3>1, <3>2
  <2>2. ASSUME NEW p \in Pids, \A k \in 1 .. Len(buffer') : buffer'[k].pid # p
        PROVE  region[p] = Latest(p)'
    <3>1. p # q
      BY <1>e, <1>i, <2>2 DEF Replaces
    <3>2. ASSUME NEW j \in 1 .. Len(buffer), buffer[j].pid = p PROVE FALSE
      <4>1. PICK k \in 1 .. Len(buffer') : buffer'[k] = buffer[j]
        BY <1>e, <1>i, <3>1, <3>2 DEF Replaces
      <4>2. QED
        BY <2>2, <3>2, <4>1
    <3>3. QED
      BY <1>a, <1>g, <3>1, <3>2 DEF KeptOK
  <2>3. ASSUME NEW s \in Callers PROVE pc'[s] # "retry" /\ (Alone => pc'[s] # "cleaned")
    <3>1. CASE s = t
      BY <1>l, <3>1
    <3>2. CASE s # t
      <4>1. pc'[s] = pc[s]
        BY <2>o, <3>2, Members
      <4>2. Alone => pc[s] = "idle"
        BY <1>a, <3>2, OthersIdle
      <4>3. NeverFull => pc[s] # "retry"
        BY <1>a DEF KeptOK, ThreadsOK, FrameOK
      <4>4. QED
        BY <4>1, <4>2, <4>3 DEF Keeps
    <3>3. QED
      BY <3>1, <3>2
  <2>4. NeverFull => \A s \in Callers : frame'[s].op = "batch" => pc'[s] \notin {"flush", "put", "retry"}
    BY <1>a, <1>l, <2>o, Members DEF KeptOK
  <2>5. \A s \in Threads : pc'[s] # "put"
    BY <1>j, <1>l, <2>o
  <2>6. QED
    BY <2>1, <2>2, <2>3, <2>4, <2>5, SameConditions DEF KeptOK
<1>8. FollowsOK'
  <2>1. ASSUME Steady, Alone
        PROVE  \A s \in Callers : s \in use.callers => s = t
    BY <1>a, <2>1 DEF Alone
  <2>2. ASSUME Steady, Alone, NEW b \in Buckets, cache[b].valid, cache[b].pid # q
        PROVE  cache'[b].u = Latest(cache[b].pid)'
    <3>1. PICK p \in Pids : p = cache[b].pid
      BY <1>a, <2>2 DEF CacheOK, Empty
    <3>2. cache[b].u = Latest(p)
      BY <1>a, <2>2, <3>1 DEF FollowsOK
    <3>3. Latest(p)' = Latest(p)
      BY <1>g, <2>2, <3>1
    <3>4. QED
      BY <1>b, <3>1, <3>2, <3>3
  <2>3. frame'[t].u = Latest(frame[t].pid)' /\ frame'[t].pid = q
    BY <1>g, <1>l, <1>m
  <2>4. QED
    BY <1>b, <1>l, <2>1, <2>2, <2>3, SameConditions DEF FollowsOK
<1>9. QED
  BY <1>1, <1>2, <1>3, <1>4, <1>5, <1>6, <1>7, <1>8 DEF OptimizerInv, PerfInv

(* A process without an entry leaves room in a buffer as long as the list of processes. *)
LEMMA RoomLeft ==
    ASSUME BufferOK, NEW p \in Pids, \A k \in 1 .. Len(buffer) : buffer[k].pid # p
    PROVE  Len(buffer) < Cardinality(Pids)
<1>1. PICK n \in Nat : n = Len(buffer)
  BY DEF BufferOK
<1>2. IsFiniteSet(Pids) /\ Cardinality(Pids) \in Nat
  BY PerfAssumption, FS_CardinalityType
<1>3. IsFiniteSet(Pids \ {p}) /\ Cardinality(Pids \ {p}) = Cardinality(Pids) - 1
  BY <1>2, FS_RemoveElement
<1>4. PICK g : g = [k \in 1 .. n |-> buffer[k].pid]
  OBVIOUS
<1>5. g \in Injection(1 .. n, Pids \ {p})
  <2>1. \A k \in 1 .. n : buffer[k].pid \in Pids \ {p}
    BY <1>1, EntryType
  <2>2. \A j, k \in 1 .. n : j # k => buffer[j].pid # buffer[k].pid
    BY <1>1 DEF BufferOK
  <2>3. QED
    BY <1>4, <2>1, <2>2 DEF Injection, IsInjective
<1>6. Cardinality(1 .. n) <= Cardinality(Pids \ {p})
  BY <1>3, <1>5, FS_Injection
<1>7. Cardinality(1 .. n) = n
  BY FS_Interval
<1>8. QED
  BY <1>1, <1>2, <1>3, <1>6, <1>7

LEMMA InsertStep ==
    ASSUME OptimizerInv, use' = use, NEW t \in Callers, BatchInsert(t)
    PROVE  OptimizerInv'
<1>a. /\ pc[t] = "batch" /\ batch_mutex = Free
      /\ UNCHANGED <<batch_mutex, region, cacheVars, flagVars, now>>
  BY DEF BatchInsert
<1>b. /\ BufferOK /\ ThreadsOK /\ FlagsOK /\ FrameOK(t) /\ t \in Threads /\ frame[t].i = 0 /\ frame[t].pid \in Pids
      /\ t \in use.callers /\ KeptOK
  BY <1>a, Facts
<1>c. PICK q \in Pids, f \in Nat : f = Found(q) /\ q = frame[t].pid
  <2>1. PICK q \in Pids : q = frame[t].pid
    BY <1>b
  <2>2. Found(q) \in Nat
    BY <1>b, FoundIs DEF BufferOK
  <2>3. QED
    BY <2>1, <2>2
<1>d. PICK n : n = Pending(t)
  OBVIOUS
<1>e. n.pid = q /\ n \in [pid : Pids, u : Nat]
  BY <1>b, <1>c, <1>d DEF Pending, BufferOK
<1>f. /\ f \in 0 .. Len(buffer) /\ Len(buffer) \in Nat
      /\ f = 0 => \A k \in 1 .. Len(buffer) : buffer[k].pid # q
      /\ f # 0 => buffer[f].pid = q
  <2>1. Len(buffer) \in Nat
    BY <1>b DEF BufferOK
  <2>2. QED
    BY <1>b, <1>c, <2>1, FoundIs
<1>g. PICK E : E = [pid : Pids, u : Nat]
  OBVIOUS
<1>h. buffer \in Seq(E) /\ n \in E
  BY <1>b, <1>e, <1>g DEF BufferOK
<1>i. /\ Len(buffer) <= Capacity /\ Capacity \in Nat
      /\ \A j, k \in 1 .. Len(buffer) : j # k => buffer[j].pid # buffer[k].pid
  BY <1>b, UseType DEF BufferOK, FlagsOK
<1>1. CASE f > 0 /\ buffer' = [buffer EXCEPT ![f] = n] /\ Accept(t) /\ Goto(t, "store")
  <2>1. /\ buffer' \in Seq(E) /\ Len(buffer') = Len(buffer) /\ buffer'[f] = n /\ f \in 1 .. Len(buffer)
        /\ \A k \in 1 .. Len(buffer) : k # f => buffer'[k] = buffer[k]
    BY <1>f, <1>h, <1>1
  <2>2. \A k \in 1 .. Len(buffer) : k # f => buffer[k].pid # q
    BY <1>f, <1>i, <2>1
  <2>3. Replaces(n)
    <3>1. \A j, k \in 1 .. Len(buffer') : j # k => buffer'[j].pid # buffer'[k].pid
      BY <1>e, <1>i, <2>1, <2>2
    <3>2. \A k \in 1 .. Len(buffer') :
            \/ buffer'[k] = n
            \/ buffer'[k].pid # n.pid /\ \E j \in 1 .. Len(buffer) : buffer[j] = buffer'[k]
      BY <1>e, <2>1, <2>2
    <3>3. \A j \in 1 .. Len(buffer) : buffer[j].pid # n.pid => \E k \in 1 .. Len(buffer') : buffer'[k] = buffer[j]
      BY <1>e, <1>f, <2>1
    <3>4. \E k \in 1 .. Len(buffer') : buffer'[k] = n
      BY <2>1
    <3>5. buffer' \in Seq([pid : Pids, u : Nat]) /\ Len(buffer') <= Capacity
      BY <1>g, <1>i, <2>1
    <3>6. QED
      BY <3>1, <3>2, <3>3, <3>4, <3>5, Zenon DEF Replaces
  <2>4. QED
    BY <1>a, <1>d, <1>1, <2>3, AcceptStep
<1>2. CASE f = 0 /\ Len(buffer) < Capacity /\ buffer' = Append(buffer, n) /\ Accept(t) /\ Goto(t, "store")
  <2>1. /\ buffer' \in Seq(E) /\ Len(buffer') = Len(buffer) + 1 /\ buffer'[Len(buffer) + 1] = n
        /\ \A k \in 1 .. Len(buffer) : buffer'[k] = buffer[k]
    BY <1>h, <1>2
  <2>2. \A k \in 1 .. Len(buffer) : buffer[k].pid # q
    BY <1>f, <1>2
  <2>3. \A k \in 1 .. Len(buffer') : k \in 1 .. Len(buffer) \/ k = Len(buffer) + 1
    BY <1>f, <2>1
  <2>4. \A j, k \in 1 .. Len(buffer') : j # k => buffer'[j].pid # buffer'[k].pid
    BY <1>e, <1>i, <2>1, <2>2, <2>3
  <2>5. Len(buffer) + 1 \in 1 .. Len(buffer') /\ \A k \in 1 .. Len(buffer) : k \in 1 .. Len(buffer')
    BY <1>f, <2>1
  <2>6. Len(buffer') <= Capacity
    BY <1>f, <1>i, <1>2, <2>1
  <2>7. Replaces(n)
    BY <1>e, <1>g, <2>1, <2>2, <2>3, <2>4, <2>5, <2>6 DEF Replaces
  <2>8. QED
    BY <1>a, <1>d, <1>2, <2>7, AcceptStep
<1>3. CASE f = 0 /\ Len(buffer) >= Capacity /\ Goto(t, "flush") /\ UNCHANGED <<buffer, accepted, frame>>
  <2>1. Moves(t) /\ pc'[t] = "flush" /\ frame'[t] = frame[t]
    BY <1>b, <1>3, GotoOnly DEF Labels
  <2>2. ~NeverFull
    <3>1. Len(buffer) < Cardinality(Pids) /\ Cardinality(Pids) \in Nat
      BY <1>b, <1>c, <1>f, <1>3, RoomLeft, PerfAssumption, FS_CardinalityType
    <3>2. QED
      BY <1>f, <1>i, <1>3, <3>1 DEF NeverFull
  <2>3. FrameOK(t)'
    BY <1>a, <1>b, <1>3, <2>1 DEF FrameOK, Own, Updates
  <2>4. UNCHANGED <<bufferVars, g_running, g_batching_enabled, g_cache_enabled>> /\ g_running \in BOOLEAN
    BY <1>a, <1>b, <1>3 DEF flagVars, bufferVars, FlagsOK
  <2>5. QED
    BY <1>a, <1>b, <2>1, <2>2, <2>3, <2>4, CallerMove DEF CallerLabels
<1>4. QED
  BY <1>c, <1>d, <1>1, <1>2, <1>3 DEF BatchInsert

LEMMA RetryStep ==
    ASSUME OptimizerInv, use' = use, NEW t \in Callers, BatchRetry(t)
    PROVE  OptimizerInv'
<1>a. /\ pc[t] = "retry" /\ batch_mutex = Free /\ buffer' = <<Pending(t)>> /\ Accept(t) /\ Goto(t, "store")
      /\ UNCHANGED <<batch_mutex, region, cacheVars, flagVars, now>>
  BY DEF BatchRetry
<1>b. BufferOK /\ FlagsOK /\ frame[t].pid \in Pids /\ KeptOK
  BY <1>a, Facts
<1>n. PICK n : n = Pending(t)
  OBVIOUS
<1>c. n \in [pid : Pids, u : Nat]
  BY <1>b, <1>n DEF Pending, BufferOK
<1>d. PICK E : E = [pid : Pids, u : Nat]
  OBVIOUS
<1>e. buffer' \in Seq(E) /\ Len(buffer') = 1 /\ buffer'[1] = n
  BY <1>a, <1>n, <1>c, <1>d
<1>f. Keeps => Len(buffer) = 0
  BY <1>a, <1>b DEF KeptOK
<1>g. Capacity \in Nat /\ Capacity > 0
  BY <1>b, UseType DEF FlagsOK
<1>h. \A k \in 1 .. Len(buffer') : k = 1
  BY <1>e
<1>i. 1 \in 1 .. Len(buffer') /\ Len(buffer') <= Capacity
  BY <1>e, <1>g
<1>j. Keeps => \A j \in 1 .. Len(buffer) : FALSE
  BY <1>f
<1>1. Replaces(n)
  BY <1>d, <1>e, <1>h, <1>i, <1>j DEF Replaces
<1>2. QED
  BY <1>a, <1>n, <1>1, AcceptStep

(* A write to the region reaches it, or finds the region full. *)
LEMMA WrittenIs ==
    ASSUME BufferOK, NEW p \in Pids, NEW x
    PROVE  /\ Written(p, x) = region \/ Written(p, x) = [region EXCEPT ![p] = x]
           /\ RoomForAll => Written(p, x) = [region EXCEPT ![p] = x]
<1>1. ASSUME RoomForAll, region[p] = 0
      PROVE  Cardinality({q \in Pids : region[q] # 0}) < RegionRoom
  <2>1. IsFiniteSet(Pids) /\ Cardinality(Pids) \in Nat /\ RegionRoom \in Nat
    BY PerfAssumption, FS_CardinalityType
  <2>2. IsFiniteSet(Pids \ {p}) /\ Cardinality(Pids \ {p}) = Cardinality(Pids) - 1
    BY <2>1, FS_RemoveElement
  <2>3. PICK W : W = {q \in Pids : region[q] # 0}
    OBVIOUS
  <2>4. W \in SUBSET (Pids \ {p})
    BY <1>1, <2>3
  <2>5. IsFiniteSet(W) /\ Cardinality(W) <= Cardinality(Pids \ {p})
    BY <2>2, <2>4, FS_Subset
  <2>6. Cardinality(W) \in Nat
    BY <2>5, FS_CardinalityType
  <2>7. Cardinality(W) < RegionRoom
    BY <1>1, <2>1, <2>2, <2>5, <2>6 DEF RoomForAll
  <2>8. QED
    BY <2>3, <2>7
<1>2. QED
  BY <1>1, Zenon DEF Written

LEMMA DirectStep ==
    ASSUME OptimizerInv, use' = use, NEW t \in Callers, WriteDirect(t)
    PROVE  OptimizerInv'
<1>a. /\ pc[t] = "direct" /\ Return(t) /\ UNCHANGED <<buffer, batch_mutex, cache, ttl, now>>
      /\ UNCHANGED <<g_running, g_batching_enabled, g_cache_enabled>>
      /\ accepted' = Append(accepted, frame[t].pid) /\ region' = Written(frame[t].pid, Len(accepted) + 1)
  BY DEF WriteDirect, cacheVars, flagVars
<1>b. /\ FlagsOK /\ BufferOK /\ MutexOK /\ ThreadsOK /\ CacheOK /\ SteadyOK /\ PerfInv
      /\ t \in Threads /\ frame[t].i = 0 /\ frame[t].pid \in Pids
  BY <1>a, Facts DEF OptimizerInv
<1>c. ~Steady
  BY <1>a, <1>b DEF SteadyOK
<1>d. Moves(t) /\ pc'[t] = "idle" /\ frame'[t].i = 0 /\ FrameOK(t)'
  BY <1>a, <1>b, ReturnMoves
<1>e. PICK q \in Pids, m \in Nat : q = frame[t].pid /\ m = Len(accepted) + 1
  <2>1. Len(accepted) + 1 \in Nat
    BY <1>b DEF BufferOK
  <2>2. QED
    BY <1>b, <2>1
<1>f. accepted \in Seq(Pids) /\ Grows
  BY <1>a, <1>b DEF BufferOK, Grows
<1>g. accepted' \in Seq(Pids) /\ m \in Updates' /\ accepted'[m] = q
  <2>1. accepted' = Append(accepted, q)
    BY <1>a, <1>e
  <2>2. accepted' \in Seq(Pids) /\ Len(accepted') = m /\ accepted'[m] = q /\ m > 0
    BY <1>e, <1>f, <2>1
  <2>3. QED
    BY <2>2 DEF Updates
<1>1. FlagsOK'
  <2>1. pc'[Flusher] = pc[Flusher]
    BY <1>d, Members DEF Moves
  <2>2. QED
    BY <1>a, <1>b, <2>1 DEF FlagsOK
<1>2. ThreadsOK'
  BY <1>b, <1>d, <1>f, CallerThread DEF CallerLabels
<1>3. BufferOK'
  <2>1. ASSUME NEW k \in 1 .. Len(buffer) PROVE Own(buffer[k].u, buffer[k].pid)' /\ buffer'[k].u # 0
    <3>1. PICK u, p : u = buffer[k].u /\ p = buffer[k].pid
      OBVIOUS
    <3>2. Own(u, p) /\ u # 0
      BY <1>b, <3>1 DEF BufferOK
    <3>3. Own(u, p)'
      BY <1>f, <3>2, OwnStays
    <3>4. QED
      BY <1>a, <3>1, <3>2, <3>3 DEF Own
  <2>2. \A p \in Pids : (region[p] = 0 \/ (region[p] \in Updates' /\ accepted'[region[p]] = p))
    BY <1>b, <1>f, GrowRegion DEF BufferOK
  <2>3. region' = region \/ region' = [region EXCEPT ![q] = m]
    BY <1>a, <1>b, <1>e, WrittenIs
  <2>4. region \in [Pids -> Nat]
    BY <1>b DEF BufferOK
  <2>5. \A p \in Pids : region'[p] = region[p] \/ (p = q /\ region'[p] = m)
    BY <2>3, <2>4
  <2>6. region' \in [Pids -> Nat]
    BY <2>3, <2>4
  <2>7. \A p \in Pids : Own(region[p], p)'
    BY <1>g, <2>2, <2>5 DEF Own
  <2>8. QED
    BY <1>a, <1>b, <1>g, <2>1, <2>6, <2>7, SameConditions DEF BufferOK
<1>4. MutexOK'
  BY <1>a, <1>b, <1>d, QuietMutex
<1>5. CacheOK'
  BY <1>a, <1>b, <1>f, GrowCache
<1>6. SteadyOK' /\ KeptOK' /\ FollowsOK'
  BY <1>c, SameConditions DEF SteadyOK, KeptOK, FollowsOK, Keeps
<1>7. QED
  BY <1>1, <1>2, <1>3, <1>4, <1>5, <1>6 DEF OptimizerInv, PerfInv

-----------------------------------------------------------------------------
(* The flush, of a caller or of the background thread. *)
LEMMA Flushing ==
    ASSUME OptimizerInv, NEW t \in Threads, pc[t] \in {"flush", "put"}
    PROVE  /\ FlagsOK /\ BufferOK /\ MutexOK /\ ThreadsOK /\ CacheOK /\ SteadyOK /\ KeptOK /\ FollowsOK /\ PerfInv
           /\ t \in Callers \/ t = Flusher
           /\ t \in Callers => FrameOK(t) /\ t \in use.callers /\ frame[t].op \in {"batch", "flush", "cleanup"}
           /\ t = Flusher => frame[t] \in FlusherFrames /\ frame[t].op = "none"
           /\ frame[t].i \in Nat
  BY Members DEF OptimizerInv, PerfInv, MutexOK, ThreadsOK, FrameOK, FlusherFrames, Threads

(* The loop index changes. *)
LEMMA IndexMoves ==
    ASSUME OptimizerInv, use' = use, UNCHANGED accepted, NEW t \in Threads, pc[t] \in {"flush", "put"},
           NEW i \in Nat, NEW l, Goto(t, l), frame' = [frame EXCEPT ![t].i = i],
           l \in IF t = Flusher THEN {"put", "adapt"} ELSE {"put", "retry"},
           l = "retry" => frame[t].op = "batch"
    PROVE  /\ Moves(t) /\ pc'[t] = l /\ frame'[t].i = i /\ frame'[t].op = frame[t].op /\ ThreadsOK'
           /\ t \in Callers => FrameOK(t)'
           /\ t = Flusher => frame'[t] \in FlusherFrames
<1>a. ThreadsOK /\ (t \in Callers \/ t = Flusher) /\ PerfInv
  BY Flushing
<1>1. PICK f : f = [frame[t] EXCEPT !.i = i]
  OBVIOUS
<1>2. Moves(t) /\ pc'[t] = l /\ frame'[t] = f
  <2>1. l \in Labels
    BY DEF Labels
  <2>2. frame' = [frame EXCEPT ![t] = f]
    BY <1>1
  <2>3. QED
    BY <1>a, <2>1, <2>2, GotoMoves
<1>3. CASE t \in Callers
  <2>1. FrameOK(t) /\ t \in use.callers /\ frame[t].op \in {"batch", "flush", "cleanup"} /\ t # Flusher
    BY <1>3, Flushing, Members
  <2>2. frame[t] \in [op : use.ops \cup {"none"}, pid : Pids \cup {"none"}, u : Nat, i : Nat, floor : Nat]
    BY <2>1 DEF FrameOK
  <2>3. /\ f \in [op : use.ops \cup {"none"}, pid : Pids \cup {"none"}, u : Nat, i : Nat, floor : Nat]
        /\ f.u = frame[t].u /\ f.pid = frame[t].pid /\ f.op = frame[t].op /\ f.i = i
    BY <1>1, <2>2
  <2>4. frame[t].pid \in Pids /\ Own(frame[t].u, frame[t].pid)
    BY <2>1 DEF FrameOK
  <2>5. l \in {"put", "retry"}
    BY <2>1
  <2>6. FrameOK(t)'
    BY <1>2, <2>1, <2>3, <2>4, <2>5 DEF FrameOK, Own, Updates
  <2>7. ThreadsOK'
    BY <1>a, <1>2, <1>3, <2>5, <2>6, CallerThread DEF Grows, CallerLabels
  <2>8. QED
    BY <1>2, <2>1, <2>3, <2>6, <2>7
<1>4. CASE t = Flusher
  <2>1. frame[t] \in FlusherFrames /\ t \notin Callers
    BY <1>4, Flushing, Members
  <2>2. f \in FlusherFrames /\ f.i = i /\ f.op = frame[t].op
    BY <1>1, <2>1 DEF FlusherFrames
  <2>3. ThreadsOK'
    BY <1>a, <1>2, <1>4, <2>2, FlusherThread DEF FlusherLabels
  <2>4. QED
    BY <1>2, <2>1, <2>2, <2>3
<1>5. QED
  BY <1>a, <1>3, <1>4

LEMMA FlushReturnMoves ==
    ASSUME OptimizerInv, use' = use, UNCHANGED accepted, NEW t \in Threads, pc[t] \in {"flush", "put"},
           FlushReturn(t)
    PROVE  /\ Moves(t) /\ frame'[t].i = 0 /\ ThreadsOK'
           /\ t \in Callers => FrameOK(t)' /\ pc'[t] \in {"retry", "cleaned", "idle"}
           /\ t = Flusher => frame'[t] \in FlusherFrames /\ pc'[t] = "adapt"
           /\ pc'[t] = "retry" => t \in Callers /\ frame[t].op = "batch"
<1>a. ThreadsOK /\ (t \in Callers \/ t = Flusher) /\ PerfInv
  BY Flushing
<1>1. CASE t = Flusher /\ Goto(t, "adapt") /\ frame' = [frame EXCEPT ![t].i = 0]
  <2>1. 0 \in Nat /\ "adapt" \in {"put", "adapt"} /\ t \notin Callers
    BY <1>1, Members
  <2>2. Moves(t) /\ pc'[t] = "adapt" /\ frame'[t].i = 0 /\ ThreadsOK' /\ frame'[t] \in FlusherFrames
    BY <1>1, <2>1, IndexMoves
  <2>3. QED
    BY <2>1, <2>2
<1>2. CASE frame[t].op = "batch" /\ Goto(t, "retry") /\ frame' = [frame EXCEPT ![t].i = 0]
  <2>1. t \in Callers /\ t # Flusher
    BY <1>2, Flushing, Members
  <2>2. QED
    BY <1>2, <2>1, IndexMoves
<1>3. CASE frame[t].op \in {"cleanup", "flush"} /\ frame' = [frame EXCEPT ![t] = NoFrame]
           /\ \E l \in {"cleaned", "idle"} : Goto(t, l)
  <2>1. t \in Callers /\ t # Flusher /\ t \in use.callers
    BY <1>3, Flushing, Members
  <2>2. Moves(t) /\ pc'[t] \in {"cleaned", "idle"} /\ frame'[t] = NoFrame
    <3>1. PICK l \in {"cleaned", "idle"} : Goto(t, l)
      BY <1>3
    <3>2. l \in Labels
      BY DEF Labels
    <3>3. PICK f : f = NoFrame
      OBVIOUS
    <3>4. Moves(t) /\ pc'[t] = l /\ frame'[t] = f
      BY <1>a, <1>3, <3>1, <3>2, <3>3, GotoMoves
    <3>5. QED
      BY <3>3, <3>4
  <2>3. FrameOK(t)' /\ frame'[t].i = 0
    BY <2>1, <2>2 DEF NoFrame, FrameOK, Own
  <2>4. ThreadsOK'
    BY <1>a, <2>1, <2>2, <2>3, CallerThread DEF Grows, CallerLabels
  <2>5. QED
    BY <2>1, <2>2, <2>3, <2>4
<1>4. QED
  BY <1>1, <1>2, <1>3 DEF FlushReturn, Return

LEMMA BeginStep ==
    ASSUME OptimizerInv, use' = use, NEW t \in Threads, FlushBegin(t)
    PROVE  OptimizerInv'
<1>a. /\ pc[t] = "flush" /\ batch_mutex = Free
      /\ UNCHANGED <<buffer, region, accepted, cacheVars, flagVars, now>>
      /\ UNCHANGED <<cache, ttl, g_running, g_batching_enabled, g_cache_enabled>>
  BY DEF FlushBegin, cacheVars, flagVars
<1>b. /\ FlagsOK /\ BufferOK /\ MutexOK /\ ThreadsOK /\ CacheOK /\ SteadyOK /\ KeptOK /\ FollowsOK /\ PerfInv
      /\ t \in Callers \/ t = Flusher
  BY <1>a, Flushing
<1>1. CASE buffer = <<>> /\ FlushReturn(t) /\ UNCHANGED batch_mutex
  <2>1. /\ Moves(t) /\ frame'[t].i = 0
        /\ t \in Callers => FrameOK(t)' /\ pc'[t] \in {"retry", "cleaned", "idle"}
        /\ t = Flusher => frame'[t] \in FlusherFrames /\ pc'[t] = "adapt"
        /\ pc'[t] = "retry" => t \in Callers /\ frame[t].op = "batch"
    BY <1>a, <1>1, FlushReturnMoves
  <2>2. UNCHANGED bufferVars /\ g_running \in BOOLEAN /\ ttl \in 0 .. (MaxTtl + TtlStep)
    BY <1>a, <1>b, <1>1 DEF bufferVars, FlagsOK
  <2>3. CASE t \in Callers
    <3>1. Keeps /\ pc'[t] = "retry" => ~NeverFull
      BY <1>a, <1>b, <2>1 DEF KeptOK
    <3>2. QED
      BY <1>a, <1>1, <2>1, <2>2, <2>3, <3>1, CallerMove DEF CallerLabels
  <2>4. CASE t = Flusher
    BY <1>a, <2>1, <2>2, <2>4, FlusherMove DEF FlusherLabels
  <2>5. QED
    BY <1>b, <2>3, <2>4
<1>2. CASE batch_mutex' = t /\ frame' = [frame EXCEPT ![t].i = 1] /\ Goto(t, "put")
  <2>1. Moves(t) /\ pc'[t] = "put" /\ frame'[t].i = 1 /\ frame'[t].op = frame[t].op /\ ThreadsOK'
    <3>1. "put" \in IF t = Flusher THEN {"put", "adapt"} ELSE {"put", "retry"}
      OBVIOUS
    <3>2. QED
      BY <1>a, <1>2, <3>1, IndexMoves
  <2>2. FlagsOK'
    <3>1. pc'[Flusher] = pc[Flusher] \/ pc'[Flusher] = "put"
      BY <2>1, Members DEF Moves
    <3>2. QED
      BY <1>a, <1>b, <3>1 DEF FlagsOK
  <2>3. BufferOK'
    BY <1>a, <1>b, QuietBuffer
  <2>4. MutexOK'
    <3>1. \A s \in Threads \ {t} : pc'[s] # "put" /\ frame'[s].i = 0
      BY <1>a, <1>b, <2>1, PerfAssumption DEF MutexOK, Moves
    <3>2. Len(buffer) \in Nat
      BY <1>b DEF BufferOK
    <3>3. QED
      BY <1>a, <1>2, <2>1, <3>1, <3>2 DEF MutexOK
  <2>5. CacheOK'
    BY <1>a, <1>b, QuietCache DEF FlagsOK
  <2>6. SteadyOK'
    BY <1>a, <1>b, <2>1, QuietSteady
  <2>7. KeptOK'
    <3>1. Len(buffer) \in Nat /\ \A k \in 1 .. Len(buffer) : ~(k < frame'[t].i)
      BY <1>b, <2>1 DEF BufferOK
    <3>2. QED
      BY <1>a, <1>b, <2>1, <3>1, QuietKept
  <2>8. FollowsOK'
    BY <1>a, <1>b, <2>1, QuietFollows
  <2>9. QED
    BY <2>1, <2>2, <2>3, <2>4, <2>5, <2>6, <2>7, <2>8 DEF OptimizerInv, PerfInv
<1>3. QED
  BY <1>1, <1>2 DEF FlushBegin

(* One pending update reaches the region. *)
LEMMA PutStep ==
    ASSUME OptimizerInv, use' = use, NEW t \in Threads, FlushPut(t)
    PROVE  OptimizerInv'
<1>a. /\ pc[t] = "put" /\ UNCHANGED <<buffer, batch_mutex, accepted, cache, ttl, now, pc>>
      /\ UNCHANGED <<g_running, g_batching_enabled, g_cache_enabled>>
  BY DEF FlushPut, cacheVars, flagVars
<1>b. /\ FlagsOK /\ BufferOK /\ MutexOK /\ ThreadsOK /\ CacheOK /\ SteadyOK /\ KeptOK /\ FollowsOK /\ PerfInv
      /\ frame[t].i \in Nat
  BY <1>a, Flushing
<1>c. PICK n \in Nat, i \in Nat : n = Len(buffer) /\ i = frame[t].i /\ i \in 1 .. n
  <2>1. Len(buffer) \in Nat /\ 1 <= frame[t].i /\ frame[t].i <= Len(buffer)
    BY <1>a, <1>b DEF BufferOK, MutexOK, FlushPut
  <2>2. QED
    BY <1>b, <2>1
<1>d. PICK q \in Pids, x \in Nat : q = buffer[i].pid /\ x = buffer[i].u
  BY <1>b, <1>c, EntryType
<1>e. region' = Written(q, x) /\ frame' = [frame EXCEPT ![t].i = i + 1]
  BY <1>c, <1>d DEF FlushPut
<1>f. region \in [Pids -> Nat] /\ Own(x, q) /\ x # 0
  BY <1>b, <1>c, <1>d DEF BufferOK
<1>g. /\ region' = region \/ region' = [region EXCEPT ![q] = x]
      /\ RoomForAll => region' = [region EXCEPT ![q] = x]
  BY <1>b, <1>e, WrittenIs
<1>h. /\ region' \in [Pids -> Nat] /\ \A p \in Pids : p # q => region'[p] = region[p]
      /\ region'[q] = region[q] \/ region'[q] = x
      /\ RoomForAll => region'[q] = x
  BY <1>f, <1>g
<1>i. \A k \in 1 .. n : /\ buffer[k].pid \in Pids /\ buffer[k].u \in Nat
                        /\ k # i => buffer[k].pid # q
  BY <1>b, <1>c, <1>d, EntryType DEF BufferOK
<1>1. Moves(t) /\ pc'[t] = "put" /\ frame'[t].i = i + 1 /\ frame'[t].op = frame[t].op /\ ThreadsOK'
  <2>1. "put" \in IF t = Flusher THEN {"put", "adapt"} ELSE {"put", "retry"}
    OBVIOUS
  <2>2. Goto(t, "put")
    BY <1>a, <1>b DEF Goto, ThreadsOK
  <2>3. i + 1 \in Nat
    BY <1>c
  <2>4. QED
    BY <1>a, <1>e, <2>1, <2>2, <2>3, IndexMoves
<1>2. FlagsOK'
  BY <1>a, <1>b DEF FlagsOK
<1>3. BufferOK'
  <2>1. \A p \in Pids : Own(region[p], p)'
    <3>1. ASSUME NEW p \in Pids PROVE region'[p] = 0 \/ (region'[p] \in Updates /\ accepted[region'[p]] = p)
      <4>1. Own(region[p], p)
        BY <1>b DEF BufferOK
      <4>2. CASE region'[p] = region[p]
        BY <4>1, <4>2 DEF Own
      <4>3. CASE p = q /\ region'[p] = x
        BY <1>f, <4>3 DEF Own
      <4>4. QED
        BY <1>h, <4>2, <4>3
    <3>2. QED
      BY <1>a, <3>1 DEF Own, Updates
  <2>2. \A k \in 1 .. Len(buffer) : Own(buffer[k].u, buffer[k].pid)' /\ buffer'[k].u # 0
    BY <1>a, <1>b DEF BufferOK, Own, Updates
  <2>3. QED
    BY <1>a, <1>b, <1>h, <2>1, <2>2, SameConditions DEF BufferOK
<1>4. MutexOK'
  <2>1. \A s \in Threads \ {t} : frame'[s] = frame[s]
    BY <1>1 DEF Moves
  <2>2. i + 1 \in Nat /\ 1 <= i + 1 /\ i + 1 <= Len(buffer) + 1
    BY <1>c
  <2>3. QED
    BY <1>a, <1>b, <1>1, <2>1, <2>2 DEF MutexOK
<1>5. CacheOK'
  BY <1>a, <1>b, QuietCache DEF FlagsOK
<1>6. SteadyOK'
  <2> SUFFICES ASSUME Steady, NEW k \in 1 .. Len(buffer) PROVE region'[buffer[k].pid] <= buffer[k].u
    BY <1>a, <1>b, SameConditions DEF SteadyOK
  <2>1. region[buffer[k].pid] <= buffer[k].u
    BY <1>b DEF SteadyOK
  <2>2. QED
    BY <1>c, <1>d, <1>h, <1>i, <2>1
<1>7. KeptOK'
  <2> SUFFICES ASSUME Keeps PROVE KeptOK'
    BY SameConditions DEF KeptOK
  <2>o. \A s \in Threads \ {t} : frame'[s] = frame[s] /\ pc[s] # "put"
    BY <1>a, <1>b, <1>1 DEF MutexOK, Moves
  <2>l. \A p : Latest(p)' = Latest(p)
    BY <1>a, LatestSame
  <2>1. \A k \in 1 .. Len(buffer) : buffer'[k].u = Latest(buffer[k].pid)'
    BY <1>a, <1>b, <2>l DEF KeptOK
  <2>2. ASSUME NEW p \in Pids, \A k \in 1 .. Len(buffer) : buffer[k].pid # p
        PROVE  region'[p] = Latest(p)'
    <3>1. p # q
      BY <1>c, <1>d, <2>2
    <3>2. region[p] = Latest(p)
      BY <1>b, <2>2 DEF KeptOK
    <3>3. QED
      BY <1>h, <2>l, <3>1, <3>2
  <2>3. ASSUME NEW k \in 1 .. Len(buffer), k < frame'[t].i PROVE region'[buffer[k].pid] = buffer[k].u
    <3>1. CASE k = i
      BY <1>d, <1>h, <3>1 DEF Keeps
    <3>2. CASE k # i
      <4>1. k < frame[t].i
        BY <1>c, <1>1, <2>3, <3>2
      <4>2. region[buffer[k].pid] = buffer[k].u
        BY <1>a, <1>b, <4>1 DEF KeptOK
      <4>3. QED
        BY <1>c, <1>h, <1>i, <3>2, <4>2
    <3>3. QED
      BY <3>1, <3>2
  <2>4. \A s \in Threads : pc'[s] = "put" =>
          \A k \in 1 .. Len(buffer) : k < frame'[s].i => region'[buffer[k].pid] = buffer[k].u
    BY <1>a, <2>o, <2>3
  <2>5. \A s \in Callers : frame'[s].op = frame[s].op
    BY <1>1, <2>o, Members
  <2>6. QED
    BY <1>a, <1>b, <2>1, <2>2, <2>4, <2>5, SameConditions DEF KeptOK
<1>8. FollowsOK'
  BY <1>a, <1>b, <1>1, QuietFollows
<1>9. QED
  BY <1>1, <1>2, <1>3, <1>4, <1>5, <1>6, <1>7, <1>8 DEF OptimizerInv, PerfInv

(* The flush ends: everything that was pending is in the region. *)
LEMMA EndStep ==
    ASSUME OptimizerInv, use' = use, NEW t \in Threads, FlushEnd(t)
    PROVE  OptimizerInv'
<1>a. /\ pc[t] = "put" /\ frame[t].i > Len(buffer) /\ buffer' = <<>> /\ batch_mutex' = Free /\ FlushReturn(t)
      /\ UNCHANGED <<region, accepted, cache, ttl, g_running, g_batching_enabled, g_cache_enabled, now>>
  BY DEF FlushEnd, cacheVars, flagVars
<1>b. /\ FlagsOK /\ BufferOK /\ MutexOK /\ ThreadsOK /\ CacheOK /\ SteadyOK /\ KeptOK /\ FollowsOK /\ PerfInv
      /\ frame[t].i \in Nat /\ (t \in Callers \/ t = Flusher)
  BY <1>a, Flushing
<1>c. buffer' \in Seq([pid : Pids, u : Nat]) /\ Len(buffer') = 0 /\ \A k \in 1 .. Len(buffer') : FALSE
  BY <1>a
<1>1. /\ Moves(t) /\ frame'[t].i = 0 /\ ThreadsOK'
      /\ t \in Callers => FrameOK(t)' /\ pc'[t] \in {"retry", "cleaned", "idle"}
      /\ t = Flusher => frame'[t] \in FlusherFrames /\ pc'[t] = "adapt"
      /\ pc'[t] = "retry" => t \in Callers /\ frame[t].op = "batch"
  BY <1>a, FlushReturnMoves
<1>d. pc'[t] \in {"retry", "cleaned", "idle", "adapt"}
  BY <1>b, <1>1
<1>2. FlagsOK'
  <2>1. pc'[Flusher] = pc[Flusher] \/ pc'[Flusher] = "adapt"
    BY <1>1, Members DEF Moves
  <2>2. QED
    BY <1>a, <1>b, <2>1 DEF FlagsOK
<1>3. BufferOK'
  <2>1. Capacity \in Nat /\ Capacity' = Capacity
    BY <1>b, UseType, SameConditions DEF FlagsOK
  <2>2. \A p \in Pids : Own(region[p], p)'
    BY <1>a, <1>b DEF BufferOK, Own, Updates
  <2>3. QED
    BY <1>a, <1>b, <1>c, <2>1, <2>2 DEF BufferOK
<1>4. MutexOK'
  <2>1. \A s \in Threads : pc'[s] # "put" /\ frame'[s].i = 0
    BY <1>a, <1>b, <1>1, <1>d DEF MutexOK, Moves
  <2>2. QED
    BY <1>a, <2>1, PerfAssumption DEF MutexOK
<1>5. CacheOK'
  BY <1>a, <1>b, QuietCache DEF FlagsOK
<1>6. SteadyOK'
  <2>1. Steady => \A s \in Callers : pc'[s] \notin {"direct", "fetch"}
    BY <1>b, <1>1, <1>d, Members DEF SteadyOK, Moves
  <2>2. QED
    BY <1>a, <1>b, <1>c, <2>1, SameConditions DEF SteadyOK
<1>7. KeptOK'
  <2> SUFFICES ASSUME Keeps PROVE KeptOK'
    BY SameConditions DEF KeptOK
  <2>o. \A s \in Threads \ {t} : pc'[s] = pc[s] /\ frame'[s] = frame[s] /\ pc[s] # "put"
    BY <1>a, <1>b, <1>1 DEF MutexOK, Moves
  <2>1. ASSUME NEW p \in Pids PROVE region'[p] = Latest(p)'
    <3>1. Latest(p)' = Latest(p)
      BY <1>a, LatestSame
    <3>2. CASE \A k \in 1 .. Len(buffer) : buffer[k].pid # p
      BY <1>a, <1>b, <3>1, <3>2 DEF KeptOK
    <3>3. ASSUME NEW k \in 1 .. Len(buffer), buffer[k].pid = p PROVE region'[p] = Latest(p)'
      <4>1. k < frame[t].i
        BY <1>a, <1>b DEF BufferOK
      <4>2. region[buffer[k].pid] = buffer[k].u /\ buffer[k].u = Latest(buffer[k].pid)
        BY <1>a, <1>b, <4>1 DEF KeptOK
      <4>3. QED
        BY <1>a, <3>1, <3>3, <4>2
    <3>4. QED
      BY <3>2, <3>3
  <2>2. NeverFull => \A s \in Callers : frame'[s].op = "batch" => pc'[s] \notin {"flush", "put", "retry"}
    <3>1. NeverFull => pc'[t] # "retry"
      BY <1>a, <1>b, <1>1 DEF KeptOK
    <3>2. QED
      BY <1>b, <1>d, <2>o, <3>1, Members DEF KeptOK
  <2>3. \A s \in Threads : pc'[s] # "put"
    BY <1>d, <2>o
  <2>4. QED
    BY <1>a, <1>c, <2>1, <2>2, <2>3, SameConditions DEF KeptOK
<1>8. FollowsOK'
  BY <1>a, <1>b, <1>1, <1>d, QuietFollows
<1>9. QED
  BY <1>1, <1>2, <1>3, <1>4, <1>5, <1>6, <1>7, <1>8 DEF OptimizerInv, PerfInv

-----------------------------------------------------------------------------
(* The background thread. *)
LEMMA FlusherGoto ==
    ASSUME OptimizerInv, use' = use, pc[Flusher] \in FlusherLabels \ {"put", "flush"}, NEW l \in FlusherLabels \ {"put"},
           Goto(Flusher, l), UNCHANGED <<bufferVars, cache, flagVars, now, frame>>,
           ttl' \in 0 .. (MaxTtl + TtlStep), l = "lower" => ttl' >= TtlStep, l = "raise" => ttl' <= MaxTtl
    PROVE  OptimizerInv'
<1>1. ThreadsOK /\ MutexOK /\ Flusher \in Threads /\ frame[Flusher] \in FlusherFrames /\ frame[Flusher].i = 0
  BY Members DEF OptimizerInv, PerfInv, ThreadsOK, MutexOK
<1>2. l \in Labels
  BY DEF FlusherLabels, Labels
<1>3. Moves(Flusher) /\ pc'[Flusher] = l /\ frame'[Flusher] = frame[Flusher]
  BY <1>1, <1>2, GotoOnly
<1>4. QED
  BY <1>1, <1>3, FlusherMove

LEMMA FlusherSteps ==
    ASSUME OptimizerInv, use' = use, FlusherStep
    PROVE  OptimizerInv'
<1>a. /\ MaxTtl \in Nat /\ TtlStep \in Nat /\ LowTtl \in Nat /\ HighTtl \in Nat /\ MinTtl \in Nat
      /\ TtlStep <= MinTtl /\ MinTtl <= LowTtl /\ HighTtl <= MaxTtl
  BY PerfAssumption
<1>b. /\ ttl \in 0 .. (MaxTtl + TtlStep) /\ Flusher \in Threads
      /\ pc[Flusher] = "lower" => ttl >= TtlStep
      /\ pc[Flusher] = "raise" => ttl <= MaxTtl
  BY Members DEF OptimizerInv, PerfInv, FlagsOK
<1>1. CASE Wake
  <2>1. PICK l : l = IF ~g_running THEN "exit" ELSE IF g_batching_enabled THEN "flush" ELSE "adapt"
    OBVIOUS
  <2>2. l \in FlusherLabels \ {"put"} /\ l \notin {"lower", "raise"}
    BY <2>1 DEF FlusherLabels
  <2>3. /\ pc[Flusher] = "sleep" /\ Goto(Flusher, l) /\ UNCHANGED <<bufferVars, cache, ttl, flagVars, now, frame>>
    BY <1>1, <2>1 DEF Wake, cacheVars
  <2>4. pc[Flusher] \in FlusherLabels \ {"put", "flush"}
    BY <2>3 DEF FlusherLabels
  <2>5. QED
    BY <1>b, <2>2, <2>3, <2>4, FlusherGoto
<1>2. CASE Flush(Flusher)
  BY <1>b, <1>2, BeginStep, PutStep, EndStep DEF Flush
<1>3. CASE Adapt
  <2>1. PICK l : /\ \/ l \in {"sleep", "exit"}
                    \/ l = "lower" /\ ttl > LowTtl
                    \/ l = "raise" /\ ttl < HighTtl
                 /\ Goto(Flusher, l)
    BY <1>3, Zenon DEF Adapt
  <2>2. l \in FlusherLabels \ {"put"}
    BY <2>1 DEF FlusherLabels
  <2>3. pc[Flusher] = "adapt" /\ UNCHANGED <<bufferVars, cache, ttl, flagVars, now, frame>>
    BY <1>3 DEF Adapt, cacheVars
  <2>4. pc[Flusher] \in FlusherLabels \ {"put", "flush"}
    BY <2>3 DEF FlusherLabels
  <2>5. /\ ttl' \in 0 .. (MaxTtl + TtlStep)
        /\ l = "lower" => ttl' >= TtlStep
        /\ l = "raise" => ttl' <= MaxTtl
    BY <1>a, <1>b, <2>1, <2>3
  <2>6. QED
    BY <2>1, <2>2, <2>3, <2>4, <2>5, FlusherGoto
<1>4. CASE AdaptTtl
  <2>1. PICK l : l = IF g_running THEN "sleep" ELSE "exit"
    OBVIOUS
  <2>2. l \in FlusherLabels \ {"put"} /\ l \notin {"lower", "raise"}
    BY <2>1 DEF FlusherLabels
  <2>3. /\ pc[Flusher] \in {"lower", "raise"} /\ Goto(Flusher, l)
        /\ UNCHANGED <<bufferVars, cache, flagVars, now, frame>>
    BY <1>4, <2>1 DEF AdaptTtl
  <2>4. pc[Flusher] \in FlusherLabels \ {"put", "flush"}
    BY <2>3 DEF FlusherLabels
  <2>5. ttl' \in 0 .. (MaxTtl + TtlStep)
    BY <1>a, <1>b, <1>4 DEF AdaptTtl
  <2>6. QED
    BY <2>2, <2>3, <2>4, <2>5, FlusherGoto
<1>5. QED
  BY <1>1, <1>2, <1>3, <1>4 DEF FlusherStep

LEMMA ServeSteps ==
    ASSUME OptimizerInv, use' = use, NEW t \in Callers, Serve(t)
    PROVE  OptimizerInv'
<1>1. CASE ReturnHit(t)
  BY <1>1, ReturnStep DEF ReturnHit
<1>2. CASE Flush(t)
  BY <1>2, BeginStep, PutStep, EndStep, Members DEF Flush
<1>3. QED
  BY <1>1, <1>2, InsertStep, RetryStep, DirectStep, JoinStep, StoreStep, PeekStep, LookupStep, DropSteps, FetchStep
     DEF Serve

LEMMA SettingSteps ==
    ASSUME OptimizerInv, use' = use,
           Tick \/ \E t \in Callers : EnableBatching(t) \/ EnableCache(t) \/ SetTtl(t)
    PROVE  OptimizerInv'
<1>a. now \in Nat /\ g_running \in BOOLEAN /\ g_batching_enabled \in BOOLEAN /\ g_cache_enabled \in BOOLEAN
  BY DEF OptimizerInv, PerfInv, FlagsOK
<1>1. CASE Tick
  BY <1>a, <1>1, SettingStep DEF Tick, cacheVars, flagVars
<1>2. ASSUME NEW t \in Callers, EnableBatching(t) PROVE OptimizerInv'
  <2>1. ~Steady
    BY <1>2 DEF EnableBatching, Set, Steady
  <2>2. QED
    BY <1>a, <1>2, <2>1, SettingStep DEF EnableBatching, Set
<1>3. ASSUME NEW t \in Callers, EnableCache(t) PROVE OptimizerInv'
  <2>1. ~Steady
    BY <1>3 DEF EnableCache, Set, Steady
  <2>2. QED
    BY <1>a, <1>3, <2>1, SettingStep DEF EnableCache, Set
<1>4. ASSUME NEW t \in Callers, SetTtl(t) PROVE OptimizerInv'
  BY <1>a, <1>4, SettingStep DEF SetTtl, Set
<1>5. QED
  BY <1>1, <1>2, <1>3, <1>4

LEMMA OptimizerInit == PerfInit => OptimizerInv
<1> SUFFICES ASSUME PerfInit PROVE OptimizerInv
  OBVIOUS
<1>a. /\ use \in Uses /\ buffer = <<>> /\ batch_mutex = Free /\ cache = [b \in Buckets |-> Empty] /\ ttl = InitTtl
      /\ g_running = TRUE /\ g_batching_enabled = TRUE /\ g_cache_enabled = TRUE
      /\ region = [p \in Pids |-> 0] /\ now = 0 /\ accepted = <<>>
      /\ pc = [t \in Threads |-> IF t = Flusher THEN "sleep" ELSE "idle"]
      /\ frame = [t \in Threads |-> NoFrame]
  BY DEF PerfInit
<1>b. pc[Flusher] = "sleep" /\ \A t \in Callers : pc[t] = "idle"
  BY <1>a, Members
<1>c. accepted \in Seq(Pids) /\ Len(accepted) = 0 /\ Len(buffer) = 0 /\ buffer \in Seq([pid : Pids, u : Nat])
  BY <1>a
<1>d. \A p : Latest(p) = 0
  BY <1>c, LatestIs
<1>1. FlagsOK
  BY <1>a, <1>b, PerfAssumption DEF FlagsOK
<1>2. BufferOK
  BY <1>a, <1>c, UseType DEF BufferOK, Own
<1>3. MutexOK
  BY <1>a, PerfAssumption DEF MutexOK, NoFrame
<1>4. ThreadsOK
  <2>1. NoFrame \in FlusherFrames
    BY DEF NoFrame, FlusherFrames
  <2>2. pc \in [Threads -> Labels]
    BY <1>a DEF Labels
  <2>3. \A t \in Callers : pc[t] \in CallerLabels /\ FrameOK(t)
    BY <1>a, <1>b, Members DEF FrameOK, NoFrame, Own, CallerLabels
  <2>4. QED
    BY <1>a, <1>b, <2>1, <2>2, <2>3, Members DEF ThreadsOK, FlusherLabels
<1>5. CacheOK
  BY <1>a DEF CacheOK, Empty, Own
<1>6. SteadyOK
  BY <1>a, <1>b, <1>c DEF SteadyOK
<1>7. KeptOK
  <2>1. \A t \in Threads : pc[t] # "put"
    BY <1>a
  <2>2. QED
    BY <1>a, <1>b, <1>c, <1>d, <2>1 DEF KeptOK
<1>8. FollowsOK
  BY <1>a, <1>b DEF FollowsOK, Empty
<1>9. QED
  BY <1>1, <1>2, <1>3, <1>4, <1>5, <1>6, <1>7, <1>8 DEF OptimizerInv, PerfInv

LEMMA OptimizerStep == OptimizerInv /\ [PerfNext]_<<use, perfVars>> => OptimizerInv'
<1> SUFFICES ASSUME OptimizerInv, [PerfNext]_<<use, perfVars>> PROVE OptimizerInv'
  OBVIOUS
<1>1. CASE UNCHANGED <<use, perfVars>>
  <2>1. UNCHANGED <<bufferVars, cache, pc, frame, g_running, g_batching_enabled, g_cache_enabled, now, ttl, use>>
    BY <1>1 DEF perfVars, cacheVars, flagVars
  <2>2. now \in Nat /\ g_running \in BOOLEAN /\ g_batching_enabled \in BOOLEAN /\ g_cache_enabled \in BOOLEAN
    BY DEF OptimizerInv, PerfInv, FlagsOK
  <2>3. QED
    BY <2>1, <2>2, SettingStep
<1>2. CASE PerfNext
  BY <1>2, CallSteps, SettingSteps, ServeSteps, FlusherSteps DEF PerfNext
<1>3. QED
  BY <1>1, <1>2

-----------------------------------------------------------------------------
LEMMA TypesHold == OptimizerInv => PerfTypeOK
<1> SUFFICES ASSUME OptimizerInv PROVE PerfTypeOK
  OBVIOUS
<1>a. FlagsOK /\ BufferOK /\ MutexOK /\ ThreadsOK /\ CacheOK
  BY DEF OptimizerInv, PerfInv
<1>b. Len(buffer) \in Nat /\ Len(buffer) <= Capacity /\ Capacity \in Nat
  BY <1>a, UseType DEF BufferOK, FlagsOK
<1>1. buffer \in Seq([pid : Pids, u : Updates])
  <2>1. PICK E, F : E = [pid : Pids, u : Nat] /\ F = [pid : Pids, u : Updates]
    OBVIOUS
  <2>2. buffer \in Seq(E) /\ \A k \in 1 .. Len(buffer) : buffer[k].u \in Updates
    BY <1>a, <2>1 DEF BufferOK, Own
  <2>3. \A k \in 1 .. Len(buffer) : buffer[k] \in E
    BY <2>2
  <2>4. \A k \in 1 .. Len(buffer) : buffer[k] \in F
    BY <2>1, <2>2, <2>3
  <2>5. buffer \in Seq(F)
    BY <2>2, <2>4
  <2>6. QED
    BY <2>1, <2>5
<1>2. cache \in [Buckets -> {Empty} \cup [pid : Pids, u : {0} \cup Updates, stamp : 0 .. now, valid : BOOLEAN]]
  <2>1. now \in Nat
    BY <1>a DEF FlagsOK
  <2>2. ASSUME NEW b \in Buckets, cache[b] # Empty
        PROVE  cache[b] \in [pid : Pids, u : {0} \cup Updates, stamp : 0 .. now, valid : BOOLEAN]
    <3>1. cache[b] \in [pid : Pids, u : Nat, stamp : Nat, valid : BOOLEAN] /\ cache[b].stamp <= now
      BY <1>a, <2>2 DEF CacheOK
    <3>2. cache[b].u \in {0} \cup Updates
      BY <1>a DEF CacheOK, Own
    <3>3. cache[b].stamp \in 0 .. now
      BY <2>1, <3>1
    <3>4. QED
      BY <3>1, <3>2, <3>3
  <2>3. QED
    BY <1>a, <2>2 DEF CacheOK
<1>3. region \in [Pids -> {0} \cup Updates]
  BY <1>a DEF BufferOK, Own
<1>4. ASSUME NEW t \in Threads PROVE frame[t].i \in 0 .. (Capacity + 1) /\ frame[t].u \in {0} \cup Updates
  <2>1. frame[t].i \in 0 .. (Capacity + 1)
    BY <1>a, <1>b DEF MutexOK
  <2>2. CASE t = Flusher
    BY <1>a, <2>1, <2>2 DEF ThreadsOK, FlusherFrames
  <2>3. CASE t \in Callers
    BY <1>a, <2>1, <2>3 DEF ThreadsOK, FrameOK, Own
  <2>4. QED
    BY <2>2, <2>3 DEF Threads
<1>5. QED
  BY <1>a, <1>b, <1>1, <1>2, <1>3, <1>4 DEF PerfTypeOK, MutexOK, ThreadsOK, FlagsOK

(* A hit of the cache is a record of the process the lookup was for, in     *)
(* whatever bucket it shares and though the first check holds no lock; with *)
(* batching and caching on and one calling thread it is not behind what the *)
(* thread had reported when the lookup began.                               *)
THEOREM HitsAreSound == PerfSpec => []HitSound
<1>1. OptimizerInv => HitSound
  <2> SUFFICES ASSUME OptimizerInv PROVE HitSound
    OBVIOUS
  <2>1. PerfTypeOK
    BY TypesHold
  <2>2. ThreadsOK /\ BufferOK /\ FollowsOK
    BY DEF OptimizerInv, PerfInv
  <2>3. HitIsOwn
    BY <2>2 DEF HitIsOwn, ThreadsOK, FrameOK, Own
  <2>4. ASSUME Steady, Alone, NEW t \in Callers, pc[t] = "hit" PROVE frame[t].u >= frame[t].floor
    <3>1. t \in use.callers /\ frame[t] \in [op : use.ops \cup {"none"}, pid : Pids \cup {"none"}, u : Nat, i : Nat, floor : Nat]
      BY <2>2, <2>4 DEF ThreadsOK, FrameOK
    <3>2. frame[t].floor = Latest(frame[t].pid) /\ frame[t].u = Latest(frame[t].pid)
      BY <2>2, <2>4, <3>1 DEF FollowsOK
    <3>3. QED
      BY <3>1, <3>2
  <2>5. QED
    BY <2>1, <2>3, <2>4 DEF HitSound, HitNotBehind
<1>2. QED
  BY <1>1, OptimizerInit, OptimizerStep, PTL DEF PerfSpec

(* No accepted update is lost, whatever the threads, processes, buffer      *)
(* length and use, as long as batching and caching stay on, the region has  *)
(* room for every process, and there is one caller or a buffer that never   *)
(* fills up: the latest update of a process is the pending one, or in the   *)
(* region when none is pending; and after cleanup none is.                  *)
THEOREM LatestIsKept == PerfSpec => []LatestKept
<1>1. OptimizerInv => LatestKept
  <2> SUFFICES ASSUME OptimizerInv, Keeps
               PROVE  /\ \A p \in Pids :
                           IF Found(p) > 0 THEN buffer[Found(p)].u = Latest(p) ELSE region[p] = Latest(p)
                      /\ Alone /\ (\E t \in Callers : pc[t] = "cleaned") => buffer = <<>>
    BY DEF LatestKept, Keeps
  <2>1. BufferOK /\ KeptOK
    BY DEF OptimizerInv, PerfInv
  <2>2. ASSUME NEW p \in Pids
        PROVE  IF Found(p) > 0 THEN buffer[Found(p)].u = Latest(p) ELSE region[p] = Latest(p)
    <3>1. /\ Found(p) \in 0 .. Len(buffer) /\ Len(buffer) \in Nat
          /\ Found(p) = 0 => \A k \in 1 .. Len(buffer) : buffer[k].pid # p
          /\ Found(p) # 0 => buffer[Found(p)].pid = p
      <4>1. Len(buffer) \in Nat
        BY <2>1 DEF BufferOK
      <4>2. QED
        BY <2>1, <4>1, FoundIs
    <3>2. CASE Found(p) = 0
      BY <2>1, <3>1, <3>2 DEF KeptOK
    <3>3. CASE Found(p) # 0
      <4>1. Found(p) \in 1 .. Len(buffer) /\ Found(p) > 0
        BY <3>1, <3>3
      <4>2. buffer[Found(p)].u = Latest(buffer[Found(p)].pid)
        BY <2>1, <4>1 DEF KeptOK
      <4>3. QED
        BY <3>1, <3>3, <4>1, <4>2
    <3>4. QED
      BY <3>2, <3>3
  <2>3. QED
    BY <2>1, <2>2 DEF KeptOK
<1>2. QED
  BY <1>1, OptimizerInit, OptimizerStep, PTL DEF PerfSpec
===========================================================================
