# Verification of the RDMA interception library

The repository is an LD_PRELOAD library that intercepts `ibv_*` verbs, counts the
objects every process makes, and refuses calls beyond the quota of the process's
tenant. Its state lies in two POSIX shared memory regions that hooked processes,
command line tools and daemons map at once, with spin locks of their own making.
This directory holds TLA+ models of that core, the TLC configurations that check
them, and TLAPS proofs of what they check, but for liveness, for every size of the system.

## Inventory

| Component | Source (under `src/src/`) | State | Operations | What is hard |
|---|---|---|---|---|
| Tenant table | `shm/shared_memory_tenant.c` | `tenants[]` (status, quota, usage, process list), `pid_mappings[]`, two counters, lock word, `version` | create, delete, set status, update quota, bind, unbind, update usage, get info, check | processes that scan and rewrite one table; initialisation without a lock; death inside a section |
| Verb hooks | `rdma_hooks_tenant.c` | per process: counters under `resource_mutex`; per thread: the tenant it looked up, its copies | four creating and four freeing verbs, load-time binding | check and charge are several separate calls of the table; the administrator acts in between |
| Process region | `shm/shared_memory.c` | slots pid -> usage, global counts and limits, lock word | init, update process, update global, set limits, two readers without lock | unlocked readers; the test for a new region |
| Shared memory collector | `collector_server_shm.c` | `running`, the file descriptors of two eBPF maps, the copying thread | start, publish limits, copy global counts, walk the process map, stop | the kernel changes the map under the walk; other processes write the same records under the same lock |
| Performance optimizer | `performance_optimizer.c` | batch buffer under a mutex, cache with one spin lock per entry, flush thread, switches | batch update, lookup, prefetch, invalidate, clear, flush, cleanup, switches | two callers and a thread over buffer, cache and region, under three different locks |
| Dynamic policy manager | `dynamic_policy_manager.c` | configuration and tenant policies, each under a mutex, adjusting thread, file, published limits | set/get/check limit, tenant set/delete/get/check, update, load, save, default, adjust, enable, init, cleanup | a non-recursive mutex, copies used after unlock, publication as a second step, other processes that publish too |
| Tenant manager (command line) | `tenant_manager.c` | none | one API call per run | it changes the table beside the daemon, and initialises the policy manager on each run |
| Tenant daemon and client | `tenant_manager_daemon.c`, `tenant_manager_client.c` | daemon: `running`, listening socket, one connection; client: one request | CREATE, DELETE, UPDATE_QUOTA, STATUS, LIST_TENANTS | one thread, blocking `recv`, two `send`s per answer, signals at any point, SIGPIPE |
| Collector server and client | `collector_server.c`, `collector_client.c` | server: global counts under two mutexes, process table, synchronising thread; client: the last figures | create and destroy events, memory check, statistics; one connection per request | counts and kernel data overwrite one another; one serving thread; deaths on both ends; shutdown |
| Static policy | `dynamic_policy.c` | local QP limit | adjust by the collector's usage ratio | the hooks only initialise it; nothing reads its limit |
| Configuration, core, logger | `config.c`, `intercept_core.c`, `logger.c` | `g_intercept_state`: `initialized`, configuration, log file, `log_file_mutex`, `pthread_once` | init, cleanup, load from environment and files, set config, log, set level, set file, rotate | level and path read outside the mutex; a log file closed and reopened under other threads; three layers of configuration |
| Legacy hooks | `rdma_hooks.c` | counters of the process, of which only `qp_count` is under `resource_mutex` | sixteen verbs, of which four count | check, call, count and publish are separate; publication in one direction only. Kept in the repository beside `rdma_hooks_tenant.c`, which `INTERCEPT_SOURCES` compiles in its place |
| eBPF monitors | named by `CMakeLists.txt`, not in the repository | - | - | external |
| Experiments, tests, figures, scripts | `src/experiments`, `src/tests`, `src/tools`, `src/scripts` | - | - | drive the library, are not part of it |

How they interact: hooks and tools call the tenant table; hooks publish their
process counts in the process region and read its global counts; the collector
writes those global counts; the policy manager writes its global limits; the
optimizer buffers writes to it. These parts share memory, locks and threads; only
the collector and the tenant daemon are spoken to over sockets.

What makes each component correct:

* tenant table: one binding per process, to a tenant that exists; exact counters;
  a suspended tenant admits nobody; calls are atomic;
* hooks: a tenant is charged for what its processes hold, never exceeds its quota
  and is never refused because of another tenant;
* process region: one slot per process, whole records, no slot given to another process;
* shared memory collector: after a round the region tells of the kernel as it was in
  that round, and a collector that is told to stop stops;
* optimizer: no accepted update is lost, each reaches the region, hits are of the right
  process and not stale;
* policy manager: verdicts by one limit in force, published limits in step, and
  every call returns;
* collector: grants counted and within the limits, statistics as fresh as the
  request, every call returns, shutdown ends;
* daemon: what a client reports is what happened to the table, reports are true of
  the time they were read in, nobody waits for ever;
* core and legacy hooks: a log line goes to the file that is configured and never to
  a closed one, the layers of the configuration apply in the code's order, counts are
  of what is held, and limits hold and refuse as published.

## Modules

`TenantShm` is the tenant table with one step per API call. A failing call is a
stutter. `Wrap` is unsigned 32-bit arithmetic with the modulus `Word`.

`TenantShmSync` EXTENDS it and is the same table at the grain of the code: a client
attaches (`Attach`, `Wipe`, `Stamp` are `tenant_shm_init`), enters a call, spins,
runs the body in several steps (`Scan`, `TallyProcess`, `MapSlot`, `ListProcess`,
`SweepSlot` one slot at a time, ...), releases, and loads and stores `version`
outside the lock. `Crash` kills a client anywhere. The attachment test of
`version` (lines 63 to 67) is one step and the `memset` another, and any client may
take it while `version` is 0; the auxiliary `inits` counts those that found it so.
`committed` is an auxiliary variable: the table when the lock was last released. The
refinement `ImplementsTable` maps the variables of `TenantShm` to it.

`TenantHooks` EXTENDS `TenantShm`: threads of processes inside verbs, with a
program counter per thread. Every call of the table's API is one step, which
`ImplementsTable` justifies; everything between two such calls interleaves.
`Admin` is what the command line and the daemon do; `ExitProcess` is the kernel
freeing a dead process's objects, after which the pid may be used again. The global
count of QPs, which an external collector supplies, is any value of
`GlobalReadings`.

`ProcessRecords` says what the process region promises: a record per process,
replaced as a whole. `ProcessShm` is the region: a lock for writers, stores and
loads field by field in any order, readers without the lock, and `shm_init`: any client
attaches at any time and clears the region if it finds the global counts zero (`Attach`,
`ClearGlobal`, `ResetSlot`, `Stamp`). The auxiliary `inits` counts the clients that did.

`ShmCollector` EXTENDS `ProcessShm`: when `deployed`, the client `Service` is the
collector, and its calls of the region are those of its program: the limits, then in
each round the global counts (`CopyGlobal`) and a walk over the process map
(`NextKey`, `CopyProcess`), every call at the grain of `ProcessShm`. The maps are
external: `KernelCounts` changes them at any time, and `bpf_map_get_next_key` of a key
that has gone yields the first key again. `ebpf_sync_mutex` has one user and is left
out. The auxiliary variables `seen`, `throughout`, `visited` and `own` are about the
round under way. When not `deployed`, all clients are alike and call anything.

`PerfOptimizer` has the callers, the flush thread, the buffer, the cache and the
region. A usage record is the number of the update that brought it, so "older" is
"smaller". The clock is a counter; hit rates, which decide in which direction
`adaptive_adjust` moves the time to live, are a free choice.

`DynamicPolicy` has the callers, the adjusting thread, the mutex, the file and the
published limits. What a call does under the mutex is one step, except where the
code unlocks in the middle (`check_limit` copies the limit, then reads the count).
Tenant policies have their own mutex and calls; `OtherStarts` is another process (each
run of the command line tool is one) that initialises its own manager and publishes
the default limits in the same region. `Ops` says what each caller may call.

`TenantDaemon` EXTENDS `TenantShm`, so that what the daemon and the command line tool do
to the table are the table's own actions. The daemon is one thread (`Test`, `Select`,
`Accept`, `RecvCommand`, a `Process...` action per kind of command, `Answer`, `Newline`)
and a client another (`Connect`, `Send`, `Recv`); between them are the backlog (`queue`)
and one connection per client (`sent`, `inbox`, `peer`). `signal_handler` runs at any
point and closes the listening socket; writing to a client that has closed its end
kills the daemon; `Start` starts it again over the table as it was left. The
auxiliary variables are `effects` (how often a request changed the table), and
`stable` and `ever` (tenants that existed throughout, and at some time in, the read
under way).

`InterceptCore` is the library's start, configuration and logger, and `LegacyHooks`,
which EXTENDS it, the verbs of `rdma_hooks.c`. `use`, chosen at the start from `Uses`,
says what each thread calls, what the environment and the files hold, which real
verbs were found, whether the process region has room, is full or does not exist,
and whether eBPF reports. The file is opened and closed under `log_file_mutex`; level and
path are read outside it, so a line may be dropped or written by a level that has just
changed. `hurt` and `misused` remember a failed reopening, and a write to a closed file; `stray`
that the last `set_config` did not come to reopen the log. `use.left` is the record that an
earlier process with the same pid has left in the region, from which a process starts.

`Collector` has the server's main thread and its synchronising thread, which both run
`sync_ebpf_data` (`SyncLock` to `SyncUnlock`), the sockets between it and the clients
(`backlog`, `link`, `req`, `rsp`), and clients inside a call of `collector_client.c`:
`Connect`, `Send`, `Receive`, and a second round for `collector_check_global_qp_limit`.
What differs between the calls is what they make of the outcome (`Return`): an
answer, an empty one (`Eof`) or an error (`Fault`). `mapped` says whether the kernel's
maps were found at start; `KernelCounts` changes them at any time. Both ends die at any
point (`Crash`, `Kill`), and writing to a dead client ends the server (`BrokenPipe`),
since nothing handles SIGPIPE. A client reports the destruction of what it was
granted, once. `GET_PROC_STATS` is sent by `tests/test_collector_comm.c` only.
`seen[c]` is an auxiliary variable, what the maps have held since the first request
of the call. Destroyed mutexes behave as glibc's: destroying a held one fails,
locking a destroyed one fails at once and the caller goes on.

The `MC*` modules give TLC values for constants that are functions or records.
Definitions marked "Variant" are deliberately wrong forms of the definition after
them: substituted for it, they show that a property can fail.

## Runs

| Run | Instance | What it shows |
|---|---|---|
| `TenantShm` | 2 tenants, 2 mapping slots, 3 processes | bindings unique and live, both counters exact, suspended tenants closed, in every order of calls. Three processes for two slots make the table fill up; symmetric processes |
| `TenantShmSync` | 2 clients, 3 calls, crashes anywhere; 852,184 states | the lock excludes, the scans and partial writes implement `TenantShm`, all until a second client takes the region for new; the lock becomes free again unless a client died |
| `TenantHooks` | 2 processes: one with two threads under a tenant the administrator changes, deletes and recreates, and one with one thread under a tenant left in peace, which calls all eight verbs; exits; 1,264,854 states | in the contended tenant every record agrees with its own totals and the process's counters are exact, though charges may be lost; in the quiet one charges are exact at rest, the quota holds, refusals are honest |
| `TenantHooks_quota` | 2 processes of one tenant | violated: the quota is exceeded |
| `ProcessShm` | 2 clients, 3 processes, 2 slots, records of 2 fields; either 4 calls of any kind, or a collector with 2 rounds, 1 change of the kernel's maps, 1 signal and 2 starts beside 1 call of another client; 588,000 states | one writer, one slot per process, readers see only counts of the process they asked for, the region implements `ProcessRecords`, all until a second client takes it for new; the collector copies global counts that the kernel had in the round and every process that stayed in the map, and stops when told to |
| `PerfOptimizer` | `use` is one of four: 1 caller with a buffer of 1, expiry and cleanup; 2 callers that update, read and flush with a buffer of 2; 2 that switch batching, cache and time to live; 2 that prefetch, invalidate and clear; 753,942 states | nothing accepted is lost when the buffer overflows, cleanup drains it, accepted updates are written eventually, a hit is of the process asked for and, undisturbed, not behind |
| `DynamicPolicy` | 2 callers and the thread, all operations, a tenant policy, another process that starts; 240,448 states | verdicts by one limit that was in force; only the adjusting thread can hold callers up, and never those of the tenant policies; only `set_default`, `load`, `cleanup` and another process's start separate the published limits from the configuration |
| `DynamicPolicy_adjust` | 1 caller and the thread | violated: calls do not return once automatic adjustment is on |
| `Collector` | without maps 2 clients, 3 calls, limits of 1; with maps 1 client, the synchronising thread, 3 states of the kernel and 1 change | grants are counted and within the limits, figures and verdicts are right for a moment since the call began, calls return, counts come back to the kernel's, shutdown ends - with a signal and deaths anywhere |
| `TenantDaemon` | 2 clients with every command, complete and not, 2 commands of the command line tool, 1 signal, 2 starts, interrupted clients; 926,216 states | success means that the table was changed once, failure or silence that it was not; STATUS and LIST_TENANTS report every tenant that existed throughout and none that never did; clients return and a stopped daemon ends |
| `TenantDaemon_pipe` | 1 client, no signal | violated: the daemon ends although nothing stopped it |
| `LegacyHooks` | 22 uses of one or two threads: logging and reconfiguration, also before the first start and with stops, two threads of verbs, verbs under reconfiguration, one thread under every kind of region and with what an earlier process left there; 687,329 states | the log is sound, the configuration is layered as the code has it, `qp_count` is what is held, a single thread never exceeds its limit and is refused only after it, or an earlier process with its pid, has held that much |

Bounds. Two of everything that is compared or competes (tenants, slots, callers,
clients, threads) is the least that lets them collide, three processes the least
that overflow two slots. `MaxCalls`, `MaxOps`, `MaxUpdates` and `MaxTime` are named
bounds in the guards; each is large enough for the longest scenario met here (a
charge lost to a race needs two verbs; overtaking in the buffer two updates and a
flush; the loss on a full buffer three updates). Where a bound ends the behaviour,
deadlock is not checked; `TenantShm` has no such bound and is checked for it.
The second use of `PerfOptimizer` keeps the buffer as large as the number of
processes: with a smaller one two callers lose updates (below). `MaxSignals`,
`MaxStarts` and `MaxCli` let the daemon be stopped in every position, be started over
what it left, and a tenant come and go within one read. `Word` is 4 or 8, just above the
largest count, so that a wrong decrement shows as a wrap.

Conditions of the passing runs that a reader should know:

* `TenantShmSync` and `ProcessShm`: any client may find the region new, but what is said of
  it (all but types and `LockKeepsBecomingFree`) is said while `Sole` holds, that is, until
  a second one does (`inits`). After that the code guarantees none of it, and `committed` is
  frozen, so that the refinements have nothing more to follow. `MCProcessShm.cfg`
  has `CONSTRAINT Sole` and does not explore what comes after. This loses nothing but the
  types there, which are proved: `inits` never falls, so a state without `Sole` is never
  followed by one with it, and every property of the run is conditional on `Sole`.
* `TenantHooks`: `CountExact`, `QuotaRespected` and `NoFalseRefusal` speak of `Quiet`
  tenants, with one thread and no administrator, the only arrangement in which the
  code's check-then-charge is exact; the races of several processes are the subject of
  `TenantHooks_quota` and of Known deviations. `TotalsAgree` and `LocalCountsExact` speak of all.
* `PerfOptimizer`: `Steady` is a use without switches of batching and cache and
  without prefetch, and all but `HitIsOwn` (a part of `HitSound`) need it; `LatestKept` needs a
  region with room for every process, and one caller or a buffer with such room, as
  well, `HitNotBehind` (the other part) one caller. That nothing is pending after cleanup is said
  of a single caller: another thread may fill the buffer again.
* `LegacyHooks`: `LimitHolds`, `RefusedAfterPeak` and the memory region half of
  `CountsHeld` speak of a process whose verbs one thread calls; nothing is said of
  counts once a thread has started, stopped or reconfigured the library by a call of its
  own. `LogSound` excludes (`StartsAlone`) a first verb that starts the library
  while other threads set or rotate the log, and that the open file is the configured one
  is said except after a failed reopening (`hurt`) and after a `set_config` that stores its
  path and does not come to reopen the log (`stray`). `RefusedAfterPeak` says that a refused
  process has held the limit itself or has held nothing and found the record of an earlier
  process that did. `LimitHolds` and `RefusedAfterPeak` suppose that nobody else writes the
  process's record meanwhile. A thread starts or stops
  the library by a call only while no other is inside it.
* `TenantDaemon`: `ListensUntilSignalled` is left to the run that refutes it.
* `Collector`: `GrantsCounted` speaks of one run of a server without maps and of
  lengths whose sum with the limit does not wrap; `FreshStats` and
  `VerdictOfOneMoment` of a server with maps. A limit of 1 is reached by the second
  request; one kernel change can fall before, between and after the two requests and
  the concurrent copies of one call.

Fairness. `TenantShmSync`, `PerfOptimizer`, `DynamicPolicy`, `ShmCollector` and `TenantDaemon` assume weak fairness of the
steps of each thread inside a call and of background threads: a runnable thread
is scheduled, and the sleeps of the background loops end. Nobody is obliged to
call anything, and nothing makes the race for a spin lock or a mutex fair between
threads: the properties do not promise that a given waiter gets the lock. A killed
client takes no more steps. In `Collector` a client that has connected goes on to
send or dies (a client that is stopped in between holds up the server, which reads
without a timeout; the same holds in `TenantDaemon`), and `ebpf_sync_mutex` is strongly fair: its two users take it
rarely, the synchronising thread after a second of sleep. Nobody is obliged to start a
daemon, to signal it or to run a command.

## Proofs

A module's types are a conjunct of one of its named properties (`BindingsSound`,
`SectionSound`, `LocalCountsExact`, `OneSlotPerProcess`, `HitSound`,
`VerdictOfOneLimit`, `GrantsCounted`).

`TenantShm_proofs` - for every number of tenants, slots and processes.
`TableInv` is inductive: the types, tenant 0 never active, `BindingsUnique`,
`BindingsLive`, `TotalCountsBindings`, `ActiveCountsTenants`. The parts need each
other: that `tenant_delete` subtracts as many processes as it unmaps needs
`BindingsLive` (an empty slot names tenant 0, so no empty slot is swept), and
`BindingsLive` for empty slots needs tenant 0 inactive. The counters do not wrap
because the table is smaller than `Word` (`SizeAssumption`). `CountersExact` and
`BindingsCorrect` (of `BindingsSound`: types, unique and live) follow, under the assumption that no caller passes pid 0;
`TableTypeCorrect` and the action property `SuspendedClosed` need no such
assumption. Counting rests on the library's cardinality theorems.

`TenantShmSync_proofs` - for every number of clients, crashes included. `SyncInv`
is types, `StartOrder` (while `version` is 0 nobody is past the initialisation, and
one client at most is in it), `MutualExclusion` and `QuiescentWhenFree`; it holds while
`Sole` does, the types always. `StartOrder` is the strengthening: without it a late
`Stamp` could clear a lock that somebody holds. `SectionSafe` is `SectionSound`: exclusion,
and a table that is the committed one whenever the lock is free.
`CallsAreAtomic` is the refinement `ImplementsTable`, for all behaviours (without `Sole`
the mapping no longer changes): with
the auxiliary `committed`, the table at the last release of the lock, as the refinement
mapping, releasing the lock is one step of `TenantShm` or a stutter and every other step
a stutter. `RefineInv` joins `SyncInv` with the types of both tables, `Unstamped` (a region
whose version is 0 is zero, and committed so), `RegistersOK` (a loop index and a flag left over from one call are
never met by the next) and, for each label of a body, `Progress`: the table is the
committed one with exactly the writes that the call has made so far, and what its check
and its scan have shown still holds of the committed one. The loop of `tenant_delete` is
`Swept(t, i)`, the slots below `i` emptied and counted off, so that its many subtractions
are the one of `tenant_delete` (`WrapNext`); at `unlock` the table is the committed one or
the whole effect of the call (`Done`, `CommitStep`). A call that dies half way leaves
`committed` alone, and the lock to nobody.

`TenantUsers_proofs` has the two users of the tenant table, each with its own
specification: the hooks (here) and the daemon (the paragraph after next).

The hooks, for any processes, threads, administrators. `HooksInv` adds
to the table's types `RecordsAgree`: not only the stored usage records but also
the private copies that threads are about to write back have count = made - freed.
That copies agree is what makes lost updates harmless to `TotalsAgree`
(`RecordsConsistent`). `TableSafeUnderHooks` shows that every step of the composed
system is a step of the table or a stutter, so `TableInv` holds in it too.
`LocalCountsCorrect` (of `LocalCountsExact`) assumes finitely many threads. Its
invariant `LocalInv` counts, besides the handles, the threads between the counting and
the handing over of an object (`CountedIn`), and says where a freeing verb may be
(`PathOK`): only with both does a counter that is at zero have nothing to subtract, so
that the guards against going below zero never lose a count.

The same part has tenant isolation, for any number of tenants, processes, threads
and administrators, under `QuietAlone`: a tenant that administrators leave alone has one
process with one thread, QP control is on and quotas fit a `uint32_t`. (The instance of
the `TenantHooks` run satisfies it and the one of `TenantHooks_quota` does not:
`QuietInstance` of `MCTenantHooks`.) `QuotaInv` joins the three invariants above with
`Isolation`: nobody but the tenant's own thread has written its row (`RowOK`); only the
process that names the tenant in its environment is bound to it, and only by its own
start (`HomeOK`); what has not started holds nothing (`DormantOK`); and `ThreadOK` ties
charge to handles at every step of a verb, keeps the copies that the thread has read
equal to the row, and remembers what a check has shown until the object it admitted is
charged. `ChargesExact`, `QuotasHold` and `RefusalsTrue` follow.
Sums over a tenant's processes are unfolded for the at most one process there is
(`SumOfOne`); a tenant with several would need induction, and the quota does not hold
for it anyway.

The daemon, in the same module, for any clients, requests, signals and restarts. `ReportsInv` is
the types, `Connected` (a connection is open at the daemon's end just while it waits in
the backlog, once, or is served), `Owed` (what the daemon has done and not yet said for
the client it serves), `Told` (what each client has been told and may still be told) and
`Reading` (what a walk over the table has collected so far, against the tenants that
existed throughout and at some time). `Connected` is the strengthening: without it a
client could be served twice. `AnswersCorrect` and `ReportsCorrect` need no assumption;
`TableSafeUnderDaemon`, that the table stays sound under daemon and command line tool,
needs that nobody passes pid 0.

`ProcessShm_proofs` - the process region with the collector in it, for any slots,
processes, fields and clients, while `Sole` holds. `CollectorInv` is the types and one writer,
`ResetAlone` (while the version is 0 the region is zero and nobody is past `shm_init`, and one
client at most is clearing it), `LockTells`, `SlotsOwned` (a slot holds only values its process
has reported), `WriterOK`, `ReaderOK` and where the collector is (`CollectorAt`). `SlotsCorrect`
and `ReadsCorrect` follow; the types of `OneSlotPerProcess` hold beyond `Sole`.
`RecordsAreWhole` is the refinement `ImplementsRecords`, with
`committed`, the region when the lock was last released, as the mapping. Its invariant
`RecordsInv` says that a free lock finds the region as committed, and how far a writer
inside has come (`Writing`): the fields it no longer has to store are those of its call,
everything else is as committed, and a claimed slot was empty, so that there was room for
one more record (`RoomLeft`, by counting slots).
`RoundsTellTheKernel` is `RoundTrue`. `RoundInv` follows the round: the call the collector
is in carries what the maps held (`RoundCall`) and has stored it when it comes to the
release (from `RecordsInv`); the processes that stayed in the map and were not copied lie
ahead of the current key (`Ahead`), also after a key has vanished and the walk has begun
again; and processes outside `own` have their records from this round (`CopiedRecords`).
That the walk finds a smallest key, or none, rests on the library's well-foundedness of
the natural numbers.

`DynamicPolicy_proofs` - for any callers, resources and limits, with no further
assumption. `PolicyInv` is the types, the file that a load has found (`FileOK`), and
`CheckOK`: the limit that a check is going to copy, has copied or has judged by is one
of those in force since its call began. `VerdictsCorrect` follows, and the action
property `LimitsFollow`.

`Collector_proofs` - the collector server and its clients, for any clients, processes,
lengths and states of the kernel's maps. `FreshInv` is inductive. `ServerInv` has the
two threads (`ThreadsOK`: inside `sync_ebpf_data` one at a time, until the mutex is
destroyed, and by then the server serves nobody), the connections (`LinksOK`: a client is
in the queue once, and connected to the server just while it is read from or served),
`ClientsOK` and `JobOK` (what is sent, worked on and answered belongs to one call).
`FreshJob` follows a figure from the map over the thread's frame, the server's counts and
the answer to the client, against what the maps have held since the request (`seen`). It
is about both threads: between the server's unlock and its reading of a count the
synchronising thread may store another one, which it has looked up after the request
because it was outside before (`AloneInside`). `FirstFigure` is the same for the first
answer of `collector_check_global_qp_limit`. `StatisticsAreFresh`, `VerdictsHaveAMoment`
and `CollectorTypes` follow without further assumption.
`GrantsAreCounted` is about a server without maps, and about what all clients hold
together, so it needs more. What clients hold is not enough for an inductive invariant:
a client frees first and says so later, and the server counts first and answers later.
`GrantsInv` adds to `FreshInv` that each client's holding, plus the destruction that is
on its way to the server (`InTransit`: about to be sent, sent, or read and not served) and
the grant that is on its way back (`Promised`), add up to no more than the counts
(`AllCounted`), that the copying steps are not reached without maps (`Unmapped`) and that
a connection has no second request (`RequestRead`). A request or a grant changes its place
without changing what is owed; a crash of the client or the end of the server only
loses some of it, never the count (`Balance`, `ClientBalance`, `ServedBalance`). The lemmas on
`SumFunctionOnSet` (`SumIs`, `SumChange`, `SumMonotone`, `SumZero`) are proved for any
finite set: by the set of subsets for which a statement holds (`SubsetInduction`), whose
complement would have a smallest element (`LeastNumber`).

`PerfOptimizer_proofs` - the optimizer, for any callers, processes, hash function,
buffer length and uses, under the conditions that the properties name. `PerfInv` holds
for every use: an update number in buffer, cache, region or a thread's frame is one of the
process it is kept for (`Own`), a process has at most one entry in the buffer, one thread
is inside the writing loop of a flush and it holds the mutex (`MutexOK`), an entry of the
cache lies in its process's bucket, and without direct writes no record of the region is
newer than the pending one (`SteadyOK`).
`KeptOK` is what `LatestKept` needs to be inductive: pending entries are the latest, what
is not pending is in the region, so is the part of the buffer that a flush has passed, and a caller that
comes back from the flush of a full buffer finds it empty. With one caller that is
so because nobody else inserts, with a buffer as long as the list of processes because
nobody ever finds it full (`RoomLeft`, by counting); in both cases the region has a slot
for every write (`WrittenIs`). `FollowsOK` says that the cache of a single caller has the latest
update of each process, up to the one it is about to store. `LatestIsKept` and `HitsAreSound`
follow. First and last places in a sequence (`FoundIs`, `LatestIs`, `LatestAppend`) come from
a least element of a set of numbers (`Least`).

`LegacyHooks_proofs` - configuration, core, logger and the verbs of `rdma_hooks.c`, for
any threads, uses, files, environment and limits. `Frame` is the types and `PlacesOK`:
in which call a thread can be where, that one thread at a time starts the library, that
`pthread_once` is running while it does so for a verb, and that the owner of
`log_file_mutex` is the thread between lock and unlock. Everything else rests on it.
`CoreAssumption` says of the constants that threads are finitely many and that what a file
or the environment sets a key to is what its parser lets through.

* `ConfigIsLayered`: a configuration file is folded into the configuration line by line
  (`LinesFold`: for each key the last valid line, or what was there). Induction over its
  length is a search for the shortest prefix that is wrong (`LeastOf`), since the library's
  fold is a function on finite sets and no RECURSIVE operator. `ConfigInv` carries the result
  from `reg`, where it is built, to `config`.
* `LogIsSound`: `LogInv` adds to the property that the file is open but between `CloseLog`
  and `ReopenLog` (`LogOpen`), has the configured path but while the
  path is being changed or was changed without reaching the log (`LogNamed`, `stray`), and that what `rotate_log` has tested before it takes
  the mutex is still there (`LogThere`), which no other call takes away because stopping
  excludes it.
* `CountsAreHeld`, `LimitIsHeld`, `RefusalsAfterPeak`: `CountInv` has six parts. `HaveInv`,
  that objects being made or freed are among those held, is why the guard of
  `ibv_destroy_qp` against going below zero never skips a decrement. `StartInv`: until the
  start is over nothing has been counted, and whoever is in a hook is so because
  interception is on. `QpInv` is exact at every step, by the number of threads at the
  mutex (`InPc`). `MrInv` follows the two load and store pairs of a single thread, and the
  product of count and length. `PeakInv` bounds what is counted, read and published by the most
  that was ever held, or, while nothing is held, by the record found at the start. `LimitInv` is the limit, strengthened by what it takes:
  outside a creation the published count is at least what is held, the copy about to be
  published equals it, and between check and real verb there is room for one more.
  That one thread is alone in counting (`Single`, `OneThread`) is used in the last three.

TLC found `PlacesOK`, `LogInv`, `ConfigInv` and the parts of `CountInv` to hold on the
instance of the `LegacyHooks` run before they were proved; they are not part of that run.

Only model-checked: everything about liveness and fairness (`LockKeepsBecomingFree`,
`ServiceStops`, `EventuallyWritten`, `OnlyAdjusterBlocks`, `CallsReturn`, `ClientsReturn`,
`CountsFollowKernel`, `ShutdownCompletes`, `DaemonProgress`), which the prover cannot
state. Every invariant, action property and refinement that a passing run checks has a
theorem.

## Known deviations

Three disagreements between the code and what the repository says of it have a run
of their own: the quota race, the adjusting thread that locks its mutex twice, and the
daemon that a client's close ends. The models contain the following behaviours as
well, each reached by the constants named; no run states them.

* Rebinding. `tenant_bind_process` for a mapped pid moves the mapping only
  (`RebindProcess`); `process_count` and `processes[]` of both tenants stay.
* Pid 0 marks an empty slot and is a legal argument; binding or unbinding it makes
  `total_process_count` drift (0 in `Pids`).
* Cold start. Two clients that read `version` = 0 before either has written it both
  clear the table, the second over the first one's calls and lock (`inits` = 2 in
  `TenantShmSync`, where nothing but types and progress is claimed).
* Reattachment. `shm_init` takes zero global counts for a new region and clears every
  process record, though line 52 of `shared_memory.c` says it initialises on first
  creation only. Until a collector has stored a count other than zero, every
  process that attaches clears what others have reported, and may clear a lock that is
  held (`inits` = 2 in `ProcessShm`).
* Death inside a section. Both regions' locks have no owner: a process that is killed while
  it holds one stops all others for good (`MayCrash` in `TenantShmSync`; `ProcessShm` has no deaths).
* Records of the dead. Nobody removes a process's record from the process region, and records
  are found by pid: a process whose pid was used before starts from the count that the
  earlier one published, and is refused at its limit before it holds anything
  (`use.left` in `LegacyHooks`; the collector, where there is one, may overwrite it).
* Restarted collector. It publishes the limits of its environment over those the policy
  manager has set. When the global counts are zero at that moment, `shm_init` takes
  the region for new (Reattachment). A process that leaves the kernel's map keeps its
  record, and a record that a hook has published meanwhile is overwritten by what the
  collector looked up before it.
* Version. The increment after the release is a load and a store, so the counter can
  fall back; only `tenant_shm_init` decides by it, and it never returns to 0.
* Status after unlock. `tenant_get_info` takes its result from the status after
  the release and may return the copy of a deleted tenant as a success.
* Lost charges. Two processes of one tenant read the same usage record and one
  charge is lost (`EnvTenant <- OneTenant`); a record read before a delete is written
  into the tenant created after it; an object freed after a rebind is refunded by
  the new tenant, whose count becomes negative and shuts it out.
* Memory. Registration charges `mr_count` and never memory, so the memory quota
  limits each region and not their sum. No hook reads `enable_mr_control`.
* Process limit. `ibv_destroy_qp` does not publish the count, so the per-process
  limit may refuse a process that has freed its QPs.
* Failed binding at load time is ignored: the process runs without a tenant.
* Suspension. The hook's check does not look at the status, so the processes of a suspended
  tenant go on creating objects; the table's own check, `tenant_check_resource_limit`
  (called by the tests only and not modelled), refuses a SUSPENDED tenant.
* Full buffer. Two callers that find the batch buffer full both write entry 0, and one
  update is lost (`Capacity = 1` with two callers). A flush that finds no slot in the region drops
  the update (`RegionRoom = 1`).
* Batching switched off lets an update overtake a buffered one, which the next flush
  writes over it. Prefetch, or two racing updates of one process, leave an older
  record in the cache than the buffer holds.
* Daemon. A client that connects and stays silent stops it: `recv` has no timeout
  and a signal restarts it, so not even SIGTERM ends the daemon then (drop the weak
  fairness of `ClientStep`). A tenant created between the two halves of
  `tenant_get_info` makes STATUS return the empty record as a success. With
  `server_fd` at -1 the loop calls `FD_SET(-1)`, which is undefined. UPDATE_QUOTA
  increments `version` without the lock (line 169). Outside the model: the client
  exits with 0 whatever the answer was, and an old daemon that ends after a new one
  has started removes the new one's socket file.
* Configuration. The comment at `config.c:362` says that the environment has priority;
  it is read first, so a line of a file overwrites it. `ConfigLayered` and its theorem state
  the code's order, so they state the disagreement too (PROJECT.json, findings). The README lists
  `RDMA_INTERCEPT_LOG_LEVEL`, which nothing reads; `enable_mr_control` has no key in
  the file.
* Reconfiguration. `set_config` stores the new path first; with an empty path, or one whose
  directory cannot be made (`logger.c:142`), it never comes to the log, and the old file
  stays open under the new name (`stray`).
* Logger. A `set_log_file` or `rotate_log` that cannot open its file leaves
  `log_file` pointing to the closed one (`logger.c:198` speaks of restoring it), and
  `init` closes the log without clearing the pointer when it fails later (`hurt`).
* Start. The first verb opens the log, writes to it and, when it fails, closes it without
  `log_file_mutex`. A thread that sets or rotates the log meanwhile may close the FILE
  under it, or have its own lost (a use with verbs and `set_log_file` that has not started
  violates `LogSound` without `StartsAlone`).
* Legacy hooks. The process limit does not hold when the region has no free record
  (`region` "full"); `ibv_destroy_qp` never publishes; with two threads, a count that
  is too high for a moment may be published for good, and stores to `mr_count` and
  `memory_used` are lost.
* Tenant policies. A deleted policy leaves limits of zero behind, by which
  `check_tenant_limit` refuses everything.
* Policy of other processes. Each run of the command line tool publishes the default
  global limits over those in force (`OtherStarts`).
* Policy. `save` writes neither cq nor pd limits and cuts memory to whole megabytes;
  `check_limit` never reads `max_memory` nor `enabled`, and its sum wraps. `save` closes
  its file after the unlock (lines 207 and 208), so a load may find less than was written; the
  model has the write as one step, and no property is about what a save and a
  concurrent load make of the file.
* Published limits. A starting collector (`collector_server_shm.c:164`) and `shm_init`'s
  defaults (`shared_memory.c:70-72`) also set the global limits. They are in `ShmCollector`
  and `ProcessShm`; `PublishedLimitsFollow` is about the policy manager's own calls.
* Collector. A client that dies between its request and the answer takes the server
  with it: the failed `write` is checked for an error, but SIGPIPE is not ignored. What
  dead clients were granted stays counted when there are no maps; a restarted server
  begins at zero. A signal between the test of `running` and `select` is not noticed
  until the next connection. With maps the kernel's counts replace those of the events,
  so QP_CREATE may grant beyond the limit. A process that leaves the kernel's map keeps
  its last usage in `process_resources`. Without a collector
  `collector_check_global_memory_limit` allows; when the answer is cut off it refuses.
  The memory test's 64-bit sum wraps.

## Not modelled

Formatting, the text of messages and JSON, statistics (`get_log_stats`, the
optimizer's counters) and latencies; `tenant_shm_destroy` and `shm_destroy` (called by
the tests only); the read-only commands of the command line tool; the optimizer's second
initialisation and `check_resource_fast`; malformed requests to the collector; the
static policy, whose limit nothing reads; the eBPF programs, which are not in the
repository; experiments, tests, figures and scripts, which drive the library;
`tenant_check_resource_limit`, which changes nothing and has no caller in the library. Memory is
sequentially consistent: the lock operations are full barriers on the platforms
built for, and the unlocked accesses that matter are separate steps here.

## Plan

Done: tenant table, its synchronisation, the hooks over it, the process region and the
collector that fills it, the optimizer, the policy manager with its tenant policies, the
collector server, the tenant daemon with its clients and the command line tool,
configuration, core and logger, the legacy hooks; proofs for all of them. Left: the parts
under Not modelled, of which `tenant_shm_destroy` and `shm_destroy` come first, and
properties for the hazards of PROJECT.json that have none.
