---------------------------- MODULE ShmCollector ----------------------------
(***************************************************************************)
(* The shared memory collector (collector_server_shm.c): a service that    *)
(* copies the kernel's counts from two eBPF maps into the process region,  *)
(* where hooked processes and policy tools write too.  To the region it is *)
(* one more client of ProcessShm: main attaches and sets the limits before *)
(* it starts the thread that copies, and then only waits.  The kernel      *)
(* changes its maps at any time.                                           *)
(***************************************************************************)
EXTENDS ProcessShm, Sequences

CONSTANTS
    Service,        \* the client that is the collector
    ServiceLimits,  \* the global limits, from the environment or built in
    KeyOrder,       \* the order in which the process map yields its keys
    KernelInit,     \* what the maps hold at first
    KernelUsages,   \* what the kernel may count later
    ServiceCalls,   \* bound: calls of the other clients beside a collector
    MaxRounds,      \* bound: rounds of copying
    MaxChanges,     \* bound: changes of the maps
    MaxSignals,     \* bound: signals sent to the collector
    MaxStarts       \* bound: starts of the collector

VARIABLES
    deployed,       \* whether there is a collector, or Service is a client like others
    cpc,            \* where the collector is; "down" when it does not run
    running,        \* the flag that both its threads test
    mapped,         \* the maps it found at its start
    kernel,         \* what the maps hold
    key,            \* current_pid of the walk; 0 before the first key
    rounds, changes, signals, starts,
    seen,           \* auxiliary: what the maps have held since the round began
    throughout,     \* auxiliary: processes in the map since the round began
    visited,        \* auxiliary: processes copied in the round
    own             \* auxiliary: processes that others reported on meanwhile

roundVars     == <<seen, throughout, visited, own>>
boundVars     == <<rounds, changes, signals, starts>>
serviceVars   == <<deployed, cpc, running, mapped, kernel, key>>
collectorVars == <<procVars, serviceVars, boundVars, roundVars>>

Maps == {"global", "process"}
Unseen == [global |-> {}, process |-> [p \in Pids |-> {}]]
InRound == cpc \in {"global", "next", "lookup", "sleep"}
InMap == {p \in Pids : kernel.process[p] # NoRecord}

ASSUME KeyOrderAssumption ==
    KeyOrder \in Seq(Pids) /\ \A p \in Pids : \E i \in DOMAIN KeyOrder : KeyOrder[i] = p

ASSUME ServiceAssumption ==
    /\ Service \in Clients
    /\ ServiceLimits \in Limits
    /\ KernelUsages \subseteq Usages
    /\ KernelInit \in [global : Usages \cup {NoRecord}, process : [Pids -> Usages \cup {NoRecord}]]
    /\ {MaxRounds, MaxChanges, MaxSignals, MaxStarts} \subseteq Nat
    /\ ServiceCalls \in 0..MaxCalls

CollectorInit ==
    /\ ProcInit
    /\ deployed \in BOOLEAN
    /\ cpc = "down" /\ running = FALSE /\ mapped = {} /\ kernel = KernelInit /\ key = 0
    /\ rounds = 0 /\ changes = 0 /\ signals = 0 /\ starts = 0
    /\ seen = Unseen /\ throughout = {} /\ visited = {} /\ own = {}

GoTo(l) == cpc' = l

(* The call of the region that the collector is about to make. *)
Begin(o) ==
    /\ call' = [call EXCEPT ![Service] = o]
    /\ Goto(Service, "spin")
    /\ UNCHANGED <<regionVars, shm_lock, version, slot, todo, got, calls, committed, inits, published>>

(* Processes that other clients are reporting on. *)
Reporting(f) == {f[c].p : c \in {d \in Clients \ {Service} : f[d].f = "process"}}

-----------------------------------------------------------------------------
(* main: the handlers of signals are installed; initialize_service begins   *)
(* with shm_init.                                                           *)
Start ==
    /\ deployed /\ cpc = "down" /\ starts < MaxStarts
    /\ starts' = starts + 1
    /\ running' = TRUE
    /\ GoTo("init")
    /\ UNCHANGED <<procVars, deployed, mapped, kernel, key, rounds, changes, signals, roundVars>>

(* The environment's limits, or the built in ones, are published. *)
PublishLimits ==
    /\ cpc = "init" /\ pc[Service] = "idle"
    /\ Begin([f |-> "limits", u |-> ServiceLimits])
    /\ GoTo("open")
    /\ UNCHANGED <<deployed, running, mapped, kernel, key, boundVars, roundVars>>

(* A map that is not there is done without; then the thread is created, or  *)
(* the service ends.                                                        *)
OpenMaps ==
    /\ cpc = "open" /\ pc[Service] = "idle"
    /\ \/ \E m \in SUBSET Maps : mapped' = m /\ GoTo("loop") /\ UNCHANGED pc
       \/ GoTo("down") /\ Goto(Service, "detached") /\ UNCHANGED mapped
    /\ UNCHANGED <<regionVars, shm_lock, version, call, slot, todo, got, calls, committed, inits, published,
                   deployed, running, kernel, key, boundVars, roundVars>>

signal_handler ==
    /\ deployed /\ cpc # "down" /\ signals < MaxSignals
    /\ running' = FALSE
    /\ signals' = signals + 1
    /\ UNCHANGED <<procVars, deployed, cpc, mapped, kernel, key, rounds, changes, starts, roundVars>>

(* sync_thread_func: while (running) a round and a sleep. *)
Loop ==
    /\ cpc = "loop"
    /\ \/ ~running /\ GoTo("exit") /\ UNCHANGED <<rounds, roundVars>>
       \/ /\ running /\ rounds < MaxRounds
          /\ rounds' = rounds + 1
          /\ GoTo("global")
          /\ seen' = [global |-> {kernel.global},
                      process |-> [p \in Pids |-> {kernel.process[p]} \ {NoRecord}]]
          /\ throughout' = InMap
          /\ own' = Reporting(call)
          /\ UNCHANGED visited
    /\ UNCHANGED <<procVars, deployed, running, mapped, kernel, key, changes, signals, starts>>

(* sync_ebpf_data_to_shared_memory: the global counts, if they can be read. *)
CopyGlobal ==
    /\ cpc = "global"
    /\ IF "global" \in mapped /\ kernel.global # NoRecord
       THEN Begin([f |-> "global", u |-> kernel.global])
       ELSE UNCHANGED procVars
    /\ GoTo("next")
    /\ UNCHANGED <<deployed, running, mapped, kernel, key, boundVars, roundVars>>

(* External: bpf_map_get_next_key yields the key after one that is in the   *)
(* map, and the first of all after one that is not (any more).              *)
Place(p) == CHOOSE i \in DOMAIN KeyOrder : KeyOrder[i] = p
bpf_map_get_next_key(k) ==
    LET after == {p \in InMap : k \in InMap => Place(p) > Place(k)} IN
    {p \in after : \A q \in after : Place(p) <= Place(q)}

(* The walk over the process map; at its end the round is over. *)
NextKey ==
    /\ cpc = "next" /\ pc[Service] = "idle"
    /\ \/ /\ "process" \in mapped
          /\ \E p \in bpf_map_get_next_key(key) : key' = p
          /\ GoTo("lookup")
       \/ /\ "process" \notin mapped \/ bpf_map_get_next_key(key) = {}
          /\ GoTo("sleep")
          /\ UNCHANGED key
    /\ UNCHANGED <<procVars, deployed, running, mapped, kernel, boundVars, roundVars>>

(* Variant: the walk ends at a key that has gone since. *)
CopyProcess_stops ==
    /\ cpc = "lookup"
    /\ IF key \in InMap
       THEN /\ Begin([f |-> "process", p |-> key, u |-> kernel.process[key]])
            /\ GoTo("next")
            /\ visited' = visited \cup {key}
       ELSE GoTo("sleep") /\ UNCHANGED <<procVars, visited>>
    /\ UNCHANGED <<deployed, running, mapped, kernel, key, boundVars, seen, throughout, own>>

(* The record of one process, unless it has left the map since.             *)
CopyProcess ==
    /\ cpc = "lookup"
    /\ IF key \in InMap
       THEN /\ Begin([f |-> "process", p |-> key, u |-> kernel.process[key]])
            /\ visited' = visited \cup {key}
       ELSE UNCHANGED <<procVars, visited>>
    /\ GoTo("next")
    /\ UNCHANGED <<deployed, running, mapped, kernel, key, boundVars, seen, throughout, own>>

Sleep ==
    /\ cpc = "sleep"
    /\ GoTo("loop")
    /\ key' = 0
    /\ seen' = Unseen /\ throughout' = {} /\ visited' = {} /\ own' = {}
    /\ UNCHANGED <<procVars, deployed, running, mapped, kernel, boundVars>>

(* Main has seen the flag, joins the thread, closes the maps and returns;   *)
(* the region stays.                                                        *)
cleanup_service ==
    /\ cpc = "exit"
    /\ GoTo("down") /\ Goto(Service, "detached")
    /\ mapped' = {}
    /\ UNCHANGED <<regionVars, shm_lock, version, call, slot, todo, got, calls, committed, inits, published,
                   deployed, running, kernel, key, boundVars, roundVars>>

(* What the collector does inside the region's functions. *)
InRegion ==
    /\ deployed
    /\ \/ cpc = "init" /\ (Attach(Service) \/ ClearGlobal(Service) \/ ResetSlot(Service)
                              \/ Stamp(Service))
       \/ Lock(Service) \/ Scan(Service) \/ Claim(Service) \/ WriteField(Service)
       \/ Bump(Service) \/ Unlock(Service)
    /\ UNCHANGED <<serviceVars, boundVars, roundVars>>

ServiceStep ==
    \/ PublishLimits \/ OpenMaps \/ Loop \/ CopyGlobal \/ NextKey \/ CopyProcess \/ Sleep
    \/ cleanup_service \/ InRegion

-----------------------------------------------------------------------------
(* External: the kernel counts. *)
KernelCounts ==
    /\ deployed /\ changes < MaxChanges
    /\ changes' = changes + 1
    /\ \/ \E u \in KernelUsages \cup {NoRecord} :
            /\ kernel' = [kernel EXCEPT !.global = u]
            /\ seen' = IF InRound THEN [seen EXCEPT !.global = @ \cup {u}] ELSE seen
            /\ UNCHANGED throughout
       \/ \E p \in Pids, u \in KernelUsages \cup {NoRecord} :
            /\ kernel' = [kernel EXCEPT !.process[p] = u]
            /\ seen' = IF InRound THEN [seen EXCEPT !.process[p] = @ \cup ({u} \ {NoRecord})]
                       ELSE seen
            /\ throughout' = IF u = NoRecord THEN throughout \ {p} ELSE throughout
    /\ UNCHANGED <<procVars, deployed, cpc, running, mapped, key, rounds, signals, starts, visited, own>>

(* The other clients: hooked processes and policy tools, which write no     *)
(* global counts when there is a collector.                                 *)
OtherStep(c) ==
    /\ c # Service \/ ~deployed
    /\ Step(c)
    /\ deployed /\ pc[c] = "idle" => calls < ServiceCalls /\ call'[c].f # "global"
    /\ own' = IF InRound THEN own \cup Reporting(call') ELSE own
    /\ UNCHANGED <<serviceVars, boundVars, seen, throughout, visited>>

CollectorNext ==
    \/ Start \/ signal_handler \/ ServiceStep \/ KernelCounts
    \/ \E c \in Clients : OtherStep(c)

(* Threads run on, and sleeps end; nobody is obliged to begin a call.       *)
CollectorSpec ==
    /\ CollectorInit /\ [][CollectorNext]_collectorVars
    /\ WF_collectorVars(ServiceStep)
    /\ \A c \in Clients : WF_collectorVars(pc[c] # "idle" /\ OtherStep(c))

-----------------------------------------------------------------------------
(* After a round the region tells of the kernel, as long as one client      *)
(* alone initialised it: its global counts are ones the map held in that    *)
(* round, if it held any throughout; every process that stayed in the map   *)
(* all the while was copied, though others came and went under the walk;    *)
(* and its record is one the map held, unless somebody else reported on it. *)
RoundTrue ==
    Sole /\ cpc = "sleep" =>
        /\ "global" \in mapped /\ NoRecord \notin seen.global => global_stats \in seen.global
        /\ "process" \in mapped => throughout \subseteq visited
        /\ \A p \in visited \ own : Region.records[p] \in seen.process[p] \cup {NoRecord}

(* A collector that was told to stop stops, though it may be anywhere in    *)
(* its start or in a round, and shares a spin lock with other processes, as *)
(* long as one client alone initialised the region.                         *)
ServiceStops == []Sole => []<>(cpc # "down" => running)
=============================================================================
