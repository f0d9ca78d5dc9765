---------------------------- MODULE ProcessRecords ----------------------------
(***************************************************************************)
(* What the process statistics region (shm/shared_memory.h) promises: one  *)
(* usage record per process that ever reported, up to MAX_PROCESSES of     *)
(* them, a global record and the global limits, each replaced as a whole.  *)
(***************************************************************************)
EXTENDS Naturals, FiniteSets

CONSTANTS
    MaxProcesses,   \* MAX_PROCESSES, the length of process_pids[]
    Pids,           \* the pids that callers pass
    Fields,         \* the fields of a resource_usage_t
    Usages,         \* the usage records that callers pass
    Limits,         \* the limits that callers of shm_set_global_limits pass
    DefaultLimits   \* what shm_init installs

Usage == [Fields -> Nat]
Zero  == [f \in Fields |-> 0]
NoRecord == [f \in {} |-> 0]

VARIABLES records, global, limits, version
recordsVars == <<records, global, limits, version>>

Reported == {p \in Pids : records[p] # NoRecord}

RecordsInit ==
    /\ records = [p \in Pids |-> NoRecord]
    /\ global = Zero /\ limits = Zero /\ version = 0

Initialise ==
    /\ version = 0
    /\ limits' = DefaultLimits /\ version' = 1
    /\ UNCHANGED <<records, global>>

(* shm_update_process_resources: fails for a new process when there are     *)
(* MaxProcesses records; a record is never given up.                        *)
PutProcess(p, u) ==
    /\ p \in Reported \/ Cardinality(Reported) < MaxProcesses
    /\ records' = [records EXCEPT ![p] = u]
    /\ version' = version + 1
    /\ UNCHANGED <<global, limits>>

PutGlobal(u) ==
    /\ global' = u
    /\ version' = version + 1
    /\ UNCHANGED <<records, limits>>

SetLimits(l) ==
    /\ limits' = l
    /\ UNCHANGED <<records, global, version>>

RecordsNext ==
    \/ Initialise
    \/ \E p \in Pids, u \in Usages : PutProcess(p, u)
    \/ \E u \in Usages : PutGlobal(u)
    \/ \E l \in Limits : SetLimits(l)

RecordsSpec == RecordsInit /\ [][RecordsNext]_recordsVars
=============================================================================
