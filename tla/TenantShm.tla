------------------------------ MODULE TenantShm ------------------------------
(***************************************************************************)
(* The tenant table that every RDMA process, the command line tool and the *)
(* daemon share (shm/shared_memory_tenant.c): tenants[], pid_mappings[] and *)
(* the two global counters.  Every function of the API does its work with  *)
(* tenant_shm_lock held, so here one call is one step; TenantShmSync has   *)
(* the lock, the scans and the version counter.  A call that returns -1    *)
(* leaves the table as it was: it is a stuttering step.  Names, timestamps *)
(* and messages are left out.                                              *)
(***************************************************************************)
EXTENDS Integers, FiniteSets

CONSTANTS
    MaxTenants,    \* MAX_TENANTS, the length of tenants[]
    MaxProcesses,  \* MAX_PROCESSES, the length of pid_mappings[] and processes[]
    Pids,          \* the pids that callers pass
    QuotaArgs,     \* the quotas that callers pass
    DefaultQuota,  \* what tenant_create installs for a NULL quota
    UsageArgs,     \* the usage records that callers pass
    StatusArgs,    \* the states that callers of tenant_set_status pass
    Word           \* 2^32, the modulus of a uint32_t

TenantIds == 0..(MaxTenants - 1)
Slots     == 0..(MaxProcesses - 1)
Status    == {"INACTIVE", "ACTIVE", "SUSPENDED"}

(* What a quota limits, and what of it the usage record also totals. *)
Resources == {"QP", "MR", "Memory", "CQ", "PD"}
Totalled  == {"QP", "MR"}

Quota == [Resources -> Nat]
Usage == [count : [Resources -> Int],
          made  : [Totalled -> Nat],    \* total_qp_creates,  total_mr_regs
          freed : [Totalled -> Nat]]    \* total_qp_destroys, total_mr_deregs

ZeroUsage == [count |-> [r \in Resources |-> 0],
              made  |-> [r \in Totalled |-> 0],
              freed |-> [r \in Totalled |-> 0]]

(* A mapping slot; pid 0 marks an empty one. *)
Mapping   == [pid : Pids \cup {0}, tenant_id : TenantIds]
EmptySlot == [pid |-> 0, tenant_id |-> 0]

ASSUME SizeAssumption ==
    /\ MaxTenants \in Nat \ {0}
    /\ MaxProcesses \in Nat \ {0}
    /\ Word \in Nat
    /\ MaxTenants < Word
    /\ MaxProcesses < Word

ASSUME ArgAssumption ==
    /\ QuotaArgs \subseteq Quota
    /\ DefaultQuota \in Quota
    /\ UsageArgs \subseteq Usage

(* Only tenant_delete retires a tenant: no caller in the tree passes      *)
(* TENANT_STATUS_INACTIVE to tenant_set_status.                           *)
ASSUME StatusAssumption == StatusArgs \subseteq {"ACTIVE", "SUSPENDED"}

VARIABLES
    status, quota, usage,        \* tenants[t].status, .quota, .usage
    process_count, processes,    \* tenants[t].process_count, .processes[]
    pid_mappings,                \* the process to tenant mapping
    active_tenant_count, total_process_count

tenantVars  == <<status, quota, usage>>
bindingVars == <<process_count, processes, pid_mappings, total_process_count>>
tableVars   == <<tenantVars, bindingVars, active_tenant_count>>

(* uint32_t arithmetic, for a sum or difference less than one Word away. *)
Wrap(n) == IF n < 0 THEN n + Word ELSE IF n >= Word THEN n - Word ELSE n

EmptyList == [j \in Slots |-> 0]

(* A freshly initialised region: memset to zero. *)
TableInit ==
    /\ status = [t \in TenantIds |-> "INACTIVE"]
    /\ quota = [t \in TenantIds |-> [r \in Resources |-> 0]]
    /\ usage = [t \in TenantIds |-> ZeroUsage]
    /\ process_count = [t \in TenantIds |-> 0]
    /\ processes = [t \in TenantIds |-> EmptyList]
    /\ pid_mappings = [i \in Slots |-> EmptySlot]
    /\ active_tenant_count = 0
    /\ total_process_count = 0

-----------------------------------------------------------------------------
(* Scans.  Slot i is the first whose pid is p; p = 0 finds an empty slot.  *)
FirstSlot(i, p) ==
    /\ pid_mappings[i].pid = p
    /\ \A j \in 0..(i - 1) : pid_mappings[j].pid # p

Unmapped(p) == \A i \in Slots : pid_mappings[i].pid # p

(* The first entry of t's process list that holds old becomes new; a list  *)
(* that holds no such entry stays as it is.                                *)
ReplaceFirst(t, old, new) ==
    \/ \E j \in Slots :
         /\ processes[t][j] = old
         /\ \A k \in 0..(j - 1) : processes[t][k] # old
         /\ processes' = [processes EXCEPT ![t][j] = new]
    \/ /\ \A j \in Slots : processes[t][j] # old
       /\ UNCHANGED processes

-----------------------------------------------------------------------------
(* The API, one action per function that writes the table. *)

tenant_create(t, q) ==
    /\ t # 0 /\ t < MaxTenants
    /\ status[t] = "INACTIVE"
    /\ status' = [status EXCEPT ![t] = "ACTIVE"]
    /\ quota' = [quota EXCEPT ![t] = q]
    /\ usage' = [usage EXCEPT ![t] = ZeroUsage]
    /\ process_count' = [process_count EXCEPT ![t] = 0]
    /\ processes' = [processes EXCEPT ![t] = EmptyList]
    /\ active_tenant_count' = Wrap(active_tenant_count + 1)
    /\ UNCHANGED <<pid_mappings, total_process_count>>

SlotsOf(t) == {i \in Slots : pid_mappings[i].tenant_id = t}

(* Variant: the number of processes stays. *)
tenant_delete_keeps_total(t) ==
    /\ t # 0 /\ t < MaxTenants /\ status[t] # "INACTIVE"
    /\ pid_mappings' = [i \in Slots |->
                          IF i \in SlotsOf(t) THEN EmptySlot ELSE pid_mappings[i]]
    /\ status' = [status EXCEPT ![t] = "INACTIVE"]
    /\ active_tenant_count' = Wrap(active_tenant_count - 1)
    /\ UNCHANGED <<quota, usage, process_count, processes, total_process_count>>

tenant_delete(t) ==
    /\ t # 0 /\ t < MaxTenants
    /\ status[t] # "INACTIVE"
    /\ pid_mappings' = [i \in Slots |->
                          IF i \in SlotsOf(t) THEN EmptySlot ELSE pid_mappings[i]]
    /\ total_process_count' = Wrap(total_process_count - Cardinality(SlotsOf(t)))
    /\ status' = [status EXCEPT ![t] = "INACTIVE"]
    /\ process_count' = [process_count EXCEPT ![t] = 0]
    /\ active_tenant_count' = Wrap(active_tenant_count - 1)
    /\ UNCHANGED <<quota, usage, processes>>

tenant_set_status(t, s) ==
    /\ t < MaxTenants
    /\ status[t] # "INACTIVE"
    /\ status' = [status EXCEPT ![t] = s]
    /\ UNCHANGED <<quota, usage, bindingVars, active_tenant_count>>

tenant_update_quota(t, q) ==
    /\ t < MaxTenants
    /\ status[t] # "INACTIVE"
    /\ quota' = [quota EXCEPT ![t] = q]
    /\ UNCHANGED <<status, usage, bindingVars, active_tenant_count>>

(* tenant_bind_process for a pid that has a mapping: only the mapping moves. *)
RebindProcess(p, t) ==
    /\ \E i \in Slots :
         /\ FirstSlot(i, p)
         /\ pid_mappings' = [pid_mappings EXCEPT ![i] = [pid |-> p, tenant_id |-> t]]
    /\ UNCHANGED <<process_count, processes, total_process_count>>

(* Variant: the scan stops at the first empty slot. *)
BindNewProcess_first_empty(p, t) ==
    /\ \E i \in Slots :
         /\ FirstSlot(i, 0)
         /\ pid_mappings' = [pid_mappings EXCEPT ![i] = [pid |-> p, tenant_id |-> t]]
    /\ total_process_count' = Wrap(total_process_count + 1)
    /\ UNCHANGED <<process_count, processes>>

(* tenant_bind_process for a pid without one: it takes the first empty slot. *)
BindNewProcess(p, t) ==
    /\ Unmapped(p)
    /\ \E i \in Slots :
         /\ FirstSlot(i, 0)
         /\ pid_mappings' = [pid_mappings EXCEPT ![i] = [pid |-> p, tenant_id |-> t]]
    /\ process_count' = [process_count EXCEPT ![t] = Wrap(process_count[t] + 1)]
    /\ total_process_count' = Wrap(total_process_count + 1)
    /\ ReplaceFirst(t, 0, p)

(* Variant: a suspended tenant still takes processes. *)
tenant_bind_process_suspended(p, t) ==
    /\ t < MaxTenants
    /\ status[t] # "INACTIVE"
    /\ RebindProcess(p, t) \/ BindNewProcess(p, t)
    /\ UNCHANGED <<tenantVars, active_tenant_count>>

tenant_bind_process(p, t) ==
    /\ t < MaxTenants
    /\ status[t] = "ACTIVE"
    /\ RebindProcess(p, t) \/ BindNewProcess(p, t)
    /\ UNCHANGED <<tenantVars, active_tenant_count>>

(* Decrement that stops at zero. *)
Less1(n) == IF n > 0 THEN n - 1 ELSE n

tenant_unbind_process(p) ==
    /\ \E i \in Slots :
         LET t == pid_mappings[i].tenant_id IN
         /\ FirstSlot(i, p)
         /\ ReplaceFirst(t, p, 0)
         /\ process_count' = [process_count EXCEPT ![t] = Less1(process_count[t])]
         /\ pid_mappings' = [pid_mappings EXCEPT ![i] = EmptySlot]
    /\ total_process_count' = Less1(total_process_count)
    /\ UNCHANGED <<tenantVars, active_tenant_count>>

tenant_update_resource_usage(t, u) ==
    /\ t < MaxTenants
    /\ status[t] = "ACTIVE"
    /\ usage' = [usage EXCEPT ![t] = u]
    /\ UNCHANGED <<status, quota, bindingVars, active_tenant_count>>

-----------------------------------------------------------------------------
(* The functions that only read. *)

(* tenant_get_process_tenant: the tenant p is mapped to, 0 when it is not. *)
(* The scan takes the first slot of p, which BindingsUnique makes the only.*)
tenant_get_process_tenant(p) ==
    IF Unmapped(p) THEN 0
    ELSE pid_mappings[CHOOSE i \in Slots : pid_mappings[i].pid = p].tenant_id

-----------------------------------------------------------------------------
TenantArgs == 0..MaxTenants

TableNext ==
    \/ \E t \in TenantArgs, q \in QuotaArgs \cup {DefaultQuota} : tenant_create(t, q)
    \/ \E t \in TenantArgs : tenant_delete(t)
    \/ \E t \in TenantArgs, s \in StatusArgs : tenant_set_status(t, s)
    \/ \E t \in TenantArgs, q \in QuotaArgs : tenant_update_quota(t, q)
    \/ \E p \in Pids, t \in TenantArgs : tenant_bind_process(p, t)
    \/ \E p \in Pids : tenant_unbind_process(p)
    \/ \E t \in TenantArgs, u \in UsageArgs : tenant_update_resource_usage(t, u)

TableSpec == TableInit /\ [][TableNext]_tableVars

-----------------------------------------------------------------------------
(* The table has the shape its C types give it. *)
TableTypeOK ==
    /\ status \in [TenantIds -> Status]
    /\ quota \in [TenantIds -> Quota]
    /\ usage \in [TenantIds -> Usage]
    /\ process_count \in [TenantIds -> Nat]
    /\ processes \in [TenantIds -> [Slots -> Pids \cup {0}]]
    /\ pid_mappings \in [Slots -> Mapping]
    /\ active_tenant_count \in 0..(Word - 1)
    /\ total_process_count \in 0..(Word - 1)

Occupied == {i \in Slots : pid_mappings[i].pid # 0}
Existing == {t \in TenantIds : status[t] # "INACTIVE"}

(* A process belongs to at most one tenant: the scan of tenant_bind_process *)
(* never leaves a pid in two slots, however bind, unbind and delete free    *)
(* slots in front of the one the pid is in.                                 *)
BindingsUnique ==
    \A i, j \in Occupied : pid_mappings[i].pid = pid_mappings[j].pid => i = j

(* A bound process belongs to a tenant that exists, never to tenant 0 and   *)
(* never to one that tenant_delete has retired; an empty slot names nobody. *)
BindingsLive ==
    \A i \in Slots : IF i \in Occupied THEN pid_mappings[i].tenant_id \in Existing \ {0}
                                       ELSE pid_mappings[i] = EmptySlot

(* Both hold after every sequence of calls, in a table of the shape its C   *)
(* types give it: of bindings a reader sees the only one of a process, and  *)
(* it leads to a tenant.                                                    *)
BindingsSound == TableTypeOK /\ BindingsUnique /\ BindingsLive

(* total_process_count is the number of mapped processes, through rebinding *)
(* and through a delete that unbinds many at once; it never wraps.          *)
TotalCountsBindings == total_process_count = Cardinality(Occupied)

(* active_tenant_count is the number of tenants that exist; it never wraps. *)
ActiveCountsTenants == active_tenant_count = Cardinality(Existing)

(* Both counters of the region are exact after every sequence of calls. *)
CountersMatch == TotalCountsBindings /\ ActiveCountsTenants

(* Tenant 0 stands for "no tenant": nothing ever activates it. *)
DefaultTenantInactive == status[0] = "INACTIVE"

(* The inductive invariant of the proofs. *)
TableInv ==
    /\ TableTypeOK
    /\ DefaultTenantInactive
    /\ BindingsUnique
    /\ BindingsLive
    /\ TotalCountsBindings
    /\ ActiveCountsTenants

(* A tenant that is not ACTIVE admits nobody: while it is suspended, and in *)
(* the step that retires it, no process becomes a member of it.             *)
Members(t) == {p \in Pids \ {0} : \E i \in Slots : pid_mappings[i] = [pid |-> p, tenant_id |-> t]}
SuspendedAdmitsNobody ==
    [][\A t \in TenantIds : status[t] # "ACTIVE" => Members(t)' \subseteq Members(t)]_tableVars
=============================================================================
