----------------------------- MODULE TenantHooks -----------------------------
(***************************************************************************)
(* The intercepted verbs (rdma_hooks_tenant.c) of several processes and    *)
(* threads over the shared tenant table.  A call of the table's API is one *)
(* step (TenantShmSync shows that it may be); everything a hook does       *)
(* between two such calls may interleave with other threads, processes and *)
(* the administrator.  Interception is enabled and the table is mapped.    *)
(***************************************************************************)
EXTENDS TenantShm, FiniteSetsExt

CONSTANTS
    Threads, ProcOf,    \* the threads, and the pid of each
    EnvTenant,          \* RDMA_TENANT_ID of each process, 0 when unset
    Ops,                \* the verbs that each thread calls
    AdminOps,           \* what administrators and the environment do
    AdminTenants, AdminPids, \* and to whom: the others are left in peace
    InitQuota,          \* quota of the tenants that exist at the start
    MRLength,           \* length of a memory region
    EnableQpControl,    \* g_intercept_state.config.enable_qp_control
    ProcShmMapped,      \* whether the process statistics region is mapped
    QpTypes,            \* the types of QP that applications ask for
    AllowedTypes,       \* those allow_rc_qp, allow_uc_qp and allow_ud_qp let through
    MaxQpPerProcess,    \* ... .max_qp_per_process
    MaxGlobalQp,        \* ... .max_global_qp
    GlobalReadings,     \* external: values of global_stats.qp_count a read may see
    MaxOps              \* bound: verbs called in a behaviour

Creates == {"create_qp", "reg_mr", "create_cq", "alloc_pd"}
Frees   == {"destroy_qp", "dereg_mr", "destroy_cq", "dealloc_pd"}
Kinds   == {"QP", "MR", "CQ", "PD"}

Kind(o) == CASE o \in {"create_qp", "destroy_qp"} -> "QP"
             [] o \in {"reg_mr", "dereg_mr"}      -> "MR"
             [] o \in {"create_cq", "destroy_cq"} -> "CQ"
             [] OTHER                             -> "PD"

ASSUME HooksAssumption ==
    /\ ProcOf \in [Threads -> Pids]
    /\ EnvTenant \in [Pids -> Nat]
    /\ Ops \in [Threads -> SUBSET (Creates \cup Frees)]
    /\ AdminTenants \subseteq TenantIds \ {0} /\ AdminPids \subseteq Pids
    /\ InitQuota \in Quota
    /\ MRLength \in Nat /\ MaxQpPerProcess \in Nat /\ MaxGlobalQp \in Nat /\ MaxOps \in Nat
    /\ GlobalReadings \subseteq Nat

VARIABLES
    started,                        \* hooks_init_once of each process
    qp_count, mr_count, memory_used,\* g_intercept_state of each process
    slot_qp,                        \* qp_count of the process's record in the process region
    handles,                        \* objects of each kind whose handle the application has
    tpc, op,                        \* where each thread is, in which verb
    tid, info, reg,                 \* its tenant id, its copy of usage and quota, of qp_count
    why,                            \* which limit refused the call
    ops                             \* verbs called so far

localVars  == <<qp_count, mr_count, memory_used>>
threadVars == <<tpc, op, tid, info, reg, why>>
hooksVars  == <<tableVars, started, localVars, slot_qp, handles, threadVars, ops>>

NoInfo == [usage |-> ZeroUsage, quota |-> InitQuota]
Tenants == TenantIds \ {0}

(* The administrator has created the tenants; no process has called a verb. *)
HooksInit ==
    /\ status = [t \in TenantIds |-> IF t = 0 THEN "INACTIVE" ELSE "ACTIVE"]
    /\ quota = [t \in TenantIds |-> IF t = 0 THEN [r \in Resources |-> 0] ELSE InitQuota]
    /\ usage = [t \in TenantIds |-> ZeroUsage]
    /\ process_count = [t \in TenantIds |-> 0]
    /\ processes = [t \in TenantIds |-> EmptyList]
    /\ pid_mappings = [i \in Slots |-> EmptySlot]
    /\ active_tenant_count = MaxTenants - 1
    /\ total_process_count = 0
    /\ started = [p \in Pids |-> FALSE]
    /\ qp_count = [p \in Pids |-> 0]
    /\ mr_count = [p \in Pids |-> 0]
    /\ memory_used = [p \in Pids |-> 0]
    /\ slot_qp = [p \in Pids |-> 0]
    /\ handles = [p \in Pids |-> [k \in Kinds |-> 0]]
    /\ tpc = [h \in Threads |-> "idle"]
    /\ op = [h \in Threads |-> "none"]
    /\ tid = [h \in Threads |-> 0]
    /\ info = [h \in Threads |-> NoInfo]
    /\ reg = [h \in Threads |-> 0]
    /\ why = [h \in Threads |-> "none"]
    /\ ops = 0

Goto(h, l) == tpc' = [tpc EXCEPT ![h] = l]

-----------------------------------------------------------------------------
(* init_function_pointers, once per process: a bind that fails is ignored.  *)
InitHooks(p) ==
    LET t == EnvTenant[p] IN
    /\ ~started[p]
    /\ started' = [started EXCEPT ![p] = TRUE]
    /\ \/ t > 0 /\ tenant_bind_process(p, t)
       \/ /\ \/ t = 0
             \/ t >= MaxTenants
             \/ status[t] # "ACTIVE"
             \/ Unmapped(p) /\ Unmapped(0)
          /\ UNCHANGED tableVars
    /\ UNCHANGED <<localVars, slot_qp, handles, threadVars, ops>>

Refuse(h, w) == Goto(h, "denied") /\ why' = [why EXCEPT ![h] = w]

(* A verb is called; to free an object the application gives up its handle. *)
(* With QP control on, a QP of a type that is not allowed is refused.       *)
CallVerb(h, o) ==
    LET p == ProcOf[h]
        checked == o = "create_qp" /\ EnableQpControl IN
    /\ tpc[h] = "idle" /\ started[p] /\ ops < MaxOps
    /\ ops' = ops + 1
    /\ op' = [op EXCEPT ![h] = o]
    /\ \/ /\ o \in Creates
          /\ \E type \in QpTypes :
               IF checked /\ type \notin AllowedTypes
               THEN Refuse(h, "type")
               ELSE Goto(h, IF checked \/ o = "reg_mr" THEN "tenant" ELSE "real") /\ UNCHANGED why
          /\ UNCHANGED handles
       \/ /\ o \in Frees
          /\ handles[p][Kind(o)] > 0
          /\ handles' = [handles EXCEPT ![p][Kind(o)] = @ - 1]
          /\ Goto(h, "real")
          /\ UNCHANGED why
    /\ UNCHANGED <<tableVars, started, localVars, slot_qp, tid, info, reg>>

(* get_current_tenant_id before the check; tenant 0 is not limited.         *)
AfterCheck(h) == IF op[h] = "create_qp" THEN "process" ELSE "real"

GetTenant(h) ==
    LET t == tenant_get_process_tenant(ProcOf[h]) IN
    /\ tpc[h] = "tenant"
    /\ tid' = [tid EXCEPT ![h] = t]
    /\ Goto(h, IF t = 0 THEN AfterCheck(h) ELSE "info")
    /\ UNCHANGED <<tableVars, started, localVars, slot_qp, handles, op, info, reg, why, ops>>

(* tenant_get_info: the copy is made under the lock, the result taken from  *)
(* the status read after it.                                                *)
GetInfo(h) ==
    /\ tpc[h] = "info"
    /\ info' = [info EXCEPT ![h] = [usage |-> usage[tid[h]], quota |-> quota[tid[h]]]]
    /\ Goto(h, "limit")
    /\ UNCHANGED <<tableVars, started, localVars, slot_qp, handles, op, tid, reg, why, ops>>

(* Variants: the limit is one too high; one too low. *)
OverLimit_late(o, i)  == i.usage.count[Kind(o)] > i.quota[Kind(o)]
OverLimit_early(o, i) == i.usage.count[Kind(o)] + 1 >= i.quota[Kind(o)]

(* check_tenant_qp_limit and check_tenant_mr_limit_inline: a negative count *)
(* is cast to a large unsigned one; a memory quota of 0 is no limit.        *)
OverLimit(o, i) ==
    \/ Wrap(i.usage.count[Kind(o)]) >= i.quota[Kind(o)]
    \/ /\ o = "reg_mr" /\ i.quota["Memory"] > 0
       /\ i.usage.count["Memory"] + MRLength > i.quota["Memory"]

CheckTenantLimit(h) ==
    /\ tpc[h] = "limit"
    /\ IF status[tid[h]] = "INACTIVE" \/ OverLimit(op[h], info[h])
       THEN Refuse(h, "tenant")
       ELSE Goto(h, AfterCheck(h)) /\ UNCHANGED why
    /\ info' = [info EXCEPT ![h] = NoInfo]
    /\ UNCHANGED <<tableVars, started, localVars, slot_qp, handles, op, tid, reg, ops>>

(* The rest of check_qp_creation_restrictions reads the process region.     *)
CheckProcessLimit(h) ==
    /\ tpc[h] = "process"
    /\ IF ProcShmMapped /\ slot_qp[ProcOf[h]] + 1 > MaxQpPerProcess
       THEN Refuse(h, "process")
       ELSE Goto(h, "global") /\ UNCHANGED why
    /\ UNCHANGED <<tableVars, started, localVars, slot_qp, handles, op, tid, info, reg, ops>>

CheckGlobalLimit(h) ==
    /\ tpc[h] = "global"
    /\ \E g \in GlobalReadings :
         IF ProcShmMapped /\ g >= MaxGlobalQp
         THEN Refuse(h, "global")
         ELSE Goto(h, "real") /\ UNCHANGED why
    /\ UNCHANGED <<tableVars, started, localVars, slot_qp, handles, op, tid, info, reg, ops>>

-----------------------------------------------------------------------------
(* The real verb: it may fail, and then nothing is counted.                 *)
RealVerb(h) ==
    LET p == ProcOf[h] IN
    /\ tpc[h] = "real"
    /\ \/ /\ Goto(h, IF Kind(op[h]) \in {"QP", "MR"} THEN "local" ELSE "tenant2")
          /\ UNCHANGED <<handles, op, tid>>
       \/ /\ Goto(h, "idle")
          /\ op' = [op EXCEPT ![h] = "none"]
          /\ tid' = [tid EXCEPT ![h] = 0]
          /\ handles' = [handles EXCEPT ![p][Kind(op[h])] = IF op[h] \in Frees THEN @ + 1 ELSE @]
    /\ UNCHANGED <<tableVars, started, localVars, slot_qp, info, reg, why, ops>>

(* Variant: the guard against going below zero is off by one. *)
CountLocally_keeps_last(h) ==
    LET p == ProcOf[h]
        Add(f, n) == f' = [f EXCEPT ![p] = @ + n]
        Sub(f, n) == f' = [f EXCEPT ![p] = IF @ > n THEN @ - n ELSE @] IN
    /\ tpc[h] = "local"
    /\ CASE op[h] = "create_qp"  -> Add(qp_count, 1) /\ UNCHANGED <<mr_count, memory_used>>
         [] op[h] = "destroy_qp" -> Sub(qp_count, 1) /\ UNCHANGED <<mr_count, memory_used>>
         [] OTHER                -> UNCHANGED localVars
    /\ Goto(h, "tenant2")
    /\ UNCHANGED <<tableVars, started, slot_qp, handles, op, tid, info, reg, why, ops>>

(* The counters of the process, under resource_mutex.                       *)
CountLocally(h) ==
    LET p == ProcOf[h]
        Add(f, n) == f' = [f EXCEPT ![p] = @ + n]
        Sub(f, n) == f' = [f EXCEPT ![p] = IF @ >= n THEN @ - n ELSE @] IN
    /\ tpc[h] = "local"
    /\ CASE op[h] = "create_qp"  -> Add(qp_count, 1) /\ UNCHANGED <<mr_count, memory_used>>
         [] op[h] = "destroy_qp" -> Sub(qp_count, 1) /\ UNCHANGED <<mr_count, memory_used>>
         [] op[h] = "reg_mr"     -> Add(mr_count, 1) /\ Add(memory_used, MRLength) /\ UNCHANGED qp_count
         [] op[h] = "dereg_mr"   -> Sub(mr_count, 1) /\ Sub(memory_used, MRLength) /\ UNCHANGED qp_count
    /\ Goto(h, CASE op[h] = "create_qp" -> "snapshot"
                 [] op[h] = "reg_mr" -> IF tid[h] = 0 THEN "return" ELSE "get"
                 [] OTHER -> "tenant2")
    /\ UNCHANGED <<tableVars, started, slot_qp, handles, op, tid, info, reg, why, ops>>

(* ibv_create_qp alone publishes the process's count: an unlocked read of   *)
(* it, then shm_update_process_resources.                                   *)
ReadLocal(h) ==
    /\ tpc[h] = "snapshot"
    /\ reg' = [reg EXCEPT ![h] = qp_count[ProcOf[h]]]
    /\ Goto(h, "publish")
    /\ UNCHANGED <<tableVars, started, localVars, slot_qp, handles, op, tid, info, why, ops>>

Publish(h) ==
    /\ tpc[h] = "publish"
    /\ slot_qp' = [slot_qp EXCEPT ![ProcOf[h]] = IF ProcShmMapped THEN reg[h] ELSE @]
    /\ reg' = [reg EXCEPT ![h] = 0]
    /\ Goto(h, "tenant2")
    /\ UNCHANGED <<tableVars, started, localVars, handles, op, tid, info, why, ops>>

(* get_current_tenant_id again, for the tenant to charge.                   *)
GetTenantToCharge(h) ==
    LET t == tenant_get_process_tenant(ProcOf[h]) IN
    /\ tpc[h] = "tenant2"
    /\ tid' = [tid EXCEPT ![h] = t]
    /\ Goto(h, IF t = 0 THEN "return" ELSE "get")
    /\ UNCHANGED <<tableVars, started, localVars, slot_qp, handles, op, info, reg, why, ops>>

(* Variants: the totals are left alone; an object that is freed stays       *)
(* charged.                                                                 *)
Charged_no_totals(u, o) ==
    [u EXCEPT !.count[Kind(o)] = IF o \in Creates THEN @ + 1 ELSE @ - 1]
Charged_never_refunds(u, o) ==
    [u EXCEPT !.count[Kind(o)] = IF o \in Creates THEN @ + 1 ELSE @]

(* update_tenant_resource_count: read the record, change it, write it back. *)
Charged(u, o) ==
    LET k == Kind(o)
        Tally(f, now) == [r \in Totalled |-> f[r] + (IF now /\ r = k THEN 1 ELSE 0)] IN
    [count |-> [u.count EXCEPT ![k] = IF o \in Creates THEN @ + 1 ELSE @ - 1],
     made  |-> Tally(u.made, o \in Creates),
     freed |-> Tally(u.freed, o \notin Creates)]

GetUsage(h) ==
    /\ tpc[h] = "get"
    /\ IF status[tid[h]] = "ACTIVE"
       THEN info' = [info EXCEPT ![h].usage = usage[tid[h]]] /\ Goto(h, "put")
       ELSE UNCHANGED info /\ Goto(h, "return")
    /\ UNCHANGED <<tableVars, started, localVars, slot_qp, handles, op, tid, reg, why, ops>>

PutUsage(h) ==
    /\ tpc[h] = "put"
    /\ \/ tenant_update_resource_usage(tid[h], Charged(info[h].usage, op[h]))
       \/ status[tid[h]] # "ACTIVE" /\ UNCHANGED tableVars
    /\ info' = [info EXCEPT ![h] = NoInfo]
    /\ Goto(h, "return")
    /\ UNCHANGED <<started, localVars, slot_qp, handles, op, tid, reg, why, ops>>

Return(h) ==
    LET p == ProcOf[h] IN
    /\ tpc[h] \in {"return", "denied"}
    /\ handles' = [handles EXCEPT ![p][Kind(op[h])] =
                     IF tpc[h] = "return" /\ op[h] \in Creates THEN @ + 1 ELSE @]
    /\ Goto(h, "idle")
    /\ op' = [op EXCEPT ![h] = "none"]
    /\ tid' = [tid EXCEPT ![h] = 0]
    /\ why' = [why EXCEPT ![h] = "none"]
    /\ UNCHANGED <<tableVars, started, localVars, slot_qp, info, reg, ops>>

-----------------------------------------------------------------------------
(* A process ends, wherever its threads are: the kernel frees its objects;  *)
(* its binding, its record and what its tenant was charged stay.  A later   *)
(* process may get the same pid.                                            *)
ExitProcess(p) ==
    LET mine == {h \in Threads : ProcOf[h] = p}
        Reset(f, v) == f' = [h \in Threads |-> IF h \in mine THEN v ELSE f[h]] IN
    /\ "exit" \in AdminOps /\ p \in AdminPids /\ started[p]
    /\ started' = [started EXCEPT ![p] = FALSE]
    /\ qp_count' = [qp_count EXCEPT ![p] = 0]
    /\ mr_count' = [mr_count EXCEPT ![p] = 0]
    /\ memory_used' = [memory_used EXCEPT ![p] = 0]
    /\ handles' = [handles EXCEPT ![p] = [k \in Kinds |-> 0]]
    /\ Reset(tpc, "idle") /\ Reset(op, "none") /\ Reset(tid, 0)
    /\ Reset(info, NoInfo) /\ Reset(reg, 0) /\ Reset(why, "none")
    /\ UNCHANGED <<tableVars, slot_qp, ops>>

(* The command line tool and the daemon. *)
Admin ==
    /\ \/ /\ "create" \in AdminOps
          /\ \E t \in AdminTenants, q \in QuotaArgs : tenant_create(t, q)
       \/ "delete" \in AdminOps /\ \E t \in AdminTenants : tenant_delete(t)
       \/ /\ "quota" \in AdminOps
          /\ \E t \in AdminTenants, q \in QuotaArgs : tenant_update_quota(t, q)
       \/ "status" \in AdminOps /\ \E t \in AdminTenants, s \in StatusArgs : tenant_set_status(t, s)
       \/ "bind" \in AdminOps /\ \E p \in AdminPids, t \in AdminTenants : tenant_bind_process(p, t)
       \/ "unbind" \in AdminOps /\ \E p \in AdminPids : tenant_unbind_process(p)
    /\ UNCHANGED <<started, localVars, slot_qp, handles, threadVars, ops>>

StepOf(h) ==
    \/ GetTenant(h) \/ GetInfo(h) \/ CheckTenantLimit(h)
    \/ CheckProcessLimit(h) \/ CheckGlobalLimit(h)
    \/ RealVerb(h) \/ CountLocally(h) \/ ReadLocal(h) \/ Publish(h)
    \/ GetTenantToCharge(h) \/ GetUsage(h) \/ PutUsage(h) \/ Return(h)

HooksNext ==
    \/ \E p \in Pids : InitHooks(p) \/ ExitProcess(p)
    \/ \E h \in Threads : StepOf(h) \/ \E o \in Ops[h] : CallVerb(h, o)
    \/ Admin

HooksSpec == HooksInit /\ [][HooksNext]_hooksVars

-----------------------------------------------------------------------------
ThreadsOf(p) == {h \in Threads : ProcOf[h] = p}

(* Objects of kind k that process p really holds: those the application has *)
(* a handle of, those a verb has made but not yet returned, and those a     *)
(* verb has not yet freed.                                                  *)
Held(p, k) ==
    handles[p][k]
    + Cardinality({h \in ThreadsOf(p) :
          \/ op[h] \in Creates /\ Kind(op[h]) = k
             /\ tpc[h] \in {"local", "snapshot", "publish", "tenant2", "get", "put", "return"}
          \/ op[h] \in Frees /\ Kind(op[h]) = k /\ tpc[h] = "real"})

MembersOf(t) == {p \in Pids : tenant_get_process_tenant(p) = t}
HeldByTenant(t, k) == MapThenSumSet(LAMBDA p : Held(p, k), MembersOf(t))
Quiet == Tenants \ AdminTenants    \* the tenants nobody administers
AtRest(t) == \A h \in Threads : ProcOf[h] \in MembersOf(t) => tpc[h] = "idle"

(* The arrangement in which check-then-charge is exact (README,             *)
(* "Conditions"): one process and one thread for each tenant that is left   *)
(* in peace, QPs are checked, and quotas are values of a uint32_t.          *)
QuietAlone ==
    /\ IsFiniteSet(Threads) /\ 0 \notin Pids /\ EnableQpControl = TRUE
    /\ InitQuota["QP"] < Word /\ InitQuota["MR"] < Word
    /\ \A p \in AdminPids : EnvTenant[p] \notin Quiet
    /\ \A p, q \in Pids : EnvTenant[p] \in Quiet /\ EnvTenant[p] = EnvTenant[q] => p = q
    /\ \A g, h \in Threads : EnvTenant[ProcOf[g]] \in Quiet /\ ProcOf[g] = ProcOf[h] => g = h

Labels == {"idle", "tenant", "info", "limit", "process", "global", "real", "local", "snapshot",
           "publish", "tenant2", "get", "put", "return", "denied"}

(* The hooks' state has the shape the code gives it. *)
HooksTypeOK ==
    /\ TableTypeOK
    /\ started \in [Pids -> BOOLEAN]
    /\ qp_count \in [Pids -> Nat] /\ mr_count \in [Pids -> Nat] /\ memory_used \in [Pids -> Nat]
    /\ slot_qp \in [Pids -> Nat]
    /\ handles \in [Pids -> [Kinds -> Nat]]
    /\ tpc \in [Threads -> Labels]
    /\ op \in [Threads -> Creates \cup Frees \cup {"none"}]
    /\ tid \in [Threads -> TenantIds]
    /\ info \in [Threads -> [usage : Usage, quota : Quota]]
    /\ reg \in [Threads -> Nat]
    /\ why \in [Threads -> {"none", "type", "tenant", "process", "global"}]

(* However many updates are lost to races, the count of QPs and MRs in a    *)
(* tenant's record is what its own totals say: the record is always written *)
(* as a whole, from a copy that agreed with itself.                         *)
TotalsAgree ==
    \A t \in TenantIds, r \in Totalled :
        usage[t].count[r] = usage[t].made[r] - usage[t].freed[r]

(* The process's own counters are exact under any interleaving of its       *)
(* threads: they differ from what it holds only by the calls that are at    *)
(* the mutex, and the guards against going below zero never lose a count.   *)
LocalCountsExact ==
    /\ HooksTypeOK
    /\ \A p \in Pids :
         LET Due(o) == Cardinality({h \in ThreadsOf(p) : op[h] = o /\ tpc[h] = "local"})
             mrs == Held(p, "MR") - Due("reg_mr") + Due("dereg_mr")
         IN /\ qp_count[p] = Held(p, "QP") - Due("create_qp") + Due("destroy_qp")
            /\ mr_count[p] = mrs
            /\ memory_used[p] = MRLength * mrs

(* A tenant whose processes are between calls is charged for exactly the    *)
(* objects they hold, whatever happens in other tenants (README,            *)
(* "Conditions": one thread per tenant, left in peace by administrators).   *)
CountExact ==
    \A t \in Quiet : status[t] = "ACTIVE" /\ AtRest(t)
        => \A k \in Kinds : usage[t].count[k] = HeldByTenant(t, k)

(* The processes of such a tenant never hold more QPs or MRs than its       *)
(* quota.                                                                   *)
QuotaRespected ==
    \A t \in Quiet : \A k \in {"QP", "MR"} : HeldByTenant(t, k) <= quota[t][k]

(* The tenant limit refuses its calls only when it is at its quota (or the  *)
(* region does not fit), never because of somebody else's objects.          *)
NoFalseRefusal ==
    \A h \in Threads : tpc[h] = "denied" /\ why[h] = "tenant" /\ tid[h] \in Quiet =>
        \/ HeldByTenant(tid[h], Kind(op[h])) >= quota[tid[h]][Kind(op[h])]
        \/ op[h] = "reg_mr" /\ MRLength > quota[tid[h]]["Memory"] /\ quota[tid[h]]["Memory"] > 0
=============================================================================
