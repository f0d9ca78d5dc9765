-------------------------- MODULE TenantUsers_proofs --------------------------
(***************************************************************************)
(* Proofs about the two users of the tenant table, each as if the other     *)
(* were not there: the hooks first, the daemon after them.                  *)
(***************************************************************************)
EXTENDS TenantHooks, TenantDaemon, TenantShm_proofs

-----------------------------------------------------------------------------
(***************************************************************************)
(* The hooks, for any number of processes and threads, any verbs and any    *)
(* administrator: the table's invariant, that a tenant's record agrees with *)
(* itself although updates are lost, and that each process's own counters   *)
(* are exact.                                                               *)
(***************************************************************************)

Agrees(u) == \A r \in Totalled : u.count[r] = u.made[r] - u.freed[r]

(* The parts of a thread's state that flow into the table. *)
ThreadTypes ==
    /\ tid \in [Threads -> TenantIds]
    /\ info \in [Threads -> [usage : Usage, quota : Quota]]

(* Records in the table, and copies of them on their way back, agree.       *)
RecordsAgree ==
    /\ \A t \in TenantIds : Agrees(usage[t])
    /\ \A h \in Threads : Agrees(info[h].usage)

HooksInv == TableTypeOK /\ ThreadTypes /\ RecordsAgree

(* What a step can do to the table: a call of its API by an administrator   *)
(* or a starting process, which clears usage records at most, or the record *)
(* that update_tenant_resource_count writes back.                           *)
AdminCall ==
    /\ [TableNext]_tableVars
    /\ \A t \in TenantIds : usage'[t] \in {usage[t], ZeroUsage}

PutCall(h) == tenant_update_resource_usage(tid[h], Charged(info[h].usage, op[h]))

(* Charging a record that agrees with itself gives one that does.           *)
LEMMA ChargedAgrees ==
    ASSUME NEW u \in Usage, NEW o
    PROVE  /\ Charged(u, o) \in Usage
           /\ Agrees(u) => Agrees(Charged(u, o))
<1> DEFINE k == Kind(o)
           c == Charged(u, o)
<1>1. k \in Resources
  BY DEF Kind, Resources
<1>2. /\ u.count \in [Resources -> Int]
      /\ u.made \in [Totalled -> Nat]
      /\ u.freed \in [Totalled -> Nat]
  BY DEF Usage
<1>3. c.count = [u.count EXCEPT ![k] = IF o \in Creates THEN u.count[k] + 1 ELSE u.count[k] - 1]
  BY DEF Charged
<1>4. c.made = [r \in Totalled |-> u.made[r] + (IF o \in Creates /\ r = k THEN 1 ELSE 0)]
  BY DEF Charged
<1>5. c.freed = [r \in Totalled |-> u.freed[r] + (IF o \notin Creates /\ r = k THEN 1 ELSE 0)]
  BY DEF Charged
<1>6. c.count \in [Resources -> Int] /\ c.made \in [Totalled -> Nat] /\ c.freed \in [Totalled -> Nat]
  BY <1>1, <1>2, <1>3, <1>4, <1>5
<1>7. c \in Usage
  BY <1>6 DEF Charged, Usage
<1>8. ASSUME Agrees(u), NEW r \in Totalled
      PROVE  c.count[r] = c.made[r] - c.freed[r]
  <2>1. u.count[r] = u.made[r] - u.freed[r] /\ r \in Resources
    BY <1>8 DEF Agrees, Totalled, Resources
  <2>2. c.count[r] = IF r = k THEN (IF o \in Creates THEN u.count[r] + 1 ELSE u.count[r] - 1)
                              ELSE u.count[r]
    BY <1>1, <1>2, <1>3, <2>1
  <2>3. QED
    BY <1>2, <1>4, <1>5, <2>1, <2>2
<1>9. QED
  BY <1>7, <1>8 DEF Agrees

(* The tenant of a process is a tenant id. *)
LEMMA TenantOfType ==
    ASSUME TableTypeOK, NEW p
    PROVE  tenant_get_process_tenant(p) \in TenantIds
  BY SizeAssumption DEF TableTypeOK, Mapping, tenant_get_process_tenant, Unmapped, TenantIds

(* Every step is one of the two. *)
LEMMA StepKinds ==
    ASSUME TableTypeOK, [HooksNext]_hooksVars
    PROVE  AdminCall \/ \E h \in Threads : PutCall(h)
<1>1. ASSUME UNCHANGED tableVars PROVE AdminCall
  BY <1>1 DEF AdminCall, tableVars, tenantVars
<1>2. ASSUME NEW p \in Pids, NEW t \in Nat, tenant_bind_process(p, t) PROVE AdminCall
  <2>1. t \in TenantArgs
    BY <1>2, SizeAssumption DEF tenant_bind_process, TenantArgs
  <2>2. TableNext
    BY <1>2, <2>1 DEF TableNext
  <2>3. QED
    BY <1>2, <2>2 DEF AdminCall, tenant_bind_process, tenantVars
<1>3. ASSUME NEW p \in Pids, InitHooks(p) PROVE AdminCall
  <2>1. EnvTenant[p] \in Nat
    BY HooksAssumption
  <2>2. UNCHANGED tableVars \/ tenant_bind_process(p, EnvTenant[p])
    BY <1>3 DEF InitHooks
  <2>3. QED
    BY <1>1, <1>2, <2>1, <2>2
<1>4. ASSUME Admin PROVE AdminCall
  <2>1. /\ Tenants \subseteq TenantArgs /\ Tenants \subseteq Nat
        /\ AdminTenants \subseteq Tenants /\ AdminPids \subseteq Pids
    BY SizeAssumption, HooksAssumption DEF Tenants, TenantIds, TenantArgs
  <2>2. ASSUME NEW t \in Tenants, NEW q \in QuotaArgs, tenant_create(t, q) PROVE AdminCall
    <3>1. TableNext
      BY <2>1, <2>2 DEF TableNext
    <3>2. QED
      BY <2>2, <3>1 DEF AdminCall, tenant_create, TableTypeOK
  <2>3. ASSUME NEW t \in Tenants, tenant_delete(t) PROVE AdminCall
    <3>1. TableNext
      BY <2>1, <2>3 DEF TableNext
    <3>2. QED
      BY <2>3, <3>1 DEF AdminCall, tenant_delete
  <2>4. ASSUME NEW t \in Tenants, NEW q \in QuotaArgs, tenant_update_quota(t, q) PROVE AdminCall
    <3>1. TableNext
      BY <2>1, <2>4 DEF TableNext
    <3>2. QED
      BY <2>4, <3>1 DEF AdminCall, tenant_update_quota
  <2>5. ASSUME NEW t \in Tenants, NEW s \in StatusArgs, tenant_set_status(t, s) PROVE AdminCall
    <3>1. TableNext
      BY <2>1, <2>5 DEF TableNext
    <3>2. QED
      BY <2>5, <3>1 DEF AdminCall, tenant_set_status
  <2>6. ASSUME NEW p \in Pids, tenant_unbind_process(p) PROVE AdminCall
    <3>1. TableNext
      BY <2>6 DEF TableNext
    <3>2. QED
      BY <2>6, <3>1 DEF AdminCall, tenant_unbind_process, tenantVars
  <2>7. QED
    BY <1>2, <1>4, <2>1, <2>2, <2>3, <2>4, <2>5, <2>6 DEF Admin
<1>5. ASSUME NEW h \in Threads, StepOf(h) PROVE UNCHANGED tableVars \/ PutCall(h)
  BY <1>5 DEF StepOf, GetTenant, GetInfo, CheckTenantLimit, CheckProcessLimit, CheckGlobalLimit,
     RealVerb, CountLocally, ReadLocal, Publish, GetTenantToCharge, GetUsage, PutUsage, Return,
     PutCall
<1>6. ASSUME NEW h \in Threads, NEW o \in Ops[h], CallVerb(h, o) PROVE UNCHANGED tableVars
  BY <1>6 DEF CallVerb
<1>7. ASSUME NEW p \in Pids, ExitProcess(p) PROVE UNCHANGED tableVars
  BY <1>7 DEF ExitProcess
<1>8. ASSUME UNCHANGED hooksVars PROVE UNCHANGED tableVars
  BY <1>8 DEF hooksVars
<1>9. QED
  BY <1>1, <1>3, <1>4, <1>5, <1>6, <1>7, <1>8 DEF HooksNext

(* A thread's copy of a record comes from the table or is reset.            *)
LEMMA ThreadStep ==
    ASSUME HooksInv, [HooksNext]_hooksVars
    PROVE  ThreadTypes' /\ \A h \in Threads : Agrees(info[h].usage)'
<1>1. /\ usage \in [TenantIds -> Usage] /\ quota \in [TenantIds -> Quota]
      /\ tid \in [Threads -> TenantIds]
      /\ info \in [Threads -> [usage : Usage, quota : Quota]]
      /\ \A t \in TenantIds : Agrees(usage[t])
      /\ \A h \in Threads : Agrees(info[h].usage)
  BY DEF HooksInv, TableTypeOK, ThreadTypes, RecordsAgree
<1>2. 0 \in TenantIds
  BY SizeAssumption DEF TenantIds
<1>3. NoInfo \in [usage : Usage, quota : Quota] /\ Agrees(NoInfo.usage)
  BY HooksAssumption DEF NoInfo, ZeroUsage, Usage, Agrees, Totalled, Resources
<1>4. ASSUME UNCHANGED <<tid, info>> PROVE ThreadTypes' /\ \A h \in Threads : Agrees(info[h].usage)'
  BY <1>1, <1>4 DEF ThreadTypes, Agrees
<1>5. ASSUME NEW h \in Threads, NEW t \in TenantIds, tid' = [tid EXCEPT ![h] = t], UNCHANGED info
      PROVE  ThreadTypes' /\ \A g \in Threads : Agrees(info[g].usage)'
  BY <1>1, <1>5 DEF ThreadTypes, Agrees
<1>6. ASSUME NEW h \in Threads, NEW i \in [usage : Usage, quota : Quota], Agrees(i.usage),
             info' = [info EXCEPT ![h] = i], UNCHANGED tid
      PROVE  ThreadTypes' /\ \A g \in Threads : Agrees(info[g].usage)'
  <2>1. ThreadTypes'
    BY <1>1, <1>6 DEF ThreadTypes
  <2>2. ASSUME NEW g \in Threads PROVE Agrees(info'[g].usage)
    BY <1>1, <1>6
  <2>3. QED
    BY <2>1, <2>2 DEF Agrees
<1>7. ASSUME NEW h \in Threads, StepOf(h)
      PROVE  ThreadTypes' /\ \A g \in Threads : Agrees(info[g].usage)'
  <2>1. CASE GetTenant(h) \/ GetTenantToCharge(h)
    BY <1>5, <2>1, TenantOfType DEF GetTenant, GetTenantToCharge, HooksInv
  <2>2. CASE GetInfo(h)
    <3>1. [usage |-> usage[tid[h]], quota |-> quota[tid[h]]] \in [usage : Usage, quota : Quota]
      BY <1>1
    <3>2. QED
      BY <1>1, <1>6, <2>2, <3>1 DEF GetInfo
  <2>3. CASE CheckTenantLimit(h) \/ PutUsage(h)
    BY <1>3, <1>6, <2>3 DEF CheckTenantLimit, PutUsage
  <2>4. CASE CheckProcessLimit(h) \/ CheckGlobalLimit(h) \/ CountLocally(h) \/ ReadLocal(h) \/ Publish(h)
    BY <1>4, <2>4 DEF CheckProcessLimit, CheckGlobalLimit, CountLocally, ReadLocal, Publish
  <2>5. CASE RealVerb(h) \/ Return(h)
    BY <1>2, <1>4, <1>5, <2>5 DEF RealVerb, Return
  <2>6. CASE GetUsage(h)
    <3>1. CASE UNCHANGED info
      BY <1>4, <2>6, <3>1 DEF GetUsage
    <3>2. CASE info' = [info EXCEPT ![h].usage = usage[tid[h]]]
      <4> DEFINE i == [info[h] EXCEPT !.usage = usage[tid[h]]]
      <4>1. i \in [usage : Usage, quota : Quota] /\ i.usage = usage[tid[h]]
        BY <1>1
      <4>2. info' = [info EXCEPT ![h] = i]
        BY <3>2
      <4>3. Agrees(i.usage)
        BY <1>1, <4>1
      <4>4. UNCHANGED tid
        BY <2>6 DEF GetUsage
      <4> HIDE DEF i
      <4>5. QED
        BY <1>6, <4>1, <4>2, <4>3, <4>4
    <3>3. QED
      BY <2>6, <3>1, <3>2 DEF GetUsage
  <2>7. QED
    BY <1>7, <2>1, <2>2, <2>3, <2>4, <2>5, <2>6 DEF StepOf
<1>8. ASSUME NEW p \in Pids, ExitProcess(p)
      PROVE  ThreadTypes' /\ \A g \in Threads : Agrees(info[g].usage)'
  <2>1. /\ \E S : tid' = [g \in Threads |-> IF g \in S THEN 0 ELSE tid[g]]
        /\ \E S : info' = [g \in Threads |-> IF g \in S THEN NoInfo ELSE info[g]]
    BY <1>8 DEF ExitProcess
  <2>2. ThreadTypes'
    BY <1>1, <1>2, <1>3, <2>1 DEF ThreadTypes
  <2>3. ASSUME NEW g \in Threads PROVE Agrees(info'[g].usage)
    BY <1>1, <1>3, <2>1
  <2>4. QED
    BY <2>2, <2>3 DEF Agrees
<1>9. CASE UNCHANGED hooksVars
  BY <1>4, <1>9 DEF hooksVars, threadVars
<1>10. CASE \E p \in Pids : InitHooks(p)
  BY <1>4, <1>10 DEF InitHooks, threadVars
<1>11. CASE \E h \in Threads : \E o \in Ops[h] : CallVerb(h, o)
  BY <1>4, <1>11 DEF CallVerb
<1>12. CASE Admin
  BY <1>4, <1>12 DEF Admin, threadVars
<1>13. QED
  BY <1>7, <1>8, <1>9, <1>10, <1>11, <1>12 DEF HooksNext

(* The inductive step.  The table's part is TypeStep of TenantShm_proofs    *)
(* but for the record a hook writes back, which ChargedAgrees covers.       *)
LEMMA HooksStep == HooksInv /\ [HooksNext]_hooksVars => HooksInv'
<1> SUFFICES ASSUME HooksInv, [HooksNext]_hooksVars
             PROVE  HooksInv'
  OBVIOUS
<1>1. TableTypeOK /\ ThreadTypes /\ RecordsAgree
  BY DEF HooksInv
<1>2. usage \in [TenantIds -> Usage] /\ \A t \in TenantIds : Agrees(usage[t])
  BY <1>1 DEF TableTypeOK, RecordsAgree
<1>3. CASE AdminCall
  <2>1. TableTypeOK'
    BY <1>1, <1>3, TypeStep DEF AdminCall
  <2>2. Agrees(ZeroUsage)
    BY DEF Agrees, ZeroUsage, Totalled, Resources
  <2>3. ASSUME NEW t \in TenantIds PROVE Agrees(usage'[t])
    BY <1>2, <1>3, <2>2 DEF AdminCall
  <2>4. QED
    BY <2>1, <2>3, ThreadStep DEF HooksInv, RecordsAgree, Agrees
<1>4. ASSUME NEW h \in Threads, PutCall(h) PROVE HooksInv'
  <2> DEFINE c == Charged(info[h].usage, op[h])
  <2>1. tid[h] \in TenantIds /\ info[h].usage \in Usage /\ Agrees(info[h].usage)
    BY <1>1 DEF ThreadTypes, RecordsAgree
  <2>2. c \in Usage /\ Agrees(c)
    BY <2>1, ChargedAgrees
  <2>3. usage' = [usage EXCEPT ![tid[h]] = c]
    BY <1>4 DEF PutCall, tenant_update_resource_usage
  <2> HIDE DEF c
  <2>4. TableTypeOK'
    BY <1>1, <1>2, <1>4, <2>1, <2>2, <2>3
       DEF PutCall, tenant_update_resource_usage, TableTypeOK, bindingVars
  <2>5. ASSUME NEW t \in TenantIds PROVE Agrees(usage'[t])
    BY <1>2, <2>1, <2>2, <2>3
  <2>6. QED
    BY <2>4, <2>5, ThreadStep DEF HooksInv, RecordsAgree, Agrees
<1>5. QED
  BY <1>1, <1>3, <1>4, StepKinds

(* The state in which the administrator leaves the table satisfies the      *)
(* table's invariant.                                                       *)
LEMMA HooksInitInv == HooksInit => TableInv /\ HooksInv
<1> SUFFICES ASSUME HooksInit
             PROVE  TableInv /\ HooksInv
  OBVIOUS
<1>1. 0 \in TenantIds
  BY SizeAssumption DEF TenantIds
<1>2. IsFiniteSet(TenantIds) /\ Cardinality(TenantIds) = MaxTenants
  BY FS_Interval, SizeAssumption DEF TenantIds
<1>3. Cardinality(TenantIds \ {0}) = MaxTenants - 1
  BY <1>1, <1>2, FS_RemoveElement
<1>4. TableTypeOK
  BY HooksAssumption, SizeAssumption DEF HooksInit, TableTypeOK, Status, Quota, Usage, ZeroUsage,
     EmptyList, EmptySlot, Mapping, TenantIds, Resources
<1>5. Occupied = {} /\ Existing = TenantIds \ {0}
  BY <1>1 DEF HooksInit, Occupied, Existing, EmptySlot
<1>6. TotalCountsBindings /\ ActiveCountsTenants
  BY <1>3, <1>5, FS_EmptySet DEF HooksInit, TotalCountsBindings, ActiveCountsTenants
<1>7. DefaultTenantInactive /\ BindingsUnique /\ BindingsLive
  BY <1>1, <1>5 DEF HooksInit, DefaultTenantInactive, BindingsUnique, BindingsLive
<1>8. NoInfo \in [usage : Usage, quota : Quota] /\ Agrees(ZeroUsage) /\ NoInfo.usage = ZeroUsage
  BY HooksAssumption DEF NoInfo, ZeroUsage, Usage, Agrees, Totalled, Resources
<1>9. ThreadTypes /\ RecordsAgree
  BY <1>1, <1>8 DEF HooksInit, ThreadTypes, RecordsAgree
<1>10. QED
  BY <1>4, <1>6, <1>7, <1>9 DEF TableInv, HooksInv

-----------------------------------------------------------------------------
(* Whatever updates threads and processes lose to each other between        *)
(* tenant_get_resource_usage and tenant_update_resource_usage, every        *)
(* tenant's QP and MR counts are what its own totals say.                   *)
THEOREM RecordsConsistent == HooksSpec => []TotalsAgree
<1>1. HooksInit => HooksInv
  BY HooksInitInv
<1>2. HooksInv => TotalsAgree
  BY DEF HooksInv, RecordsAgree, Agrees, TotalsAgree
<1>3. QED
  BY <1>1, <1>2, HooksStep, PTL DEF HooksSpec

(* The table's invariant is kept by the record a hook writes back as well.  *)
LEMMA TableUnderHooks ==
    ASSUME 0 \notin Pids, TableInv, HooksInv, [HooksNext]_hooksVars
    PROVE  TableInv'
<1>1. HooksInv'
  BY HooksStep
<1>2. CASE AdminCall
  BY <1>2, InvStep DEF AdminCall
<1>3. ASSUME NEW h \in Threads, PutCall(h) PROVE TableInv'
  <2>1. TableTypeOK'
    BY <1>1 DEF HooksInv
  <2>2. UNCHANGED <<status, pid_mappings, active_tenant_count, total_process_count>>
    BY <1>3 DEF PutCall, tenant_update_resource_usage, bindingVars
  <2>3. QED
    BY <2>1, <2>2, QuietStep
<1>4. QED
  BY <1>2, <1>3, StepKinds DEF HooksInv

(* The hooks and the administrator together keep the table's invariant: a   *)
(* process runs under at most one tenant, which exists, and the global      *)
(* counters are exact, whatever the hooks are doing.                        *)
THEOREM TableSafeUnderHooks ==
    ASSUME 0 \notin Pids
    PROVE  HooksSpec => []TableInv
<1> DEFINE Inv == TableInv /\ HooksInv
<1>1. HooksInit => Inv
  BY HooksInitInv
<1>2. Inv /\ [HooksNext]_hooksVars => Inv'
  BY HooksStep, TableUnderHooks
<1>3. QED
  BY <1>1, <1>2, PTL DEF HooksSpec

-----------------------------------------------------------------------------
(* The process's own counters.                                             *)

(* A thread that is in the middle of a verb counts in its process's         *)
(* counters, besides the handles: from the counting of what it made until   *)
(* the application has the handle, and until the discounting of what it     *)
(* frees.                                                                   *)
CountsIn(h, k) ==
    /\ op[h] # "none" /\ Kind(op[h]) = k
    /\ \/ op[h] \in Creates /\ tpc[h] \in {"snapshot", "publish", "tenant2", "get", "put", "return"}
       \/ op[h] \in Frees /\ tpc[h] \in {"real", "local"}

CountedIn(p, k) == {h \in ThreadsOf(p) : CountsIn(h, k)}

(* A thread is in a verb or idle; what is freed is not checked first; only  *)
(* QPs and MRs are counted.                                                 *)
PathOK(h) ==
    /\ (tpc[h] = "idle") <=> (op[h] = "none")
    /\ op[h] \in Frees => tpc[h] \in {"real", "local", "tenant2", "get", "put", "return"}
    /\ tpc[h] = "local" => op[h] \in {"create_qp", "destroy_qp", "reg_mr", "dereg_mr"}

LocalTypes ==
    /\ started \in [Pids -> BOOLEAN]
    /\ qp_count \in [Pids -> Nat] /\ mr_count \in [Pids -> Nat] /\ memory_used \in [Pids -> Nat]
    /\ slot_qp \in [Pids -> Nat]
    /\ handles \in [Pids -> [Kinds -> Nat]]
    /\ tpc \in [Threads -> Labels]
    /\ op \in [Threads -> Creates \cup Frees \cup {"none"}]
    /\ reg \in [Threads -> Nat]
    /\ why \in [Threads -> {"none", "type", "tenant", "process", "global"}]

CountsOf(p) ==
    /\ qp_count[p] = handles[p]["QP"] + Cardinality(CountedIn(p, "QP"))
    /\ mr_count[p] = handles[p]["MR"] + Cardinality(CountedIn(p, "MR"))
    /\ memory_used[p] = MRLength * mr_count[p]

(* The inductive invariant of the counters. *)
LocalInv ==
    /\ LocalTypes
    /\ \A h \in Threads : PathOK(h)
    /\ \A p \in Pids : CountsOf(p)

(* It says of the counters what LocalCountsExact says: the calls due at the *)
(* mutex are the difference between what is held and what is counted.       *)
LEMMA CountsMeanHeld ==
    ASSUME LocalInv, IsFiniteSet(Threads), NEW p \in Pids,
           NEW k, NEW make \in Creates, NEW free \in Frees,
           Kind(make) = k, Kind(free) = k,
           \A o \in Creates \cup Frees : Kind(o) = k => o \in {make, free}
    PROVE  LET Due(o) == Cardinality({h \in ThreadsOf(p) : op[h] = o /\ tpc[h] = "local"})
           IN  handles[p][k] + Cardinality(CountedIn(p, k)) = Held(p, k) - Due(make) + Due(free)
<1> DEFINE At(o) == {h \in ThreadsOf(p) : op[h] = o /\ tpc[h] = "local"}
           H == {h \in ThreadsOf(p) :
                    \/ op[h] \in Creates /\ Kind(op[h]) = k
                       /\ tpc[h] \in {"local", "snapshot", "publish", "tenant2", "get", "put", "return"}
                    \/ op[h] \in Frees /\ Kind(op[h]) = k /\ tpc[h] = "real"}
           C == CountedIn(p, k)
           M == At(make)
           F == At(free)
           S == H \ M
<1>1. /\ Creates \cap Frees = {} /\ "none" \notin Creates \cup Frees
  BY DEF Creates, Frees
<1>2. M \subseteq H /\ F \cap S = {} /\ C = S \cup F
  <2>1. M \subseteq H
    OBVIOUS
  <2>2. F \cap S = {}
    BY <1>1
  <2>3. ASSUME NEW h \in ThreadsOf(p) PROVE h \in C <=> (h \in S \/ h \in F)
    <3>1. op[h] \in Creates \cup Frees \cup {"none"} /\ h \in Threads
      BY DEF LocalInv, LocalTypes, ThreadsOf
    <3>2. CASE op[h] = "none"
      BY <1>1, <3>2 DEF CountedIn, CountsIn
    <3>3. CASE op[h] \in Creates
      BY <1>1, <3>1, <3>3 DEF CountedIn, CountsIn
    <3>4. CASE op[h] \in Frees
      BY <1>1, <3>1, <3>4 DEF CountedIn, CountsIn
    <3> QED BY <3>1, <3>2, <3>3, <3>4
  <2> QED BY <2>1, <2>2, <2>3 DEF CountedIn
<1>3. IsFiniteSet(H) /\ IsFiniteSet(M) /\ IsFiniteSet(F) /\ IsFiniteSet(S)
  <2>1. H \subseteq Threads /\ M \subseteq Threads /\ F \subseteq Threads /\ S \subseteq Threads
    BY DEF ThreadsOf
  <2> HIDE DEF H, M, F, S
  <2> QED BY <2>1, FS_Subset
<1>4. Held(p, k) = handles[p][k] + Cardinality(H)
  BY DEF Held
<1> HIDE DEF H, M, F, C
<1>5. Cardinality(S) = Cardinality(H) - Cardinality(M)
  <2>1. Cardinality(H \ M) = Cardinality(H) - Cardinality(H \cap M)
    BY <1>3, FS_Difference
  <2>2. H \cap M = M
    BY <1>2
  <2> QED BY <2>1, <2>2
<1> HIDE DEF S
<1>6. Cardinality(C) = Cardinality(S) + Cardinality(F)
  <2>1. Cardinality(S \cup F) = Cardinality(S) + Cardinality(F) - Cardinality(S \cap F)
    BY <1>3, FS_Union
  <2>2. S \cap F = {}
    BY <1>2
  <2>3. Cardinality(S) \in Nat /\ Cardinality(F) \in Nat /\ Cardinality({}) = 0
    BY <1>3, FS_CardinalityType, FS_EmptySet
  <2>4. Cardinality(S \cap F) = 0
    BY <2>2, FS_EmptySet, Zenon
  <2>5. C = S \cup F
    BY <1>2
  <2>6. Cardinality(C) = Cardinality(S) + Cardinality(F) - Cardinality(S \cap F)
    BY <2>1, <2>5, Zenon
  <2> QED BY <2>3, <2>4, <2>6
<1>7. /\ Cardinality(H) \in Nat /\ Cardinality(M) \in Nat /\ Cardinality(F) \in Nat
  BY <1>3, FS_CardinalityType
<1>8. k \in Kinds
  BY DEF Kind, Kinds
<1>9. handles[p][k] \in Nat
  BY <1>8 DEF LocalInv, LocalTypes
<1>10. handles[p][k] + Cardinality(C) = Held(p, k) - Cardinality(M) + Cardinality(F)
  BY <1>4, <1>5, <1>6, <1>7, <1>9
<1> QED BY <1>10 DEF M, F, C

(* Only the thread that takes a step moves in or out of its process's set.  *)
LEMMA CountedMoves ==
    ASSUME IsFiniteSet(Threads), NEW h \in Threads, NEW k,
           \A g \in Threads : g # h => tpc'[g] = tpc[g] /\ op'[g] = op[g]
    PROVE  /\ \A q : q # ProcOf[h] => CountedIn(q, k)' = CountedIn(q, k)
           /\ Cardinality(CountedIn(ProcOf[h], k)) \in Nat
           /\ (CountsIn(h, k)' <=> CountsIn(h, k)) =>
                Cardinality(CountedIn(ProcOf[h], k)') = Cardinality(CountedIn(ProcOf[h], k))
           /\ CountsIn(h, k)' /\ ~CountsIn(h, k) =>
                Cardinality(CountedIn(ProcOf[h], k)') = Cardinality(CountedIn(ProcOf[h], k)) + 1
           /\ ~CountsIn(h, k)' /\ CountsIn(h, k) =>
                /\ Cardinality(CountedIn(ProcOf[h], k)') = Cardinality(CountedIn(ProcOf[h], k)) - 1
                /\ Cardinality(CountedIn(ProcOf[h], k)) > 0
<1> DEFINE p == ProcOf[h]
           C == CountedIn(p, k)
           D == CountedIn(p, k)'
<1>1. \A g \in Threads : g # h => (CountsIn(g, k)' <=> CountsIn(g, k))
  BY DEF CountsIn, Kind
<1>2. \A q : q # p => CountedIn(q, k)' = CountedIn(q, k)
  BY <1>1 DEF CountedIn, ThreadsOf
<1>3. \A g : g \in C <=> g \in Threads /\ ProcOf[g] = p /\ CountsIn(g, k)
  BY DEF CountedIn, ThreadsOf
<1>4. \A g : g \in D <=> g \in Threads /\ ProcOf[g] = p /\ CountsIn(g, k)'
  BY DEF CountedIn, ThreadsOf
<1> HIDE DEF C, D
<1>5. IsFiniteSet(C)
  <2>1. C \subseteq Threads
    BY <1>3
  <2> QED BY <2>1, FS_Subset
<1>6. Cardinality(C) \in Nat
  BY <1>5, FS_CardinalityType
<1>7. ASSUME CountsIn(h, k)' <=> CountsIn(h, k) PROVE D = C
  BY <1>1, <1>3, <1>4, <1>7
<1>8. ASSUME CountsIn(h, k)', ~CountsIn(h, k)
      PROVE  Cardinality(D) = Cardinality(C) + 1
  <2>1. D = C \cup {h} /\ h \notin C
    BY <1>1, <1>3, <1>4, <1>8
  <2>2. Cardinality(C \cup {h}) = Cardinality(C) + 1
    BY <1>5, <2>1, FS_AddElement
  <2> QED BY <2>1, <2>2
<1>9. ASSUME ~CountsIn(h, k)', CountsIn(h, k)
      PROVE  Cardinality(D) = Cardinality(C) - 1 /\ Cardinality(C) > 0
  <2>1. D = C \ {h} /\ h \in C
    BY <1>1, <1>3, <1>4, <1>9
  <2>2. Cardinality(C \ {h}) = Cardinality(C) - 1
    BY <1>5, <2>1, FS_RemoveElement
  <2>3. IsFiniteSet(C \ {h})
    BY <1>5, FS_RemoveElement
  <2>4. Cardinality(C \ {h}) \in Nat
    BY <2>3, FS_CardinalityType
  <2> QED BY <1>6, <2>1, <2>2, <2>4
<1> QED BY <1>2, <1>6, <1>7, <1>8, <1>9 DEF C, D

(* The counters and handles of the other processes stay, so the invariant   *)
(* has to be shown for the process of the thread that takes the step.       *)
LEMMA OtherCounts ==
    ASSUME LocalInv, IsFiniteSet(Threads), NEW h \in Threads,
           \A g \in Threads : g # h => tpc'[g] = tpc[g] /\ op'[g] = op[g],
           \A q \in Pids : q # ProcOf[h] =>
               /\ handles'[q] = handles[q] /\ qp_count'[q] = qp_count[q]
               /\ mr_count'[q] = mr_count[q] /\ memory_used'[q] = memory_used[q],
           LocalTypes', PathOK(h)', CountsOf(ProcOf[h])'
    PROVE  LocalInv'
<1>1. \A g \in Threads : PathOK(g)'
  BY DEF LocalInv, PathOK
<1>2. ASSUME NEW q \in Pids, q # ProcOf[h] PROVE CountsOf(q)'
  <2>1. CountedIn(q, "QP")' = CountedIn(q, "QP") /\ CountedIn(q, "MR")' = CountedIn(q, "MR")
    BY <1>2, CountedMoves
  <2>2. CountsOf(q)
    BY DEF LocalInv
  <2> QED BY <1>2, <2>1, <2>2 DEF CountsOf
<1> QED BY <1>1, <1>2 DEF LocalInv

(* A step that counts nothing, gives no handle, and does not pass a point   *)
(* where something is counted.                                              *)
LEMMA QuietThread ==
    ASSUME LocalInv, IsFiniteSet(Threads), NEW h \in Threads, LocalTypes', PathOK(h)',
           \A g \in Threads : g # h => tpc'[g] = tpc[g] /\ op'[g] = op[g],
           UNCHANGED <<handles, localVars>>,
           \A k \in {"QP", "MR"} : CountsIn(h, k)' <=> CountsIn(h, k)
    PROVE  LocalInv'
<1>1. UNCHANGED <<handles, qp_count, mr_count, memory_used>>
  BY DEF localVars
<1>2. ProcOf[h] \in Pids
  BY HooksAssumption
<1>3. CountsOf(ProcOf[h])'
  <2>1. /\ Cardinality(CountedIn(ProcOf[h], "QP")') = Cardinality(CountedIn(ProcOf[h], "QP"))
        /\ Cardinality(CountedIn(ProcOf[h], "MR")') = Cardinality(CountedIn(ProcOf[h], "MR"))
    BY CountedMoves
  <2>2. CountsOf(ProcOf[h])
    BY <1>2 DEF LocalInv
  <2> QED BY <1>1, <2>1, <2>2 DEF CountsOf
<1> QED BY <1>1, <1>3, OtherCounts

LEMMA KindType == \A o : Kind(o) \in Kinds
BY DEF Kind, Kinds

(* The checks before the real verb, and the charging after the counting,    *)
(* leave the process's own counters alone.                                  *)
LEMMA ChecksAndCharges ==
    ASSUME LocalInv, IsFiniteSet(Threads), NEW h \in Threads,
           \/ GetTenant(h) \/ GetInfo(h) \/ CheckTenantLimit(h)
           \/ CheckProcessLimit(h) \/ CheckGlobalLimit(h)
           \/ ReadLocal(h) \/ Publish(h) \/ GetTenantToCharge(h) \/ GetUsage(h) \/ PutUsage(h)
    PROVE  LocalInv'
<1> DEFINE Checks == {"tenant", "info", "limit", "process", "global"}
           Charges == {"snapshot", "publish", "tenant2", "get", "put"}
<1>1. PICK l \in Labels :
        /\ tpc' = [tpc EXCEPT ![h] = l]
        /\ \/ tpc[h] \in Checks /\ l \in {"info", "limit", "process", "global", "real", "denied"}
           \/ tpc[h] \in Charges /\ l \in {"publish", "tenant2", "get", "put", "return"}
  BY DEF GetTenant, GetInfo, CheckTenantLimit, CheckProcessLimit, CheckGlobalLimit, ReadLocal,
         Publish, GetTenantToCharge, GetUsage, PutUsage, Goto, AfterCheck, Refuse, Labels
<1>2. UNCHANGED <<started, localVars, handles, op>>
  BY DEF GetTenant, GetInfo, CheckTenantLimit, CheckProcessLimit, CheckGlobalLimit, ReadLocal,
         Publish, GetTenantToCharge, GetUsage, PutUsage
<1>3. /\ slot_qp' \in [Pids -> Nat] /\ reg' \in [Threads -> Nat]
      /\ why' \in [Threads -> {"none", "type", "tenant", "process", "global"}]
  <2>1. reg' \in [Threads -> Nat] /\ slot_qp' \in [Pids -> Nat]
    <3>1. /\ reg \in [Threads -> Nat] /\ slot_qp \in [Pids -> Nat]
          /\ qp_count \in [Pids -> Nat] /\ ProcOf[h] \in Pids
      BY HooksAssumption DEF LocalInv, LocalTypes
    <3>2. CASE ReadLocal(h)
      BY <3>1, <3>2 DEF ReadLocal
    <3>3. CASE Publish(h)
      BY <3>1, <3>3 DEF Publish
    <3>4. CASE ~ReadLocal(h) /\ ~Publish(h)
      <4>1. UNCHANGED <<reg, slot_qp>>
        BY <3>4 DEF GetTenant, GetInfo, CheckTenantLimit, CheckProcessLimit, CheckGlobalLimit,
                    GetTenantToCharge, GetUsage, PutUsage
      <4> QED BY <3>1, <4>1
    <3> QED BY <3>2, <3>3, <3>4
  <2>2. UNCHANGED why \/ \E w \in {"tenant", "process", "global"} : why' = [why EXCEPT ![h] = w]
    BY DEF GetTenant, GetInfo, CheckTenantLimit, CheckProcessLimit, CheckGlobalLimit, ReadLocal,
           Publish, GetTenantToCharge, GetUsage, PutUsage, Refuse
  <2>3. why' \in [Threads -> {"none", "type", "tenant", "process", "global"}]
    BY <2>2 DEF LocalInv, LocalTypes
  <2> QED BY <2>1, <2>3
<1>4. LocalTypes'
  BY <1>1, <1>2, <1>3 DEF LocalInv, LocalTypes, localVars
<1>5. /\ tpc'[h] = l /\ op'[h] = op[h] /\ PathOK(h)
      /\ op[h] \in Creates \cup Frees \cup {"none"}
      /\ \A g \in Threads : g # h => tpc'[g] = tpc[g] /\ op'[g] = op[g]
  BY <1>1, <1>2 DEF LocalInv, LocalTypes
<1>6. op[h] # "none" /\ (tpc[h] \in Checks => op[h] \notin Frees)
      /\ (op[h] \in Frees => l \in {"tenant2", "get", "put", "return"} /\ tpc[h] \in {"tenant2", "get", "put"})
  <2>1. op[h] # "none" /\ (tpc[h] \in Checks => op[h] \notin Frees)
    BY <1>1, <1>5 DEF PathOK
  <2>2. ASSUME op[h] \in Frees
        PROVE  l \in {"tenant2", "get", "put", "return"} /\ tpc[h] \in {"tenant2", "get", "put"}
    <3>1. tpc[h] \in {"tenant2", "get", "put"}
      BY <1>1, <1>5, <2>1, <2>2 DEF PathOK
    <3>2. GetTenantToCharge(h) \/ GetUsage(h) \/ PutUsage(h)
      BY <3>1 DEF GetTenant, GetInfo, CheckTenantLimit, CheckProcessLimit, CheckGlobalLimit,
                  ReadLocal, Publish, GetTenantToCharge, GetUsage, PutUsage
    <3>3. tpc'[h] \in {"get", "put", "return"}
      BY <3>2, <1>5 DEF GetTenantToCharge, GetUsage, PutUsage, Goto, LocalInv, LocalTypes
    <3> QED BY <1>5, <3>1, <3>3
  <2> QED BY <2>1, <2>2
<1>7. PathOK(h)'
  BY <1>1, <1>5, <1>6 DEF PathOK
<1>8. \A k \in {"QP", "MR"} : CountsIn(h, k)' <=> CountsIn(h, k)
  <2>1. op[h] \in Creates => op[h] \notin Frees
    BY DEF Creates, Frees
  <2> QED BY <1>1, <1>5, <1>6, <2>1 DEF CountsIn, Kind
<1> QED BY <1>2, <1>4, <1>5, <1>7, <1>8, QuietThread

(* A verb is called: a handle given up counts in the thread.                *)
LEMMA CallCounts ==
    ASSUME LocalInv, IsFiniteSet(Threads), NEW h \in Threads, NEW o \in Ops[h], CallVerb(h, o)
    PROVE  LocalInv'
<1> DEFINE p == ProcOf[h]
<1>1. /\ o \in Creates \cup Frees /\ p \in Pids /\ Kind(o) \in Kinds
      /\ Creates \cap Frees = {} /\ "none" \notin Creates \cup Frees
  BY HooksAssumption, KindType DEF Creates, Frees
<1>2. /\ op' = [op EXCEPT ![h] = o] /\ tpc[h] = "idle" /\ op[h] = "none"
      /\ UNCHANGED <<started, qp_count, mr_count, memory_used, slot_qp, reg>>
  BY DEF CallVerb, localVars, LocalInv, PathOK
<1>3. PICK l \in Labels : tpc' = [tpc EXCEPT ![h] = l]
        /\ \/ o \in Creates /\ l \in {"denied", "tenant", "real"} /\ UNCHANGED handles
           \/ /\ o \in Frees /\ l = "real" /\ handles[p][Kind(o)] > 0
              /\ handles' = [handles EXCEPT ![p][Kind(o)] = @ - 1]
  BY DEF CallVerb, Goto, Refuse, Labels
<1>4. why' \in [Threads -> {"none", "type", "tenant", "process", "global"}]
  BY DEF CallVerb, Refuse, LocalInv, LocalTypes
<1>5. handles' \in [Pids -> [Kinds -> Nat]]
  <2>1. handles \in [Pids -> [Kinds -> Nat]]
    BY DEF LocalInv, LocalTypes
  <2>2. CASE UNCHANGED handles
    BY <2>1, <2>2
  <2>3. CASE handles[p][Kind(o)] > 0 /\ handles' = [handles EXCEPT ![p][Kind(o)] = @ - 1]
    <3>1. handles[p][Kind(o)] - 1 \in Nat
      BY <1>1, <2>1, <2>3
    <3> QED BY <1>1, <2>1, <2>3, <3>1
  <2> QED BY <1>3, <2>2, <2>3
<1>6. LocalTypes'
  BY <1>1, <1>2, <1>3, <1>4, <1>5 DEF LocalInv, LocalTypes
<1>7. /\ tpc'[h] = l /\ op'[h] = o
      /\ \A g \in Threads : g # h => tpc'[g] = tpc[g] /\ op'[g] = op[g]
  BY <1>2, <1>3 DEF LocalInv, LocalTypes
<1>8. PathOK(h)'
  BY <1>1, <1>3, <1>7 DEF PathOK
<1>9. \A k : /\ ~CountsIn(h, k)
             /\ CountsIn(h, k)' <=> (o \in Frees /\ k = Kind(o))
  <2>1. \A k : ~CountsIn(h, k)
    BY <1>2 DEF CountsIn
  <2>2. \A k : CountsIn(h, k)' <=> (o \in Frees /\ k = Kind(o))
    BY <1>1, <1>3, <1>7 DEF CountsIn, Kind
  <2> QED BY <2>1, <2>2
<1>10. ASSUME NEW k \in {"QP", "MR"}
       PROVE  handles'[p][k] + Cardinality(CountedIn(p, k)')
                = handles[p][k] + Cardinality(CountedIn(p, k))
  <2>k. k \in Kinds
    BY DEF Kinds
  <2>h. /\ handles \in [Pids -> [Kinds -> Nat]]
        /\ handles[p][k] \in Nat
    BY <1>1, <2>k DEF LocalInv, LocalTypes
  <2>1. handles[p][k] \in Nat /\ Cardinality(CountedIn(p, k)) \in Nat
    BY <1>7, <2>h, CountedMoves
  <2>2. CASE o \in Frees /\ k = Kind(o)
    <3>1. Cardinality(CountedIn(p, k)') = Cardinality(CountedIn(p, k)) + 1
      BY <1>7, <1>9, <2>2, CountedMoves
    <3>2. handles'[p][k] = handles[p][k] - 1
      BY <1>1, <1>3, <2>2 DEF LocalInv, LocalTypes
    <3> QED BY <2>1, <3>1, <3>2
  <2>3. CASE ~(o \in Frees /\ k = Kind(o))
    <3>1. Cardinality(CountedIn(p, k)') = Cardinality(CountedIn(p, k))
      BY <1>7, <1>9, <2>3, CountedMoves
    <3>2. handles'[p][k] = handles[p][k]
      BY <1>1, <1>3, <2>3, <2>k, <2>h
    <3> QED BY <3>1, <3>2
  <2> QED BY <2>2, <2>3
<1>11. CountsOf(p)'
  <2>1. CountsOf(p)
    BY <1>1 DEF LocalInv
  <2> QED BY <1>2, <1>10, <2>1 DEF CountsOf
<1>12. \A q \in Pids : q # p => handles'[q] = handles[q]
  BY <1>3 DEF LocalInv, LocalTypes
<1> QED BY <1>2, <1>6, <1>7, <1>8, <1>11, <1>12, OtherCounts

(* A verb returns a handle for what counted in the thread. *)
LEMMA HandleBack ==
    ASSUME LocalInv, IsFiniteSet(Threads), NEW h \in Threads, NEW kind \in Kinds,
           LocalTypes', PathOK(h)',
           \A g \in Threads : g # h => tpc'[g] = tpc[g] /\ op'[g] = op[g],
           UNCHANGED localVars,
           handles' = [handles EXCEPT ![ProcOf[h]][kind] = @ + 1],
           \A k : CountsIn(h, k) <=> k = kind,
           \A k : ~CountsIn(h, k)'
    PROVE  LocalInv'
<1> DEFINE p == ProcOf[h]
<1>1. p \in Pids /\ handles \in [Pids -> [Kinds -> Nat]]
  BY HooksAssumption DEF LocalInv, LocalTypes
<1>2. UNCHANGED <<qp_count, mr_count, memory_used>>
  BY DEF localVars
<1>3. ASSUME NEW k \in {"QP", "MR"}
      PROVE  handles'[p][k] + Cardinality(CountedIn(p, k)')
               = handles[p][k] + Cardinality(CountedIn(p, k))
  <2>1. k \in Kinds
    BY DEF Kinds
  <2>2. handles[p][k] \in Nat /\ Cardinality(CountedIn(p, k)) \in Nat
    BY <1>1, <2>1, CountedMoves
  <2>3. CASE k = kind
    <3>1. Cardinality(CountedIn(p, k)') = Cardinality(CountedIn(p, k)) - 1
      BY <2>3, CountedMoves
    <3>2. handles'[p][k] = handles[p][k] + 1
      BY <1>1, <2>1, <2>3
    <3> QED BY <2>2, <3>1, <3>2
  <2>4. CASE k # kind
    <3>1. Cardinality(CountedIn(p, k)') = Cardinality(CountedIn(p, k))
      BY <2>4, CountedMoves
    <3>2. handles'[p][k] = handles[p][k]
      BY <1>1, <2>1, <2>4
    <3> QED BY <3>1, <3>2
  <2> QED BY <2>3, <2>4
<1>4. CountsOf(p)'
  <2>1. CountsOf(p)
    BY <1>1 DEF LocalInv
  <2> QED BY <1>2, <1>3, <2>1 DEF CountsOf
<1>5. \A q \in Pids : q # p => handles'[q] = handles[q]
  BY <1>1
<1> QED BY <1>2, <1>4, <1>5, OtherCounts

(* The real verb: nothing is counted yet, and one that fails gives back the *)
(* handle it was called with.                                               *)
LEMMA RealVerbCounts ==
    ASSUME LocalInv, IsFiniteSet(Threads), NEW h \in Threads, RealVerb(h)
    PROVE  LocalInv'
<1> DEFINE p == ProcOf[h]
<1>1. /\ handles \in [Pids -> [Kinds -> Nat]] /\ p \in Pids /\ Kind(op[h]) \in Kinds
      /\ tpc \in [Threads -> Labels] /\ op \in [Threads -> Creates \cup Frees \cup {"none"}]
      /\ Creates \cap Frees = {} /\ "none" \notin Creates \cup Frees
  BY HooksAssumption, KindType DEF LocalInv, LocalTypes, Creates, Frees
<1>2. tpc[h] = "real" /\ op[h] \in Creates \cup Frees
  BY <1>1 DEF RealVerb, LocalInv, PathOK
<1>3. /\ UNCHANGED <<localVars, qp_count, mr_count, memory_used, started, slot_qp, reg, why>>
  BY DEF RealVerb, localVars
<1>4. CASE /\ tpc' = [tpc EXCEPT ![h] = IF Kind(op[h]) \in {"QP", "MR"} THEN "local" ELSE "tenant2"]
           /\ UNCHANGED <<handles, op>>
  <2>1. LocalTypes'
    BY <1>1, <1>3, <1>4 DEF LocalInv, LocalTypes, Labels
  <2>2. /\ tpc'[h] = (IF Kind(op[h]) \in {"QP", "MR"} THEN "local" ELSE "tenant2")
        /\ op'[h] = op[h]
        /\ \A g \in Threads : g # h => tpc'[g] = tpc[g] /\ op'[g] = op[g]
    BY <1>1, <1>4
  <2>3. Kind(op[h]) \in {"QP", "MR"} => op[h] \in {"create_qp", "destroy_qp", "reg_mr", "dereg_mr"}
    BY <1>2 DEF Kind
  <2>4. PathOK(h)'
    BY <1>1, <1>2, <2>2, <2>3 DEF PathOK
  <2>5. ASSUME NEW k \in {"QP", "MR"} PROVE CountsIn(h, k)' <=> CountsIn(h, k)
    <3>1. CountsIn(h, k) <=> (op[h] \in Frees /\ Kind(op[h]) = k)
      BY <1>1, <1>2 DEF CountsIn
    <3>2. Kind(op[h])' = Kind(op[h])
      BY <2>2 DEF Kind
    <3>3. CountsIn(h, k)' <=> (op[h] \in Frees /\ Kind(op[h]) = k)
      BY <1>1, <1>2, <2>2, <3>2 DEF CountsIn
    <3> QED BY <3>1, <3>3
  <2> QED BY <1>3, <1>4, <2>1, <2>2, <2>4, <2>5, QuietThread
<1>5. CASE /\ tpc' = [tpc EXCEPT ![h] = "idle"] /\ op' = [op EXCEPT ![h] = "none"]
           /\ handles' = [handles EXCEPT ![p][Kind(op[h])] = IF op[h] \in Frees THEN @ + 1 ELSE @]
  <2>1. /\ tpc'[h] = "idle" /\ op'[h] = "none"
        /\ \A g \in Threads : g # h => tpc'[g] = tpc[g] /\ op'[g] = op[g]
    BY <1>1, <1>5
  <2>2. PathOK(h)'
    BY <1>1, <2>1 DEF PathOK
  <2>3. \A k : ~CountsIn(h, k)'
    BY <2>1 DEF CountsIn
  <2>4. LocalTypes'
    <3>1. handles' \in [Pids -> [Kinds -> Nat]]
      BY <1>1, <1>5
    <3> QED BY <1>1, <1>3, <1>5, <3>1 DEF LocalInv, LocalTypes, Labels
  <2>5. CASE op[h] \in Frees
    <3>1. handles' = [handles EXCEPT ![p][Kind(op[h])] = @ + 1]
      BY <1>5, <2>5
    <3>2. \A k : CountsIn(h, k) <=> k = Kind(op[h])
      BY <1>1, <1>2, <2>5 DEF CountsIn
    <3> QED BY <1>1, <1>3, <2>1, <2>2, <2>3, <2>4, <3>1, <3>2, HandleBack
  <2>6. CASE op[h] \notin Frees
    <3>1. handles' = handles
      BY <1>1, <1>5, <2>6
    <3>2. \A k : ~CountsIn(h, k)
      BY <1>2, <2>6 DEF CountsIn
    <3> QED BY <1>3, <2>1, <2>2, <2>3, <2>4, <3>1, <3>2, QuietThread
  <2> QED BY <2>5, <2>6
<1> QED BY <1>4, <1>5 DEF RealVerb, Goto

(* The verb returns: the application has the handle of what was made. *)
LEMMA ReturnCounts ==
    ASSUME LocalInv, IsFiniteSet(Threads), NEW h \in Threads, Return(h)
    PROVE  LocalInv'
<1> DEFINE p == ProcOf[h]
           made == tpc[h] = "return" /\ op[h] \in Creates
<1>1. /\ handles \in [Pids -> [Kinds -> Nat]] /\ p \in Pids /\ Kind(op[h]) \in Kinds
      /\ tpc \in [Threads -> Labels] /\ op \in [Threads -> Creates \cup Frees \cup {"none"}]
      /\ Creates \cap Frees = {} /\ "none" \notin Creates \cup Frees
  BY HooksAssumption, KindType DEF LocalInv, LocalTypes, Creates, Frees
<1>2. tpc[h] \in {"return", "denied"} /\ op[h] \in Creates \cup Frees
  BY <1>1 DEF Return, LocalInv, PathOK
<1>3. /\ UNCHANGED <<localVars, qp_count, mr_count, memory_used, started, slot_qp, reg>>
      /\ tpc' = [tpc EXCEPT ![h] = "idle"] /\ op' = [op EXCEPT ![h] = "none"]
      /\ why' = [why EXCEPT ![h] = "none"]
      /\ handles' = [handles EXCEPT ![p][Kind(op[h])] = IF made THEN @ + 1 ELSE @]
  BY DEF Return, localVars, Goto
<1>4. /\ tpc'[h] = "idle" /\ op'[h] = "none"
      /\ \A g \in Threads : g # h => tpc'[g] = tpc[g] /\ op'[g] = op[g]
  BY <1>1, <1>3
<1>5. PathOK(h)' /\ \A k : ~CountsIn(h, k)'
  BY <1>1, <1>4 DEF PathOK, CountsIn
<1>6. LocalTypes'
  <2>1. handles' \in [Pids -> [Kinds -> Nat]]
    BY <1>1, <1>3
  <2> QED BY <1>1, <1>3, <2>1 DEF LocalInv, LocalTypes, Labels
<1>7. CASE made
  <2>1. handles' = [handles EXCEPT ![p][Kind(op[h])] = @ + 1]
    BY <1>3, <1>7
  <2>2. \A k : CountsIn(h, k) <=> k = Kind(op[h])
    BY <1>1, <1>2, <1>7 DEF CountsIn
  <2> QED BY <1>1, <1>3, <1>4, <1>5, <1>6, <2>1, <2>2, HandleBack
<1>8. CASE ~made
  <2>1. handles' = handles
    BY <1>1, <1>3, <1>8
  <2>2. \A k : ~CountsIn(h, k)
    BY <1>2, <1>8 DEF CountsIn
  <2> QED BY <1>3, <1>4, <1>5, <1>6, <2>1, <2>2, QuietThread
<1> QED BY <1>7, <1>8

(* Multiples of the length of a region move with the number of regions. *)
LEMMA Multiples ==
    ASSUME NEW n \in Nat
    PROVE  /\ MRLength * n \in Nat
           /\ MRLength * (n + 1) = MRLength * n + MRLength
           /\ n > 0 => MRLength * n >= MRLength /\ MRLength * (n - 1) = MRLength * n - MRLength
<1>1. MRLength \in Nat
  BY HooksAssumption
<1>2. MRLength * n \in Nat /\ MRLength * (n + 1) = MRLength * n + MRLength
  BY <1>1
<1>3. ASSUME n > 0
      PROVE  MRLength * n >= MRLength /\ MRLength * (n - 1) = MRLength * n - MRLength
  <2>1. PICK m \in Nat : n = m + 1
    BY <1>3
  <2>2. MRLength * m \in Nat /\ MRLength * (m + 1) = MRLength * m + MRLength
    BY <1>1
  <2>3. n - 1 = m
    BY <2>1
  <2> QED BY <1>1, <2>1, <2>2, <2>3
<1> QED BY <1>2, <1>3

(* The counting, under the mutex: the guards against going below zero never *)
(* take effect, since what is freed is still counted.                       *)
LEMMA CountLocallyCounts ==
    ASSUME LocalInv, IsFiniteSet(Threads), NEW h \in Threads, CountLocally(h)
    PROVE  LocalInv'
<1> DEFINE p == ProcOf[h]
           C(k) == Cardinality(CountedIn(p, k))
<1>1. /\ handles \in [Pids -> [Kinds -> Nat]] /\ p \in Pids
      /\ tpc \in [Threads -> Labels] /\ op \in [Threads -> Creates \cup Frees \cup {"none"}]
      /\ qp_count \in [Pids -> Nat] /\ mr_count \in [Pids -> Nat] /\ memory_used \in [Pids -> Nat]
      /\ MRLength \in Nat
  BY HooksAssumption DEF LocalInv, LocalTypes
<1>2. tpc[h] = "local" /\ op[h] \in {"create_qp", "destroy_qp", "reg_mr", "dereg_mr"}
  BY DEF CountLocally, LocalInv, PathOK
<1>3. PICK l \in {"snapshot", "return", "get", "tenant2"} :
        /\ tpc' = [tpc EXCEPT ![h] = l]
        /\ op[h] \in Frees => l = "tenant2"
  <2> DEFINE next == CASE op[h] = "create_qp" -> "snapshot"
                       [] op[h] = "reg_mr" -> IF tid[h] = 0 THEN "return" ELSE "get"
                       [] OTHER -> "tenant2"
  <2>1. next \in {"snapshot", "return", "get", "tenant2"} /\ (op[h] \in Frees => next = "tenant2")
    BY DEF Frees
  <2>2. tpc' = [tpc EXCEPT ![h] = next]
    BY DEF CountLocally, Goto
  <2> HIDE DEF next
  <2> QED BY <2>1, <2>2
<1>4. UNCHANGED <<started, slot_qp, handles, op, reg, why>>
  BY DEF CountLocally
<1>5. /\ tpc'[h] = l /\ op'[h] = op[h]
      /\ \A g \in Threads : g # h => tpc'[g] = tpc[g] /\ op'[g] = op[g]
  BY <1>1, <1>3, <1>4
<1>6. PathOK(h)'
  BY <1>2, <1>3, <1>5 DEF PathOK, Frees
<1>7. /\ op[h] \in {"create_qp", "reg_mr"} =>
            \A k : ~CountsIn(h, k) /\ (CountsIn(h, k)' <=> k = Kind(op[h]))
      /\ op[h] \in {"destroy_qp", "dereg_mr"} =>
            \A k : ~CountsIn(h, k)' /\ (CountsIn(h, k) <=> k = Kind(op[h]))
  <2>1. Kind(op[h])' = Kind(op[h])
    BY <1>5 DEF Kind
  <2> QED BY <1>2, <1>3, <1>5, <2>1 DEF CountsIn, Creates, Frees
<1>8. /\ handles[p]["QP"] \in Nat /\ handles[p]["MR"] \in Nat
      /\ C("QP") \in Nat /\ C("MR") \in Nat
      /\ qp_count[p] = handles[p]["QP"] + C("QP")
      /\ mr_count[p] = handles[p]["MR"] + C("MR")
      /\ memory_used[p] = MRLength * mr_count[p]
  <2>1. C("QP") \in Nat /\ C("MR") \in Nat
    BY <1>5, CountedMoves
  <2> QED BY <1>1, <2>1 DEF LocalInv, CountsOf, Kinds
<1>9. /\ mr_count[p] \in Nat /\ MRLength * mr_count[p] \in Nat
      /\ MRLength * (mr_count[p] + 1) = MRLength * mr_count[p] + MRLength
      /\ mr_count[p] > 0 =>
           /\ MRLength * mr_count[p] >= MRLength
           /\ MRLength * (mr_count[p] - 1) = MRLength * mr_count[p] - MRLength
  BY <1>1, Multiples
<1>10. ASSUME LocalTypes', CountsOf(p)',
              \A q \in Pids : q # p => /\ qp_count'[q] = qp_count[q] /\ mr_count'[q] = mr_count[q]
                                       /\ memory_used'[q] = memory_used[q]
       PROVE  LocalInv'
  BY <1>4, <1>5, <1>6, <1>10, OtherCounts
<1>11. CASE op[h] = "create_qp"
  <2>1. qp_count' = [qp_count EXCEPT ![p] = @ + 1] /\ UNCHANGED <<mr_count, memory_used>>
    BY <1>11 DEF CountLocally
  <2>2. LocalTypes'
    BY <1>1, <1>3, <1>4, <2>1 DEF LocalInv, LocalTypes, Labels
  <2>3. Kind(op[h]) = "QP"
    BY <1>11 DEF Kind
  <2>4. Cardinality(CountedIn(p, "QP")') = C("QP") + 1 /\ Cardinality(CountedIn(p, "MR")') = C("MR")
    BY <1>5, <1>7, <1>11, <2>3, CountedMoves
  <2>5. CountsOf(p)'
    BY <1>1, <1>4, <1>8, <2>1, <2>4 DEF CountsOf
  <2> QED BY <1>1, <1>10, <2>1, <2>2, <2>5
<1>12. CASE op[h] = "destroy_qp"
  <2>1. /\ qp_count' = [qp_count EXCEPT ![p] = IF @ >= 1 THEN @ - 1 ELSE @]
        /\ UNCHANGED <<mr_count, memory_used>>
    BY <1>12 DEF CountLocally
  <2>2. LocalTypes'
    <3>1. qp_count' \in [Pids -> Nat]
      BY <1>1, <2>1
    <3> QED BY <1>1, <1>3, <1>4, <2>1, <3>1 DEF LocalInv, LocalTypes, Labels
  <2>3. Kind(op[h]) = "QP"
    BY <1>12 DEF Kind
  <2>4. /\ Cardinality(CountedIn(p, "QP")') = C("QP") - 1 /\ C("QP") > 0
        /\ Cardinality(CountedIn(p, "MR")') = C("MR")
    BY <1>5, <1>7, <1>12, <2>3, CountedMoves
  <2>5. qp_count'[p] = qp_count[p] - 1
    BY <1>1, <1>8, <2>1, <2>4
  <2>6. CountsOf(p)'
    BY <1>1, <1>4, <1>8, <2>1, <2>4, <2>5 DEF CountsOf
  <2> QED BY <1>1, <1>10, <2>1, <2>2, <2>6
<1>13. CASE op[h] = "reg_mr"
  <2>1. /\ mr_count' = [mr_count EXCEPT ![p] = @ + 1]
        /\ memory_used' = [memory_used EXCEPT ![p] = @ + MRLength] /\ UNCHANGED qp_count
    BY <1>13 DEF CountLocally
  <2>2. LocalTypes'
    <3>1. mr_count' \in [Pids -> Nat] /\ memory_used' \in [Pids -> Nat]
      BY <1>1, <2>1
    <3> QED BY <1>1, <1>3, <1>4, <2>1, <3>1 DEF LocalInv, LocalTypes, Labels
  <2>3. Kind(op[h]) = "MR"
    BY <1>13 DEF Kind
  <2>4. Cardinality(CountedIn(p, "MR")') = C("MR") + 1 /\ Cardinality(CountedIn(p, "QP")') = C("QP")
    BY <1>5, <1>7, <1>13, <2>3, CountedMoves
  <2>5. mr_count'[p] = mr_count[p] + 1 /\ memory_used'[p] = memory_used[p] + MRLength
    BY <1>1, <2>1
  <2>6. memory_used'[p] = MRLength * mr_count'[p]
    BY <1>8, <1>9, <2>5
  <2>7. CountsOf(p)'
    BY <1>1, <1>4, <1>8, <2>1, <2>4, <2>5, <2>6 DEF CountsOf
  <2> QED BY <1>1, <1>10, <2>1, <2>2, <2>7
<1>14. CASE op[h] = "dereg_mr"
  <2>1. /\ mr_count' = [mr_count EXCEPT ![p] = IF @ >= 1 THEN @ - 1 ELSE @]
        /\ memory_used' = [memory_used EXCEPT ![p] = IF @ >= MRLength THEN @ - MRLength ELSE @]
        /\ UNCHANGED qp_count
    BY <1>14 DEF CountLocally
  <2>2. LocalTypes'
    <3>1. mr_count' \in [Pids -> Nat] /\ memory_used' \in [Pids -> Nat]
      BY <1>1, <2>1
    <3> QED BY <1>1, <1>3, <1>4, <2>1, <3>1 DEF LocalInv, LocalTypes, Labels
  <2>3. Kind(op[h]) = "MR"
    BY <1>14 DEF Kind
  <2>4. /\ Cardinality(CountedIn(p, "MR")') = C("MR") - 1 /\ C("MR") > 0
        /\ Cardinality(CountedIn(p, "QP")') = C("QP")
    BY <1>5, <1>7, <1>14, <2>3, CountedMoves
  <2>5. mr_count[p] > 0
    BY <1>8, <2>4
  <2>6. mr_count'[p] = mr_count[p] - 1 /\ memory_used'[p] = memory_used[p] - MRLength
    BY <1>1, <1>8, <1>9, <2>1, <2>5
  <2>7. memory_used'[p] = MRLength * mr_count'[p]
    BY <1>8, <1>9, <2>5, <2>6
  <2>8. CountsOf(p)'
    BY <1>1, <1>4, <1>8, <2>1, <2>4, <2>6, <2>7 DEF CountsOf
  <2> QED BY <1>1, <1>10, <2>1, <2>2, <2>8
<1> QED BY <1>2, <1>11, <1>12, <1>13, <1>14

(* A process ends: its counters and its threads start again from nothing.   *)
LEMMA ExitCounts ==
    ASSUME LocalInv, IsFiniteSet(Threads), NEW p \in Pids, ExitProcess(p)
    PROVE  LocalInv'
<1> DEFINE mine == {h \in Threads : ProcOf[h] = p}
<1>1. /\ started' = [started EXCEPT ![p] = FALSE]
      /\ qp_count' = [qp_count EXCEPT ![p] = 0] /\ mr_count' = [mr_count EXCEPT ![p] = 0]
      /\ memory_used' = [memory_used EXCEPT ![p] = 0]
      /\ handles' = [handles EXCEPT ![p] = [k \in Kinds |-> 0]]
      /\ tpc' = [h \in Threads |-> IF h \in mine THEN "idle" ELSE tpc[h]]
      /\ op' = [h \in Threads |-> IF h \in mine THEN "none" ELSE op[h]]
      /\ reg' = [h \in Threads |-> IF h \in mine THEN 0 ELSE reg[h]]
      /\ why' = [h \in Threads |-> IF h \in mine THEN "none" ELSE why[h]]
      /\ slot_qp' = slot_qp
  BY DEF ExitProcess
<1>2. LocalTypes'
  <2>1. /\ started' \in [Pids -> BOOLEAN] /\ qp_count' \in [Pids -> Nat]
        /\ mr_count' \in [Pids -> Nat] /\ memory_used' \in [Pids -> Nat]
    BY <1>1 DEF LocalInv, LocalTypes
  <2>2. handles' \in [Pids -> [Kinds -> Nat]] /\ slot_qp' \in [Pids -> Nat]
    BY <1>1 DEF LocalInv, LocalTypes
  <2>3. tpc' \in [Threads -> Labels] /\ op' \in [Threads -> Creates \cup Frees \cup {"none"}]
    BY <1>1 DEF LocalInv, LocalTypes, Labels
  <2>4. /\ reg' \in [Threads -> Nat]
        /\ why' \in [Threads -> {"none", "type", "tenant", "process", "global"}]
    BY <1>1 DEF LocalInv, LocalTypes
  <2> QED BY <2>1, <2>2, <2>3, <2>4 DEF LocalTypes
<1>3. ASSUME NEW h \in Threads PROVE PathOK(h)'
  <2>1. CASE h \in mine
    BY <1>1, <2>1 DEF PathOK, Frees
  <2>2. CASE h \notin mine
    BY <1>1, <2>2 DEF LocalInv, PathOK
  <2> QED BY <2>1, <2>2
<1>4. ASSUME NEW k PROVE CountedIn(p, k)' = {}
  BY <1>1 DEF CountedIn, ThreadsOf, CountsIn
<1>5. CountsOf(p)'
  <2>1. /\ qp_count'[p] = 0 /\ mr_count'[p] = 0 /\ memory_used'[p] = 0
        /\ handles'[p]["QP"] = 0 /\ handles'[p]["MR"] = 0
    BY <1>1 DEF LocalInv, LocalTypes, Kinds
  <2>2. Cardinality(CountedIn(p, "QP")') = 0 /\ Cardinality(CountedIn(p, "MR")') = 0
    BY <1>4, FS_EmptySet
  <2>3. MRLength * 0 = 0
    BY HooksAssumption
  <2> QED BY <2>1, <2>2, <2>3 DEF CountsOf
<1>6. ASSUME NEW q \in Pids, q # p PROVE CountsOf(q)'
  <2>1. /\ qp_count'[q] = qp_count[q] /\ mr_count'[q] = mr_count[q]
        /\ memory_used'[q] = memory_used[q] /\ handles'[q] = handles[q]
    BY <1>1, <1>6 DEF LocalInv, LocalTypes
  <2>2. \A k : CountedIn(q, k)' = CountedIn(q, k)
    BY <1>1, <1>6 DEF CountedIn, ThreadsOf, CountsIn, Kind
  <2>3. CountsOf(q)
    BY DEF LocalInv
  <2> QED BY <2>1, <2>2, <2>3 DEF CountsOf
<1> QED BY <1>2, <1>3, <1>5, <1>6 DEF LocalInv

LEMMA LocalStep ==
    ASSUME LocalInv, IsFiniteSet(Threads), [HooksNext]_hooksVars
    PROVE  LocalInv'
<1>1. ASSUME UNCHANGED <<localVars, slot_qp, handles, threadVars>>,
             started' \in [Pids -> BOOLEAN]
      PROVE  LocalInv'
  <2>1. UNCHANGED <<qp_count, mr_count, memory_used, slot_qp, handles, tpc, op, reg, why>>
    BY <1>1 DEF localVars, threadVars
  <2>2. LocalTypes'
    BY <1>1, <2>1 DEF LocalInv, LocalTypes
  <2>3. \A h \in Threads : PathOK(h)'
    BY <2>1 DEF LocalInv, PathOK
  <2>4. \A p, k : CountedIn(p, k)' = CountedIn(p, k)
    BY <2>1 DEF CountedIn, ThreadsOf, CountsIn, Kind
  <2>5. \A p \in Pids : CountsOf(p)'
    BY <2>1, <2>4 DEF LocalInv, CountsOf
  <2> QED BY <2>2, <2>3, <2>5 DEF LocalInv
<1>2. started \in [Pids -> BOOLEAN]
  BY DEF LocalInv, LocalTypes
<1>3. CASE UNCHANGED hooksVars
  BY <1>1, <1>2, <1>3 DEF hooksVars
<1>4. ASSUME NEW p \in Pids, InitHooks(p) PROVE LocalInv'
  BY <1>1, <1>2, <1>4 DEF InitHooks
<1>5. CASE Admin
  BY <1>1, <1>2, <1>5 DEF Admin
<1>6. ASSUME NEW h \in Threads, StepOf(h) PROVE LocalInv'
  BY <1>6, ChecksAndCharges, RealVerbCounts, CountLocallyCounts, ReturnCounts DEF StepOf
<1> QED BY <1>3, <1>4, <1>5, <1>6, CallCounts, ExitCounts DEF HooksNext

LEMMA LocalInit ==
    ASSUME HooksInit, IsFiniteSet(Threads)
    PROVE  LocalInv
<1>1. LocalTypes
  BY DEF HooksInit, LocalTypes, Labels
<1>2. \A h \in Threads : tpc[h] = "idle" /\ op[h] = "none"
  BY DEF HooksInit
<1>3. \A h \in Threads : PathOK(h)
  BY <1>2 DEF PathOK, Frees
<1>4. \A p, k : CountedIn(p, k) = {}
  BY <1>2 DEF CountedIn, ThreadsOf, CountsIn
<1>5. ASSUME NEW p \in Pids PROVE CountsOf(p)
  <2>1. /\ qp_count[p] = 0 /\ mr_count[p] = 0 /\ memory_used[p] = 0
        /\ handles[p]["QP"] = 0 /\ handles[p]["MR"] = 0
    BY DEF HooksInit, Kinds
  <2>2. Cardinality(CountedIn(p, "QP")) = 0 /\ Cardinality(CountedIn(p, "MR")) = 0
    BY <1>4, FS_EmptySet
  <2>3. MRLength * 0 = 0
    BY HooksAssumption
  <2> QED BY <2>1, <2>2, <2>3 DEF CountsOf
<1> QED BY <1>1, <1>3, <1>5 DEF LocalInv

(* g_intercept_state under resource_mutex: in every process the counters of *)
(* QPs, MRs and memory are what the process holds, but for the calls that   *)
(* are at the mutex, for any interleaving of any number of threads, and     *)
(* across the end of processes.                                             *)
THEOREM LocalCountsCorrect ==
    ASSUME IsFiniteSet(Threads)
    PROVE  HooksSpec => []LocalCountsExact
<1> DEFINE Inv == HooksInv /\ LocalInv
<1>1. HooksInit => Inv
  BY HooksInitInv, LocalInit
<1>2. Inv /\ [HooksNext]_hooksVars => Inv'
  BY HooksStep, LocalStep
<1>3. Inv => LocalCountsExact
  <2> SUFFICES ASSUME Inv PROVE LocalCountsExact
    OBVIOUS
  <2>1. HooksTypeOK
    BY DEF HooksInv, LocalInv, LocalTypes, ThreadTypes, HooksTypeOK
  <2>2. ASSUME NEW p \in Pids
        PROVE  LET Due(o) == Cardinality({h \in ThreadsOf(p) : op[h] = o /\ tpc[h] = "local"})
                   mrs == Held(p, "MR") - Due("reg_mr") + Due("dereg_mr")
               IN /\ qp_count[p] = Held(p, "QP") - Due("create_qp") + Due("destroy_qp")
                  /\ mr_count[p] = mrs
                  /\ memory_used[p] = MRLength * mrs
    <3> DEFINE Due(o) == Cardinality({h \in ThreadsOf(p) : op[h] = o /\ tpc[h] = "local"})
    <3>1. /\ "create_qp" \in Creates /\ "destroy_qp" \in Frees
          /\ Kind("create_qp") = "QP" /\ Kind("destroy_qp") = "QP"
          /\ \A o \in Creates \cup Frees : Kind(o) = "QP" => o \in {"create_qp", "destroy_qp"}
      BY DEF Creates, Frees, Kind
    <3>2. /\ "reg_mr" \in Creates /\ "dereg_mr" \in Frees
          /\ Kind("reg_mr") = "MR" /\ Kind("dereg_mr") = "MR"
          /\ \A o \in Creates \cup Frees : Kind(o) = "MR" => o \in {"reg_mr", "dereg_mr"}
      BY DEF Creates, Frees, Kind
    <3>3. handles[p]["QP"] + Cardinality(CountedIn(p, "QP"))
            = Held(p, "QP") - Due("create_qp") + Due("destroy_qp")
      BY <3>1, CountsMeanHeld
    <3>4. handles[p]["MR"] + Cardinality(CountedIn(p, "MR"))
            = Held(p, "MR") - Due("reg_mr") + Due("dereg_mr")
      BY <3>2, CountsMeanHeld
    <3>5. CountsOf(p)
      BY DEF LocalInv
    <3> QED BY <3>3, <3>4, <3>5 DEF CountsOf
  <2> QED BY <2>1, <2>2 DEF LocalCountsExact
<1> QED BY <1>1, <1>2, <1>3, PTL DEF HooksSpec

-----------------------------------------------------------------------------
(***************************************************************************)
(* Tenant isolation, for any number of tenants, processes and threads, any *)
(* quotas, and any administration of the others: a tenant with one thread  *)
(* that administrators leave alone is charged for what it holds, never     *)
(* holds more than its quota and is never refused below it.                *)
(***************************************************************************)
(* Process p is bound to tenant t. *)
Bound(p, t) == \E i \in Slots : pid_mappings[i] = [pid |-> p, tenant_id |-> t]

(* Nobody has touched the tenant's row but its own thread. *)
RowOK(t) ==
    /\ status[t] = "ACTIVE" /\ quota[t] = InitQuota
    /\ usage[t].count["Memory"] = 0
    /\ (\A h \in Threads : ~Bound(ProcOf[h], t)) => \A k \in Kinds : usage[t].count[k] = 0

(* Only a process that names a quiet tenant in its environment is bound to  *)
(* it, by its own start; and such a process is bound to no other.           *)
HomeOK(p) ==
    \A t \in TenantIds \ {0} : Bound(p, t) /\ {t, EnvTenant[p]} \cap Quiet # {} =>
        t = EnvTenant[p] /\ started[p]

(* A process that has not started, or has no thread, holds nothing. *)
DormantOK(p) ==
    ~started[p] \/ ThreadsOf(p) = {} =>
        /\ \A k \in Kinds : handles[p][k] = 0
        /\ \A h \in ThreadsOf(p) : tpc[h] = "idle"

(* The charge of the tenant runs ahead of the handles: an object is charged *)
(* before its handle is returned and refunded after it was given up.        *)
Ahead(h, k) ==
    /\ op[h] # "none" /\ Kind(op[h]) = k
    /\ \/ op[h] \in Creates /\ tpc[h] = "return"
       \/ op[h] \in Frees /\ tpc[h] \in {"real", "local", "tenant2", "get", "put"}

Passed == {"process", "global", "real", "local", "snapshot", "publish", "tenant2", "get", "put"}

(* The one thread of quiet tenant t: what the table charges, what the       *)
(* thread has read of it, and what its passed or failed check has shown.    *)
ThreadOK(h, t) ==
    /\ \A k \in Kinds :
         usage[t].count[k] = handles[ProcOf[h]][k] + (IF Ahead(h, k) THEN 1 ELSE 0)
    /\ tpc[h] \in {"info", "limit", "get", "put"} => tid[h] = t
    /\ op[h] = "reg_mr" /\ tpc[h] \notin {"tenant", "denied"} => tid[h] = t
    /\ tpc[h] = "limit" => info[h] = [usage |-> usage[t], quota |-> quota[t]]
    /\ tpc[h] = "put" => info[h].usage = usage[t]
    /\ \A k \in {"QP", "MR"} : usage[t].count[k] <= InitQuota[k]
    /\ tpc[h] \in {"tenant", "info", "limit", "process", "global"} => op[h] \in {"create_qp", "reg_mr"}
    /\ op[h] \in {"create_qp", "reg_mr"} /\ tpc[h] \in Passed =>
         usage[t].count[Kind(op[h])] + 1 <= InitQuota[Kind(op[h])]
    /\ tpc[h] = "denied" /\ why[h] = "tenant" =>
         \/ usage[t].count[Kind(op[h])] >= InitQuota[Kind(op[h])]
         \/ op[h] = "reg_mr" /\ MRLength > InitQuota["Memory"] /\ InitQuota["Memory"] > 0

Isolation ==
    /\ \A t \in Quiet : RowOK(t)
    /\ \A p \in Pids : HomeOK(p) /\ DormantOK(p)
    /\ \A h \in Threads : tid[h] \in Quiet => Bound(ProcOf[h], tid[h])
    /\ \A h \in Threads, t \in Quiet : Bound(ProcOf[h], t) => ThreadOK(h, t)

(* The inductive invariant. *)
QuotaInv == TableInv /\ HooksInv /\ LocalInv /\ Isolation

-----------------------------------------------------------------------------
(* Sums over the processes of a tenant that has one process, or none.  The  *)
(* sum is a recursive function on sets of processes, which is unfolded here *)
(* for sets of at most one.                                                 *)
LEMMA SumOfOne ==
    ASSUME NEW p, NEW k, NEW t, MembersOf(t) = {p}, Held(p, k) \in Int
    PROVE  HeldByTenant(t, k) = Held(p, k)
<1> DEFINE S == {p}
           F(i) == [s \in SUBSET S |->
                      IF s = {} THEN 0
                      ELSE Held(CHOOSE x \in s : TRUE, k) + i[s \ {CHOOSE x \in s : TRUE}]]
           sum == CHOOSE i : i = F(i)
           w == [s \in SUBSET S |-> IF s = {} THEN 0 ELSE Held(p, k)]
<1>1. HeldByTenant(t, k) = sum[S]
  BY DEF HeldByTenant, MapThenSumSet, MapThenFoldSet
<1>2. \A s \in SUBSET S :
        s = {} \/ (s = S /\ (CHOOSE x \in s : TRUE) = p /\ s \ {CHOOSE x \in s : TRUE} = {})
  OBVIOUS
<1>3. w = F(w)
  <2>1. \A s \in SUBSET S : w[s] = F(w)[s]
    BY <1>2
  <2> QED BY <2>1
<1>4. sum = F(sum)
  <2>1. \E i : i = F(i)
    BY <1>3
  <2> HIDE DEF F
  <2> QED BY <2>1
<1> HIDE DEF sum
<1>5. sum[{}] = 0
  BY <1>4
<1>6. sum[S] = Held(p, k) + sum[{}]
  <2>1. F(sum)[S] = Held(p, k) + sum[{}]
    BY <1>2
  <2> QED BY <1>4, <2>1
<1> QED BY <1>1, <1>5, <1>6

LEMMA SumOfNone ==
    ASSUME NEW k, NEW t, MembersOf(t) = {}
    PROVE  HeldByTenant(t, k) = 0
<1> DEFINE F(i) == [s \in SUBSET {} |->
                      IF s = {} THEN 0
                      ELSE Held(CHOOSE x \in s : TRUE, k) + i[s \ {CHOOSE x \in s : TRUE}]]
           sum == CHOOSE i : i = F(i)
           w == [s \in SUBSET {} |-> 0]
<1>1. HeldByTenant(t, k) = sum[{}]
  BY DEF HeldByTenant, MapThenSumSet, MapThenFoldSet
<1>2. w = F(w)
  OBVIOUS
<1>3. sum = F(sum)
  <2>1. \E i : i = F(i)
    BY <1>2
  <2> HIDE DEF F
  <2> QED BY <2>1
<1> HIDE DEF sum
<1>4. sum[{}] = 0
  BY <1>3
<1> QED BY <1>1, <1>4

-----------------------------------------------------------------------------
(* tenant_get_process_tenant finds the tenant a process is bound to. *)
LEMMA BoundIs ==
    ASSUME TableInv, 0 \notin Pids, NEW p \in Pids
    PROVE  /\ \A t \in TenantIds \ {0} : tenant_get_process_tenant(p) = t <=> Bound(p, t)
           /\ \A s, t : Bound(p, s) /\ Bound(p, t) => s = t
<1>1. \A i \in Slots : pid_mappings[i] \in Mapping /\ (pid_mappings[i].pid = p => i \in Occupied)
  BY DEF TableInv, TableTypeOK, Occupied
<1>2. \A i, j \in Slots : pid_mappings[i].pid = p /\ pid_mappings[j].pid = p => i = j
  BY <1>1 DEF TableInv, BindingsUnique
<1>3. CASE Unmapped(p)
  BY <1>3 DEF Unmapped, Bound, tenant_get_process_tenant
<1>4. CASE ~Unmapped(p)
  <2>1. PICK c \in Slots : pid_mappings[c].pid = p
    BY <1>4 DEF Unmapped
  <2>2. (CHOOSE i \in Slots : pid_mappings[i].pid = p) = c
    BY <1>2, <2>1
  <2>3. tenant_get_process_tenant(p) = pid_mappings[c].tenant_id
    BY <1>4, <2>2 DEF tenant_get_process_tenant
  <2>4. pid_mappings[c] = [pid |-> p, tenant_id |-> pid_mappings[c].tenant_id]
    BY <1>1, <2>1 DEF Mapping
  <2>5. \A t : Bound(p, t) <=> pid_mappings[c].tenant_id = t
    BY <1>2, <2>1, <2>4 DEF Bound
  <2> QED BY <2>3, <2>5
<1> QED BY <1>3, <1>4

(* Bindings are what pid_mappings says. *)
LEMMA SameBound ==
    ASSUME UNCHANGED pid_mappings
    PROVE  \A p, t : Bound(p, t)' <=> Bound(p, t)
BY DEF Bound

(* tenant_bind_process changes the binding of its process only. *)
LEMMA BindBound ==
    ASSUME TableTypeOK, 0 \notin Pids, NEW p \in Pids, NEW t, tenant_bind_process(p, t)
    PROVE  /\ \A q, s : Bound(q, s)' => Bound(q, s) \/ (q = p /\ s = t)
           /\ \A q \in Pids : \A s : q # p /\ Bound(q, s) => Bound(q, s)'
<1>1. PICK i \in Slots : /\ pid_mappings[i].pid \in {p, 0}
                         /\ pid_mappings' = [pid_mappings EXCEPT ![i] = [pid |-> p, tenant_id |-> t]]
  BY DEF tenant_bind_process, RebindProcess, BindNewProcess, FirstSlot
<1>2. \A j \in Slots : pid_mappings'[j] = IF j = i THEN [pid |-> p, tenant_id |-> t] ELSE pid_mappings[j]
  BY <1>1 DEF TableTypeOK
<1>3. ASSUME NEW q, NEW s, Bound(q, s)' PROVE Bound(q, s) \/ (q = p /\ s = t)
  BY <1>2, <1>3 DEF Bound
<1>4. ASSUME NEW q \in Pids, NEW s, q # p, Bound(q, s) PROVE Bound(q, s)'
  BY <1>1, <1>2, <1>4 DEF Bound
<1> QED BY <1>3, <1>4

LEMMA UnbindBound ==
    ASSUME TableTypeOK, 0 \notin Pids, NEW p \in Pids, tenant_unbind_process(p)
    PROVE  /\ \A q \in Pids : \A s : Bound(q, s)' => Bound(q, s)
           /\ \A q \in Pids : \A s : q # p /\ Bound(q, s) => Bound(q, s)'
<1>1. PICK i \in Slots : /\ pid_mappings[i].pid = p
                         /\ pid_mappings' = [pid_mappings EXCEPT ![i] = EmptySlot]
  BY DEF tenant_unbind_process, FirstSlot
<1>2. \A j \in Slots : pid_mappings'[j] = IF j = i THEN EmptySlot ELSE pid_mappings[j]
  BY <1>1 DEF TableTypeOK
<1>3. ASSUME NEW q \in Pids, NEW s, Bound(q, s)' PROVE Bound(q, s)
  BY <1>2, <1>3 DEF Bound, EmptySlot
<1>4. ASSUME NEW q \in Pids, NEW s, q # p, Bound(q, s) PROVE Bound(q, s)'
  BY <1>1, <1>2, <1>4 DEF Bound
<1> QED BY <1>3, <1>4

LEMMA DeleteBound ==
    ASSUME TableTypeOK, 0 \notin Pids, NEW t, tenant_delete(t)
    PROVE  /\ \A q \in Pids : \A s : Bound(q, s)' => Bound(q, s)
           /\ \A q \in Pids : \A s : s # t /\ Bound(q, s) => Bound(q, s)'
<1>1. \A j \in Slots : pid_mappings'[j] = IF pid_mappings[j].tenant_id = t THEN EmptySlot
                                          ELSE pid_mappings[j]
  BY DEF tenant_delete, SlotsOf
<1>2. ASSUME NEW q \in Pids, NEW s, Bound(q, s)' PROVE Bound(q, s)
  BY <1>1, <1>2 DEF Bound, EmptySlot
<1>3. ASSUME NEW q \in Pids, NEW s, s # t, Bound(q, s) PROVE Bound(q, s)'
  BY <1>1, <1>3 DEF Bound
<1> QED BY <1>2, <1>3

-----------------------------------------------------------------------------
(* Quiet tenants are tenants, and none of them is administered. *)
LEMMA QuietIds == Quiet \subseteq TenantIds \ {0} /\ Quiet \cap AdminTenants = {}
BY DEF Quiet, Tenants

(* What is bound to a quiet tenant is the process that names it. *)
LEMMA HomeOnly ==
    ASSUME QuotaInv, NEW p \in Pids, NEW t \in Quiet, Bound(p, t)
    PROVE  t = EnvTenant[p] /\ started[p]
BY QuietIds DEF QuotaInv, Isolation, HomeOK

(* Administrators do not reach a quiet tenant's row, nor its process.       *)
LEMMA AdminReach ==
    ASSUME QuotaInv, 0 \notin Pids, Admin
    PROVE  /\ \A t \in Quiet : status'[t] = status[t] /\ quota'[t] = quota[t] /\ usage'[t] = usage[t]
           /\ \A q \in Pids : \A s \in TenantIds \ {0} :
                Bound(q, s)' => Bound(q, s) \/ (q \in AdminPids /\ s \in AdminTenants)
           /\ \A q \in Pids \ AdminPids : \A s \in Quiet : Bound(q, s) => Bound(q, s)'
<1>1. /\ TableTypeOK /\ AdminTenants \subseteq TenantIds \ {0} /\ AdminPids \subseteq Pids
      /\ Quiet \subseteq TenantIds \ {0} /\ Quiet \cap AdminTenants = {}
  BY HooksAssumption, QuietIds DEF QuotaInv, TableInv
<1>2. ASSUME NEW t \in AdminTenants, NEW q, tenant_create(t, q)
      PROVE  /\ UNCHANGED pid_mappings
             /\ \A s \in Quiet : status'[s] = status[s] /\ quota'[s] = quota[s] /\ usage'[s] = usage[s]
  BY <1>1, <1>2 DEF tenant_create, TableTypeOK
<1>3. ASSUME NEW t \in AdminTenants, tenant_delete(t)
      PROVE  \A s \in Quiet : status'[s] = status[s] /\ quota'[s] = quota[s] /\ usage'[s] = usage[s]
  BY <1>1, <1>3 DEF tenant_delete, TableTypeOK
<1>4. ASSUME NEW t \in AdminTenants, NEW q, tenant_update_quota(t, q)
      PROVE  /\ UNCHANGED pid_mappings
             /\ \A s \in Quiet : status'[s] = status[s] /\ quota'[s] = quota[s] /\ usage'[s] = usage[s]
  BY <1>1, <1>4 DEF tenant_update_quota, bindingVars, TableTypeOK
<1>5. ASSUME NEW t \in AdminTenants, NEW s, tenant_set_status(t, s)
      PROVE  /\ UNCHANGED pid_mappings
             /\ \A r \in Quiet : status'[r] = status[r] /\ quota'[r] = quota[r] /\ usage'[r] = usage[r]
  BY <1>1, <1>5 DEF tenant_set_status, bindingVars, TableTypeOK
<1>6. ASSUME NEW p, NEW t, tenant_bind_process(p, t) \/ tenant_unbind_process(p)
      PROVE  UNCHANGED <<status, quota, usage>>
  BY <1>6 DEF tenant_bind_process, tenant_unbind_process, tenantVars
<1>7. CASE \E t \in AdminTenants : \/ \E q \in QuotaArgs : tenant_create(t, q) \/ tenant_update_quota(t, q)
                                   \/ \E s \in StatusArgs : tenant_set_status(t, s)
  BY <1>2, <1>4, <1>5, <1>7, SameBound
<1>8. CASE \E t \in AdminTenants : tenant_delete(t)
  <2>1. PICK t \in AdminTenants : tenant_delete(t)
    BY <1>8
  <2>2. /\ \A q \in Pids : \A s : Bound(q, s)' => Bound(q, s)
        /\ \A q \in Pids : \A s : s # t /\ Bound(q, s) => Bound(q, s)'
    BY <1>1, <2>1, DeleteBound
  <2> QED BY <1>1, <1>3, <2>1, <2>2
<1>9. CASE \E p \in AdminPids, t \in AdminTenants : tenant_bind_process(p, t)
  <2>1. PICK p \in AdminPids, t \in AdminTenants : tenant_bind_process(p, t)
    BY <1>9
  <2>2. /\ \A q, s : Bound(q, s)' => Bound(q, s) \/ (q = p /\ s = t)
        /\ \A q \in Pids : \A s : q # p /\ Bound(q, s) => Bound(q, s)'
    BY <1>1, <2>1, BindBound
  <2> QED BY <1>1, <1>6, <2>1, <2>2
<1>10. CASE \E p \in AdminPids : tenant_unbind_process(p)
  <2>1. PICK p \in AdminPids : tenant_unbind_process(p)
    BY <1>10
  <2>2. /\ \A q \in Pids : \A s : Bound(q, s)' => Bound(q, s)
        /\ \A q \in Pids : \A s : q # p /\ Bound(q, s) => Bound(q, s)'
    BY <1>1, <2>1, UnbindBound
  <2> QED BY <1>1, <1>6, <2>1, <2>2
<1> QED BY <1>7, <1>8, <1>9, <1>10 DEF Admin

(* What the invariant says of a thread depends on its own state, its        *)
(* process's handles and its tenant's row.                                  *)
LEMMA ThreadFrame ==
    ASSUME NEW h \in Threads, NEW t, ThreadOK(h, t),
           tpc'[h] = tpc[h], op'[h] = op[h], tid'[h] = tid[h], info'[h] = info[h], why'[h] = why[h],
           handles'[ProcOf[h]] = handles[ProcOf[h]],
           usage'[t] = usage[t], quota'[t] = quota[t]
    PROVE  ThreadOK(h, t)'
<1>1. \A k : Ahead(h, k)' <=> Ahead(h, k)
  BY DEF Ahead, Kind
<1>2. Kind(op[h])' = Kind(op[h])
  BY DEF Kind
<1> QED BY <1>1, <1>2 DEF ThreadOK, Passed

(* A step of the administrators keeps the invariant of quiet tenants.       *)
LEMMA AdminIsolation ==
    ASSUME QuotaInv, QuietAlone, Admin
    PROVE  Isolation'
<1>1. /\ \A t \in Quiet : status'[t] = status[t] /\ quota'[t] = quota[t] /\ usage'[t] = usage[t]
      /\ \A q \in Pids : \A s \in TenantIds \ {0} :
           Bound(q, s)' => Bound(q, s) \/ (q \in AdminPids /\ s \in AdminTenants)
      /\ \A q \in Pids \ AdminPids : \A s \in Quiet : Bound(q, s) => Bound(q, s)'
  BY AdminReach DEF QuietAlone
<1>2. UNCHANGED <<started, handles, tpc, op, tid, info, why>>
  BY DEF Admin, threadVars
<1>3. ProcOf \in [Threads -> Pids]
  BY HooksAssumption
<1>4. \A q \in Pids : \A s \in Quiet : Bound(q, s)' <=> Bound(q, s)
  <2>1. \A q \in Pids : \A s \in Quiet : Bound(q, s)' => Bound(q, s)
    BY <1>1, QuietIds
  <2>2. ASSUME NEW q \in Pids, NEW s \in Quiet, Bound(q, s) PROVE q \notin AdminPids
    BY <2>2, HomeOnly DEF QuietAlone
  <2> QED BY <1>1, <2>1, <2>2
<1>5. ASSUME NEW t \in Quiet PROVE RowOK(t)'
  BY <1>1, <1>3, <1>4 DEF QuotaInv, Isolation, RowOK
<1>6. ASSUME NEW p \in Pids PROVE HomeOK(p)'
  <2>1. SUFFICES ASSUME NEW t \in TenantIds \ {0}, Bound(p, t)', {t, EnvTenant[p]} \cap Quiet # {}
                 PROVE  t = EnvTenant[p] /\ started[p]
    BY <1>2 DEF HomeOK
  <2>2. Bound(p, t)
    BY <1>1, <2>1, QuietIds DEF QuietAlone
  <2> QED BY <2>1, <2>2 DEF QuotaInv, Isolation, HomeOK
<1>7. ASSUME NEW p \in Pids PROVE DormantOK(p)'
  BY <1>2 DEF QuotaInv, Isolation, DormantOK, ThreadsOf
<1>8. ASSUME NEW h \in Threads, tid'[h] \in Quiet PROVE Bound(ProcOf[h], tid[h])'
  <2>1. PICK t \in Quiet : t = tid[h]
    BY <1>2, <1>8
  <2>2. Bound(ProcOf[h], t)
    BY <2>1 DEF QuotaInv, Isolation
  <2>3. Bound(ProcOf[h], t)'
    BY <1>3, <1>4, <2>2
  <2> QED BY <1>2, <2>1, <2>3
<1>9. ASSUME NEW h \in Threads, NEW t \in Quiet, Bound(ProcOf[h], t)' PROVE ThreadOK(h, t)'
  <2>1. ThreadOK(h, t)
    BY <1>3, <1>4, <1>9 DEF QuotaInv, Isolation
  <2> QED BY <1>1, <1>2, <2>1, ThreadFrame
<1> QED BY <1>5, <1>6, <1>7, <1>8, <1>9 DEF Isolation

(* A process that starts binds itself at most, to the tenant it names,      *)
(* which nothing has been charged to yet when it is a quiet one.            *)
LEMMA StartIsolation ==
    ASSUME QuotaInv, QuietAlone, NEW p \in Pids, InitHooks(p)
    PROVE  Isolation'
<1>1. /\ UNCHANGED <<handles, tpc, op, tid, info, why>>
      /\ started' = [started EXCEPT ![p] = TRUE] /\ ~started[p]
      /\ started \in [Pids -> BOOLEAN]
  BY DEF InitHooks, threadVars, QuotaInv, LocalInv, LocalTypes
<1>2. UNCHANGED <<status, quota, usage>>
  BY DEF InitHooks, tenant_bind_process, tableVars, tenantVars
<1>3. /\ \A q, s : Bound(q, s)' => Bound(q, s) \/ (q = p /\ s = EnvTenant[p])
      /\ \A q \in Pids : \A s : q # p /\ Bound(q, s) => Bound(q, s)'
  <2>1. CASE tenant_bind_process(p, EnvTenant[p])
    BY <2>1, BindBound DEF QuotaInv, TableInv, QuietAlone
  <2>2. CASE UNCHANGED tableVars
    <3>1. UNCHANGED pid_mappings
      BY <2>2 DEF tableVars, bindingVars
    <3> QED BY <3>1, SameBound
  <2> QED BY <2>1, <2>2 DEF InitHooks
<1>4. ProcOf \in [Threads -> Pids]
  BY HooksAssumption
<1>5. \A q \in Pids : \A t \in Quiet : Bound(q, t) => q # p /\ t = EnvTenant[q] /\ Bound(q, t)'
  BY <1>1, <1>3, HomeOnly
<1>6. ASSUME NEW t \in Quiet PROVE RowOK(t)'
  <2>1. RowOK(t)
    BY DEF QuotaInv, Isolation
  <2>2. (\A h \in Threads : ~Bound(ProcOf[h], t)') => \A h \in Threads : ~Bound(ProcOf[h], t)
    BY <1>4, <1>5
  <2> QED BY <1>2, <2>1, <2>2 DEF RowOK
<1>7. ASSUME NEW q \in Pids PROVE HomeOK(q)'
  <2>1. SUFFICES ASSUME NEW t \in TenantIds \ {0}, Bound(q, t)', {t, EnvTenant[q]} \cap Quiet # {}
                 PROVE  t = EnvTenant[q] /\ started'[q]
    BY DEF HomeOK
  <2>2. CASE Bound(q, t)
    <3>1. t = EnvTenant[q] /\ started[q]
      BY <2>1, <2>2 DEF QuotaInv, Isolation, HomeOK
    <3> QED BY <1>1, <3>1
  <2>3. CASE q = p /\ t = EnvTenant[p]
    BY <1>1, <2>3
  <2> QED BY <1>3, <2>1, <2>2, <2>3
<1>8. ASSUME NEW q \in Pids PROVE DormantOK(q)'
  <2>1. DormantOK(q) /\ (started'[q] = started[q] \/ (q = p /\ ~started[q] /\ started'[q]))
    BY <1>1 DEF QuotaInv, Isolation
  <2> QED BY <1>1, <2>1 DEF DormantOK, ThreadsOf
<1>9. ASSUME NEW h \in Threads, tid'[h] \in Quiet PROVE Bound(ProcOf[h], tid[h])'
  <2>1. PICK t \in Quiet : t = tid[h]
    BY <1>1, <1>9
  <2>2. Bound(ProcOf[h], t)
    BY <2>1 DEF QuotaInv, Isolation
  <2>3. Bound(ProcOf[h], t)'
    BY <1>4, <1>5, <2>2
  <2> QED BY <1>1, <2>1, <2>3
<1>10. ASSUME NEW h \in Threads, NEW t \in Quiet, Bound(ProcOf[h], t)' PROVE ThreadOK(h, t)'
  <2>1. CASE Bound(ProcOf[h], t)
    <3>1. ThreadOK(h, t)
      BY <2>1 DEF QuotaInv, Isolation
    <3> QED BY <1>1, <1>2, <3>1, ThreadFrame
  <2>2. CASE ~Bound(ProcOf[h], t)
    <3>1. ProcOf[h] = p /\ t = EnvTenant[p]
      BY <1>3, <1>10, <2>2
    <3>2. \A g \in Threads : ~Bound(ProcOf[g], t)
      <4>1. \A q \in Pids : EnvTenant[q] = t => q = p
        BY <3>1 DEF QuietAlone
      <4> QED BY <1>4, <1>5, <4>1
    <3>3. \A k \in Kinds : usage[t].count[k] = 0
      BY <3>2 DEF QuotaInv, Isolation, RowOK
    <3>4. tpc[h] = "idle" /\ \A k \in Kinds : handles[p][k] = 0
      BY <1>1, <3>1 DEF QuotaInv, Isolation, DormantOK, ThreadsOf
    <3>5. op[h] = "none"
      BY <3>4 DEF QuotaInv, LocalInv, PathOK
    <3>6. \A k : ~Ahead(h, k)'
      BY <1>1, <3>5 DEF Ahead
    <3>7. \A k \in {"QP", "MR"} : k \in Kinds /\ 0 <= InitQuota[k]
      BY HooksAssumption DEF Kinds, Quota, Resources
    <3>8. tpc'[h] = "idle" /\ op'[h] = "none" /\ usage'[t] = usage[t] /\ handles' = handles
      BY <1>1, <1>2, <3>4, <3>5
    <3> QED BY <3>1, <3>3, <3>4, <3>6, <3>7, <3>8 DEF ThreadOK, Passed
  <2> QED BY <2>1, <2>2
<1> QED BY <1>6, <1>7, <1>8, <1>9, <1>10 DEF Isolation

(* A process that ends is one that administrators reach, so it is bound to  *)
(* no quiet tenant.                                                         *)
LEMMA ExitIsolation ==
    ASSUME QuotaInv, QuietAlone, NEW p \in Pids, ExitProcess(p)
    PROVE  Isolation'
<1>1. /\ p \in AdminPids /\ EnvTenant[p] \notin Quiet
      /\ started' = [started EXCEPT ![p] = FALSE] /\ started \in [Pids -> BOOLEAN]
      /\ handles' = [handles EXCEPT ![p] = [k \in Kinds |-> 0]]
      /\ handles \in [Pids -> [Kinds -> Nat]]
  BY DEF ExitProcess, QuietAlone, QuotaInv, LocalInv, LocalTypes
<1>2. \A h \in Threads :
        IF ProcOf[h] = p THEN tpc'[h] = "idle" /\ tid'[h] = 0
        ELSE /\ tpc'[h] = tpc[h] /\ op'[h] = op[h] /\ tid'[h] = tid[h]
             /\ info'[h] = info[h] /\ why'[h] = why[h]
  BY DEF ExitProcess
<1>3. UNCHANGED <<status, quota, usage, pid_mappings>>
  BY DEF ExitProcess, tableVars, tenantVars, bindingVars
<1>4. \A q, t : Bound(q, t)' <=> Bound(q, t)
  BY <1>3, SameBound
<1>5. \A t \in Quiet : ~Bound(p, t)
  BY <1>1, HomeOnly
<1>6. ProcOf \in [Threads -> Pids]
  BY HooksAssumption
<1>7. ASSUME NEW t \in Quiet PROVE RowOK(t)'
  BY <1>3, <1>4 DEF QuotaInv, Isolation, RowOK
<1>8. ASSUME NEW q \in Pids PROVE HomeOK(q)'
  <2>1. SUFFICES ASSUME NEW t \in TenantIds \ {0}, Bound(q, t), {t, EnvTenant[q]} \cap Quiet # {}
                 PROVE  t = EnvTenant[q] /\ started'[q]
    BY <1>4 DEF HomeOK
  <2>2. t = EnvTenant[q] /\ started[q]
    BY <2>1 DEF QuotaInv, Isolation, HomeOK
  <2>3. q # p
    BY <1>1, <2>1, <2>2
  <2> QED BY <1>1, <2>2, <2>3
<1>9. ASSUME NEW q \in Pids PROVE DormantOK(q)'
  <2>1. CASE q = p
    BY <1>1, <1>2, <2>1 DEF DormantOK, ThreadsOf
  <2>2. CASE q # p
    <3>1. started'[q] = started[q] /\ handles'[q] = handles[q]
      BY <1>1, <2>2
    <3>2. DormantOK(q)
      BY DEF QuotaInv, Isolation
    <3> QED BY <1>2, <2>2, <3>1, <3>2 DEF DormantOK, ThreadsOf
  <2> QED BY <2>1, <2>2
<1>10. ASSUME NEW h \in Threads, tid'[h] \in Quiet PROVE Bound(ProcOf[h], tid[h])'
  <2>1. tid'[h] = tid[h]
    BY <1>2, <1>10, QuietIds
  <2>2. PICK t \in Quiet : t = tid[h]
    BY <1>10, <2>1
  <2>3. Bound(ProcOf[h], t)
    BY <2>2 DEF QuotaInv, Isolation
  <2>4. Bound(ProcOf[h], t)'
    BY <1>4, <2>3
  <2> QED BY <2>1, <2>2, <2>4
<1>11. ASSUME NEW h \in Threads, NEW t \in Quiet, Bound(ProcOf[h], t)' PROVE ThreadOK(h, t)'
  <2>1. Bound(ProcOf[h], t) /\ ProcOf[h] # p
    BY <1>4, <1>5, <1>11
  <2>2. ThreadOK(h, t)
    BY <2>1 DEF QuotaInv, Isolation
  <2>3. handles'[ProcOf[h]] = handles[ProcOf[h]]
    BY <1>1, <1>6, <2>1
  <2> QED BY <1>2, <1>3, <2>1, <2>2, <2>3, ThreadFrame
<1> QED BY <1>7, <1>8, <1>9, <1>10, <1>11 DEF Isolation

(* A step of a thread of a started process keeps the invariant when it      *)
(* leaves the others' state, and the rows of quiet tenants other than its   *)
(* own, alone, and keeps what the invariant says of the thread itself.      *)
LEMMA StepIsolation ==
    ASSUME QuotaInv, QuietAlone, NEW h \in Threads, started[ProcOf[h]],
           UNCHANGED <<pid_mappings, status, quota, started>>,
           \A g \in Threads \ {h} : /\ tpc'[g] = tpc[g] /\ op'[g] = op[g] /\ tid'[g] = tid[g]
                                    /\ info'[g] = info[g] /\ why'[g] = why[g],
           \A q \in Pids \ {ProcOf[h]} : handles'[q] = handles[q],
           \A t \in Quiet : ~Bound(ProcOf[h], t) => usage'[t] = usage[t],
           tid'[h] \in Quiet => Bound(ProcOf[h], tid'[h]),
           \A t \in Quiet : Bound(ProcOf[h], t) =>
               ThreadOK(h, t)' /\ usage'[t].count["Memory"] = usage[t].count["Memory"]
    PROVE  Isolation'
<1>1. ProcOf \in [Threads -> Pids]
  BY HooksAssumption
<1>2. \A q, t : Bound(q, t)' <=> Bound(q, t)
  BY SameBound
<1>3. ASSUME NEW g \in Threads \ {h}, NEW t \in Quiet, Bound(ProcOf[g], t)
      PROVE  ProcOf[g] # ProcOf[h] /\ ~Bound(ProcOf[h], t)
  <2>1. t = EnvTenant[ProcOf[g]]
    BY <1>1, <1>3, HomeOnly
  <2>2. ProcOf[g] # ProcOf[h]
    BY <1>3, <2>1 DEF QuietAlone
  <2>3. Bound(ProcOf[h], t) => t = EnvTenant[ProcOf[h]]
    BY <1>1, HomeOnly
  <2> QED BY <1>1, <2>1, <2>2, <2>3 DEF QuietAlone
<1>4. ASSUME NEW t \in Quiet PROVE RowOK(t)'
  <2>1. RowOK(t)
    BY DEF QuotaInv, Isolation
  <2>2. CASE Bound(ProcOf[h], t)
    BY <1>2, <2>1, <2>2 DEF RowOK
  <2>3. CASE ~Bound(ProcOf[h], t)
    BY <1>2, <2>1, <2>3 DEF RowOK
  <2> QED BY <2>2, <2>3
<1>5. ASSUME NEW q \in Pids PROVE HomeOK(q)'
  BY <1>2 DEF QuotaInv, Isolation, HomeOK
<1>6. ASSUME NEW q \in Pids PROVE DormantOK(q)'
  <2>1. CASE q = ProcOf[h]
    BY <2>1 DEF DormantOK, ThreadsOf
  <2>2. CASE q # ProcOf[h]
    <3>1. DormantOK(q)
      BY DEF QuotaInv, Isolation
    <3> QED BY <2>2, <3>1 DEF DormantOK, ThreadsOf
  <2> QED BY <2>1, <2>2
<1>7. ASSUME NEW g \in Threads, tid'[g] \in Quiet PROVE Bound(ProcOf[g], tid[g])'
  <2>1. PICK t \in Quiet : t = tid'[g]
    BY <1>7
  <2>2. Bound(ProcOf[g], t)
    <3>1. CASE g = h
      BY <2>1, <3>1
    <3>2. CASE g # h
      BY <2>1, <3>2 DEF QuotaInv, Isolation
    <3> QED BY <3>1, <3>2
  <2>3. Bound(ProcOf[g], t)'
    BY <1>2, <2>2
  <2> QED BY <2>1, <2>3
<1>8. ASSUME NEW g \in Threads, NEW t \in Quiet, Bound(ProcOf[g], t)' PROVE ThreadOK(g, t)'
  <2>1. Bound(ProcOf[g], t)
    BY <1>2, <1>8
  <2>2. CASE g = h
    BY <2>1, <2>2
  <2>3. CASE g # h
    <3>1. ThreadOK(g, t)
      BY <2>1 DEF QuotaInv, Isolation
    <3>2. ProcOf[g] \in Pids \ {ProcOf[h]} /\ ~Bound(ProcOf[h], t)
      BY <1>1, <1>3, <2>1, <2>3
    <3> QED BY <2>3, <3>1, <3>2, ThreadFrame
  <2> QED BY <2>2, <2>3
<1> QED BY <1>4, <1>5, <1>6, <1>7, <1>8 DEF Isolation

-----------------------------------------------------------------------------
(* What is known of the thread of quiet tenant t before it takes a step. *)
LEMMA OwnFacts ==
    ASSUME QuotaInv, QuietAlone, NEW h \in Threads, NEW t \in Quiet, Bound(ProcOf[h], t)
    PROVE  /\ ThreadOK(h, t) /\ RowOK(t) /\ PathOK(h)
           /\ tenant_get_process_tenant(ProcOf[h]) = t
           /\ t # 0 /\ t \in TenantIds /\ ProcOf[h] \in Pids
           /\ op[h] \in Creates \cup Frees \cup {"none"} /\ tpc[h] \in Labels
           /\ handles[ProcOf[h]] \in [Kinds -> Nat]
           /\ usage[t] \in Usage /\ usage[t].count \in [Resources -> Int]
           /\ \A k \in Kinds : usage[t].count[k] \in Nat
           /\ InitQuota \in [Resources -> Nat]
<1>1. t # 0 /\ t \in TenantIds /\ ProcOf[h] \in Pids /\ InitQuota \in [Resources -> Nat]
  BY QuietIds, HooksAssumption DEF Quota
<1>2. ThreadOK(h, t) /\ RowOK(t) /\ PathOK(h)
  BY DEF QuotaInv, Isolation, LocalInv
<1>3. tenant_get_process_tenant(ProcOf[h]) = t
  BY <1>1, BoundIs DEF QuotaInv, QuietAlone
<1>4. /\ op[h] \in Creates \cup Frees \cup {"none"} /\ tpc[h] \in Labels
      /\ handles[ProcOf[h]] \in [Kinds -> Nat]
  BY <1>1 DEF QuotaInv, LocalInv, LocalTypes
<1>5. usage[t] \in Usage /\ usage[t].count \in [Resources -> Int]
  BY <1>1 DEF QuotaInv, TableInv, TableTypeOK, Usage
<1>6. \A k \in Kinds : usage[t].count[k] \in Nat
  BY <1>2, <1>4 DEF ThreadOK
<1> QED BY <1>1, <1>2, <1>3, <1>4, <1>5, <1>6

(* The steps that look the tenant up find the one the process is bound to.  *)
LEMMA LookupOK ==
    ASSUME QuotaInv, QuietAlone, NEW h \in Threads, NEW t \in Quiet, Bound(ProcOf[h], t),
           GetTenant(h) \/ GetTenantToCharge(h)
    PROVE  ThreadOK(h, t)'
<1>1. /\ ThreadOK(h, t) /\ PathOK(h) /\ t # 0 /\ tenant_get_process_tenant(ProcOf[h]) = t
  BY OwnFacts
<1>2. tid \in [Threads -> TenantIds] /\ tpc \in [Threads -> Labels]
  BY DEF QuotaInv, HooksInv, ThreadTypes, LocalInv, LocalTypes
<1>3. /\ tid'[h] = t /\ UNCHANGED <<usage, handles, op, why, info>>
      /\ \/ tpc[h] = "tenant" /\ tpc'[h] = "info"
         \/ tpc[h] = "tenant2" /\ tpc'[h] = "get"
  BY <1>1, <1>2 DEF GetTenant, GetTenantToCharge, Goto, tableVars, tenantVars
<1>4. \A k : Ahead(h, k)' <=> Ahead(h, k)
  BY <1>3 DEF Ahead, Creates, Frees, Kind
<1> QED BY <1>1, <1>3, <1>4 DEF ThreadOK, Passed, Kind

(* tenant_get_info and the check that follows see the tenant's row as it    *)
(* is: nobody else writes it in between.                                    *)
LEMMA InfoOK ==
    ASSUME QuotaInv, QuietAlone, NEW h \in Threads, NEW t \in Quiet, Bound(ProcOf[h], t), GetInfo(h)
    PROVE  ThreadOK(h, t)'
<1>1. ThreadOK(h, t) /\ PathOK(h)
  BY OwnFacts
<1>2. info \in [Threads -> [usage : Usage, quota : Quota]] /\ tpc \in [Threads -> Labels]
  BY DEF QuotaInv, HooksInv, ThreadTypes, LocalInv, LocalTypes
<1>3. /\ tpc[h] = "info" /\ tpc'[h] = "limit" /\ info'[h] = [usage |-> usage[tid[h]], quota |-> quota[tid[h]]]
      /\ UNCHANGED <<usage, quota, handles, op, why, tid>>
  BY <1>2 DEF GetInfo, Goto, tableVars, tenantVars
<1>4. tid[h] = t
  BY <1>1, <1>3 DEF ThreadOK
<1>5. \A k : Ahead(h, k)' <=> Ahead(h, k)
  BY <1>3 DEF Ahead, Creates, Frees, Kind
<1> QED BY <1>1, <1>3, <1>4, <1>5 DEF ThreadOK, Passed, Kind

(* What the check has shown of the tenant's row, whichever way it went.     *)
LEMMA CheckMeans ==
    ASSUME QuotaInv, QuietAlone, NEW h \in Threads, NEW t \in Quiet, Bound(ProcOf[h], t),
           tpc[h] = "limit"
    PROVE  /\ status[tid[h]] = "ACTIVE" /\ tid[h] = t /\ op[h] \in {"create_qp", "reg_mr"}
           /\ OverLimit(op[h], info[h]) =>
                \/ usage[t].count[Kind(op[h])] >= InitQuota[Kind(op[h])]
                \/ op[h] = "reg_mr" /\ MRLength > InitQuota["Memory"] /\ InitQuota["Memory"] > 0
           /\ ~OverLimit(op[h], info[h]) => usage[t].count[Kind(op[h])] + 1 <= InitQuota[Kind(op[h])]
<1> DEFINE k == Kind(op[h])
           n == usage[t].count[k]
<1>1. /\ ThreadOK(h, t) /\ RowOK(t)
      /\ \A j \in Kinds : usage[t].count[j] \in Nat
      /\ InitQuota \in [Resources -> Nat]
  BY OwnFacts
<1>2. /\ status[tid[h]] = "ACTIVE" /\ tid[h] = t /\ op[h] \in {"create_qp", "reg_mr"}
      /\ info[h] = [usage |-> usage[t], quota |-> InitQuota] /\ usage[t].count["Memory"] = 0
  BY <1>1 DEF ThreadOK, RowOK
<1>3. k \in {"QP", "MR"} /\ k \in Kinds /\ k \in Resources
  BY <1>2 DEF Kind, Kinds, Resources
<1>4. n \in Nat /\ n <= InitQuota[k] /\ InitQuota[k] < Word /\ InitQuota[k] \in Nat
  BY <1>1, <1>3 DEF ThreadOK, QuietAlone
<1>5. Wrap(n) = n
  BY <1>4, SizeAssumption DEF Wrap
<1>6. OverLimit(op[h], info[h]) <=>
        \/ n >= InitQuota[k]
        \/ op[h] = "reg_mr" /\ InitQuota["Memory"] > 0 /\ 0 + MRLength > InitQuota["Memory"]
  BY <1>2, <1>5 DEF OverLimit
<1>7. MRLength \in Nat
  BY HooksAssumption
<1> HIDE DEF k, n
<1>8. /\ OverLimit(op[h], info[h]) =>
           \/ n >= InitQuota[k]
           \/ op[h] = "reg_mr" /\ MRLength > InitQuota["Memory"] /\ InitQuota["Memory"] > 0
      /\ ~OverLimit(op[h], info[h]) => n + 1 <= InitQuota[k]
  BY <1>4, <1>6, <1>7
<1> QED BY <1>2, <1>8 DEF k, n

LEMMA CheckOK ==
    ASSUME QuotaInv, QuietAlone, NEW h \in Threads, NEW t \in Quiet, Bound(ProcOf[h], t),
           CheckTenantLimit(h)
    PROVE  ThreadOK(h, t)'
<1>1. ThreadOK(h, t) /\ PathOK(h)
  BY OwnFacts
<1>2. tpc \in [Threads -> Labels] /\ why \in [Threads -> {"none", "type", "tenant", "process", "global"}]
  BY DEF QuotaInv, LocalInv, LocalTypes
<1>3. tpc[h] = "limit" /\ UNCHANGED <<usage, quota, handles, op, tid>>
  BY DEF CheckTenantLimit, tableVars, tenantVars
<1>4. tid[h] = t /\ op[h] \in {"create_qp", "reg_mr"} /\ status[tid[h]] = "ACTIVE"
  BY <1>3, CheckMeans
<1>5. CASE OverLimit(op[h], info[h])
  <2>1. tpc'[h] = "denied"
    BY <1>2, <1>5 DEF CheckTenantLimit, Refuse, Goto
  <2>2. \/ usage[t].count[Kind(op[h])] >= InitQuota[Kind(op[h])]
        \/ op[h] = "reg_mr" /\ MRLength > InitQuota["Memory"] /\ InitQuota["Memory"] > 0
    BY <1>3, <1>5, CheckMeans
  <2>3. \A k : Ahead(h, k)' <=> Ahead(h, k)
    BY <1>3, <1>4, <2>1 DEF Ahead, Creates, Frees, Kind
  <2>4. Kind(op[h])' = Kind(op[h])
    BY <1>3 DEF Kind
  <2> QED BY <1>1, <1>3, <1>4, <2>1, <2>2, <2>3, <2>4 DEF ThreadOK, Passed
<1>6. CASE ~OverLimit(op[h], info[h])
  <2>1. tpc'[h] = AfterCheck(h)
    BY <1>2, <1>4, <1>6 DEF CheckTenantLimit, Goto
  <2>2. \/ tpc'[h] = "process" /\ op[h] = "create_qp"
        \/ tpc'[h] = "real" /\ op[h] = "reg_mr"
    BY <1>4, <2>1 DEF AfterCheck
  <2>3. usage[t].count[Kind(op[h])] + 1 <= InitQuota[Kind(op[h])]
    BY <1>3, <1>6, CheckMeans
  <2>4. \A k : Ahead(h, k)' <=> Ahead(h, k)
    BY <1>3, <1>4, <2>2 DEF Ahead, Creates, Frees, Kind
  <2>5. Kind(op[h])' = Kind(op[h])
    BY <1>3 DEF Kind
  <2> QED BY <1>1, <1>3, <1>4, <2>2, <2>3, <2>4, <2>5 DEF ThreadOK, Passed
<1> QED BY <1>5, <1>6

(* The rest of the check, the process's own counters and the record in the  *)
(* process region do not touch what the tenant is charged.                  *)
LEMMA PassOK ==
    ASSUME QuotaInv, QuietAlone, NEW h \in Threads, NEW t \in Quiet, Bound(ProcOf[h], t),
           \/ CheckProcessLimit(h) \/ CheckGlobalLimit(h)
           \/ CountLocally(h) \/ ReadLocal(h) \/ Publish(h)
    PROVE  ThreadOK(h, t)'
<1>1. ThreadOK(h, t) /\ PathOK(h) /\ t # 0
  BY OwnFacts
<1>2. tpc \in [Threads -> Labels] /\ why \in [Threads -> {"none", "type", "tenant", "process", "global"}]
  BY DEF QuotaInv, LocalInv, LocalTypes
<1>3. UNCHANGED <<usage, quota, handles, op, tid, info>>
  BY DEF CheckProcessLimit, CheckGlobalLimit, CountLocally, ReadLocal, Publish, tableVars, tenantVars
<1>4. Kind(op[h])' = Kind(op[h])
  BY <1>3 DEF Kind
<1>5. CASE CheckProcessLimit(h) \/ CheckGlobalLimit(h)
  <2>1. /\ tpc[h] \in {"process", "global"} /\ op[h] \in {"create_qp", "reg_mr"}
        /\ \/ tpc'[h] = "denied" /\ why'[h] \in {"process", "global"}
           \/ tpc'[h] = "global"
           \/ tpc'[h] = "real"
    BY <1>1, <1>2, <1>5 DEF CheckProcessLimit, CheckGlobalLimit, Refuse, Goto, ThreadOK
  <2>2. \A k : Ahead(h, k)' <=> Ahead(h, k)
    BY <1>3, <2>1 DEF Ahead, Creates, Frees, Kind
  <2> QED BY <1>1, <1>3, <1>4, <2>1, <2>2 DEF ThreadOK, Passed
<1>6. CASE CountLocally(h)
  <2>1. tpc[h] = "local" /\ op[h] \in {"create_qp", "destroy_qp", "reg_mr", "dereg_mr"}
    BY <1>1, <1>6 DEF CountLocally, PathOK
  <2>2. op[h] = "reg_mr" => tid[h] = t
    BY <1>1, <2>1 DEF ThreadOK
  <2>3. /\ tpc'[h] \in {"snapshot", "get", "tenant2"}
        /\ tpc'[h] = "get" => op[h] = "reg_mr"
        /\ tpc'[h] = "snapshot" => op[h] = "create_qp"
    <3> DEFINE next == CASE op[h] = "create_qp" -> "snapshot"
                         [] op[h] = "reg_mr" -> IF tid[h] = 0 THEN "return" ELSE "get"
                         [] OTHER -> "tenant2"
    <3>1. /\ next \in {"snapshot", "get", "tenant2"} /\ (next = "get" => op[h] = "reg_mr")
          /\ next = "snapshot" => op[h] = "create_qp"
      BY <1>1, <2>1, <2>2
    <3>2. tpc' = [tpc EXCEPT ![h] = next]
      BY <1>6 DEF CountLocally, Goto
    <3> HIDE DEF next
    <3> QED BY <1>2, <3>1, <3>2
  <2>4. \A k : Ahead(h, k)' <=> Ahead(h, k)
    BY <1>3, <2>1, <2>3 DEF Ahead, Creates, Frees, Kind
  <2> QED BY <1>1, <1>3, <1>4, <2>1, <2>2, <2>3, <2>4 DEF ThreadOK, Passed
<1>7. CASE ReadLocal(h) \/ Publish(h)
  <2>1. \/ tpc[h] = "snapshot" /\ tpc'[h] = "publish"
        \/ tpc[h] = "publish" /\ tpc'[h] = "tenant2"
    BY <1>2, <1>7 DEF ReadLocal, Publish, Goto
  <2>2. \A k : Ahead(h, k)' <=> Ahead(h, k)
    BY <1>1, <1>3, <2>1 DEF Ahead, Creates, Frees, Kind, PathOK
  <2> QED BY <1>1, <1>3, <1>4, <2>1, <2>2 DEF ThreadOK, Passed
<1> QED BY <1>5, <1>6, <1>7

(* The real verb that fails gives the application its handle back.          *)
LEMMA RealOK ==
    ASSUME QuotaInv, QuietAlone, NEW h \in Threads, NEW t \in Quiet, Bound(ProcOf[h], t), RealVerb(h)
    PROVE  ThreadOK(h, t)'
<1> DEFINE p == ProcOf[h]
           k0 == Kind(op[h])
<1>1. /\ ThreadOK(h, t) /\ PathOK(h) /\ p \in Pids
      /\ op[h] \in Creates \cup Frees \cup {"none"} /\ handles[p] \in [Kinds -> Nat]
  BY OwnFacts
<1>2. /\ tpc \in [Threads -> Labels] /\ handles \in [Pids -> [Kinds -> Nat]]
      /\ op \in [Threads -> Creates \cup Frees \cup {"none"}]
      /\ tid \in [Threads -> TenantIds]
  BY DEF QuotaInv, LocalInv, LocalTypes, HooksInv, ThreadTypes
<1>3. /\ tpc[h] = "real" /\ op[h] # "none" /\ k0 \in Kinds
      /\ UNCHANGED <<usage, quota, info, why>>
  BY <1>1 DEF RealVerb, PathOK, tableVars, tenantVars, Kind, Kinds
<1>4. CASE UNCHANGED <<handles, op, tid>> /\ tpc'[h] \in {"local", "tenant2"}
  <2>1. \A k : Ahead(h, k)' <=> Ahead(h, k)
    BY <1>3, <1>4 DEF Ahead, Creates, Frees, Kind
  <2>2. Kind(op[h])' = Kind(op[h])
    BY <1>4 DEF Kind
  <2> QED BY <1>1, <1>3, <1>4, <2>1, <2>2 DEF ThreadOK, Passed
<1>5. CASE /\ tpc'[h] = "idle" /\ op'[h] = "none"
           /\ handles' = [handles EXCEPT ![p][k0] = IF op[h] \in Frees THEN @ + 1 ELSE @]
  <2>1. \A k : ~Ahead(h, k)'
    BY <1>5 DEF Ahead
  <2>2. \A k \in Kinds : Ahead(h, k) <=> k = k0 /\ op[h] \in Frees
    BY <1>1, <1>3 DEF Ahead, Creates, Frees
  <2>3. \A k \in Kinds : handles'[p][k] = IF k = k0 /\ op[h] \in Frees THEN handles[p][k] + 1
                                          ELSE handles[p][k]
    BY <1>1, <1>2, <1>3, <1>5
  <2>4. \A k \in Kinds : usage[t].count[k] = handles'[p][k]
    <3>1. \A k \in Kinds : usage[t].count[k] = handles[p][k] + (IF Ahead(h, k) THEN 1 ELSE 0)
      BY <1>1 DEF ThreadOK
    <3> HIDE DEF k0, p
    <3> QED BY <1>1, <2>2, <2>3, <3>1
  <2>5. \A k \in Kinds : handles'[p][k] \in Nat
    <3> HIDE DEF k0, p
    <3> QED BY <1>1, <2>3
  <2>6. \A k \in {"QP", "MR"} : usage'[t].count[k] <= InitQuota[k]
    BY <1>1, <1>3 DEF ThreadOK
  <2> QED BY <1>3, <1>5, <2>1, <2>4, <2>5, <2>6 DEF ThreadOK, Passed
<1>6. \/ UNCHANGED <<handles, op, tid>> /\ tpc'[h] \in {"local", "tenant2"}
      \/ /\ tpc'[h] = "idle" /\ op'[h] = "none"
         /\ handles' = [handles EXCEPT ![p][k0] = IF op[h] \in Frees THEN @ + 1 ELSE @]
  BY <1>2 DEF RealVerb, Goto
<1> QED BY <1>4, <1>5, <1>6

(* The record that is read to be charged is the one in the table.           *)
LEMMA ReadOK ==
    ASSUME QuotaInv, QuietAlone, NEW h \in Threads, NEW t \in Quiet, Bound(ProcOf[h], t), GetUsage(h)
    PROVE  ThreadOK(h, t)'
<1>1. ThreadOK(h, t) /\ PathOK(h) /\ RowOK(t)
  BY OwnFacts
<1>2. info \in [Threads -> [usage : Usage, quota : Quota]] /\ tpc \in [Threads -> Labels]
  BY DEF QuotaInv, HooksInv, ThreadTypes, LocalInv, LocalTypes
<1>3. /\ tpc[h] = "get" /\ UNCHANGED <<usage, quota, handles, op, why, tid>>
  BY DEF GetUsage, tableVars, tenantVars
<1>4. tid[h] = t /\ status[tid[h]] = "ACTIVE"
  BY <1>1, <1>3 DEF ThreadOK, RowOK
<1>5. tpc'[h] = "put" /\ info'[h].usage = usage[t]
  BY <1>2, <1>4 DEF GetUsage, Goto
<1>6. \A k : Ahead(h, k)' <=> Ahead(h, k)
  BY <1>3, <1>5 DEF Ahead, Creates, Frees, Kind
<1>7. Kind(op[h])' = Kind(op[h])
  BY <1>3 DEF Kind
<1> QED BY <1>1, <1>3, <1>4, <1>5, <1>6, <1>7 DEF ThreadOK, Passed

(* The record written back charges what was made, or refunds what was       *)
(* freed, and nothing else.                                                 *)
LEMMA WriteOK ==
    ASSUME QuotaInv, QuietAlone, NEW h \in Threads, NEW t \in Quiet, Bound(ProcOf[h], t), PutUsage(h)
    PROVE  ThreadOK(h, t)' /\ usage'[t].count["Memory"] = usage[t].count["Memory"]
<1> DEFINE p == ProcOf[h]
           k0 == Kind(op[h])
           c == Charged(usage[t], op[h]).count
<1>1. /\ ThreadOK(h, t) /\ PathOK(h) /\ RowOK(t) /\ t \in TenantIds
      /\ op[h] \in Creates \cup Frees \cup {"none"} /\ handles[p] \in [Kinds -> Nat]
      /\ usage[t] \in Usage /\ usage[t].count \in [Resources -> Int]
      /\ \A k \in Kinds : usage[t].count[k] \in Nat
      /\ InitQuota \in [Resources -> Nat]
  BY OwnFacts
<1>2. tpc \in [Threads -> Labels] /\ usage \in [TenantIds -> Usage]
  BY DEF QuotaInv, LocalInv, LocalTypes, TableInv, TableTypeOK
<1>3. /\ tpc[h] = "put" /\ tpc'[h] = "return" /\ UNCHANGED <<quota, handles, op, tid, why>>
      /\ op[h] # "none"
  BY <1>1, <1>2 DEF PutUsage, Goto, tenant_update_resource_usage, tableVars, tenantVars, PathOK
<1>4. tid[h] = t /\ info[h].usage = usage[t] /\ status[tid[h]] = "ACTIVE"
  BY <1>1, <1>3 DEF ThreadOK, RowOK
<1>5. usage' = [usage EXCEPT ![t] = Charged(usage[t], op[h])]
  BY <1>4 DEF PutUsage, tenant_update_resource_usage
<1>6. usage'[t].count = c
  BY <1>1, <1>2, <1>5
<1>7. k0 \in Kinds /\ k0 # "Memory" /\ Kinds \subseteq Resources /\ "Memory" \in Resources
  BY DEF Kind, Kinds, Resources
<1>8. c = [usage[t].count EXCEPT ![k0] = IF op[h] \in Creates THEN @ + 1 ELSE @ - 1]
  BY DEF Charged
<1> HIDE DEF c, k0
<1>9. /\ \A k \in Kinds : c[k] = IF k # k0 THEN usage[t].count[k]
                                 ELSE IF op[h] \in Creates THEN usage[t].count[k] + 1
                                 ELSE usage[t].count[k] - 1
      /\ c["Memory"] = usage[t].count["Memory"]
  BY <1>1, <1>7, <1>8
<1>10. \A k \in Kinds : /\ Ahead(h, k) <=> k = k0 /\ op[h] \notin Creates
                        /\ Ahead(h, k)' <=> k = k0 /\ op[h] \in Creates
  BY <1>1, <1>3 DEF Ahead, Creates, Frees, Kind, k0
<1>11. \A k \in Kinds : c[k] = handles[p][k] + (IF Ahead(h, k)' THEN 1 ELSE 0)
  <2>1. \A k \in Kinds : usage[t].count[k] = handles[p][k] + (IF Ahead(h, k) THEN 1 ELSE 0)
    BY <1>1 DEF ThreadOK
  <2> HIDE DEF p
  <2>2. ASSUME NEW k \in Kinds PROVE c[k] = handles[p][k] + (IF Ahead(h, k)' THEN 1 ELSE 0)
    <3>1. handles[p][k] \in Nat /\ usage[t].count[k] \in Int
      BY <1>1
    <3> QED BY <1>9, <1>10, <2>1, <3>1
  <2> QED BY <2>2
<1>12. \A k \in {"QP", "MR"} : c[k] <= InitQuota[k]
  <2>1. SUFFICES ASSUME NEW k \in {"QP", "MR"} PROVE c[k] <= InitQuota[k]
    OBVIOUS
  <2>2. /\ usage[t].count[k] <= InitQuota[k] /\ k \in Kinds
        /\ usage[t].count[k] \in Nat /\ InitQuota[k] \in Nat
    BY <1>1, <1>7 DEF ThreadOK, Kinds
  <2>3. CASE k = k0 /\ op[h] \in Creates
    <3>1. op[h] \in {"create_qp", "reg_mr"}
      BY <2>1, <2>3 DEF Kind, Creates, k0
    <3>2. usage[t].count[k] + 1 <= InitQuota[k]
      BY <1>1, <1>3, <2>3, <3>1 DEF ThreadOK, Passed, k0
    <3> QED BY <1>9, <2>2, <2>3, <3>2
  <2>4. CASE ~(k = k0 /\ op[h] \in Creates)
    BY <1>9, <2>2, <2>4
  <2> QED BY <2>3, <2>4
<1>13. \A k \in Kinds : usage'[t].count[k] = handles'[ProcOf[h]][k] + (IF Ahead(h, k)' THEN 1 ELSE 0)
  BY <1>3, <1>6, <1>11
<1>14. \A k \in {"QP", "MR"} : usage'[t].count[k] <= InitQuota[k]
  BY <1>6, <1>12
<1>15. tid'[h] = t /\ tpc'[h] = "return"
  BY <1>3, <1>4
<1>16. ThreadOK(h, t)'
  BY <1>13, <1>14, <1>15 DEF ThreadOK, Passed
<1> QED BY <1>6, <1>9, <1>16

(* The application gets its handle when the call returns. *)
LEMMA ReturnOK ==
    ASSUME QuotaInv, QuietAlone, NEW h \in Threads, NEW t \in Quiet, Bound(ProcOf[h], t), Return(h)
    PROVE  ThreadOK(h, t)'
<1> DEFINE p == ProcOf[h]
           k0 == Kind(op[h])
           made == tpc[h] = "return" /\ op[h] \in Creates
<1>1. /\ ThreadOK(h, t) /\ PathOK(h) /\ p \in Pids
      /\ op[h] \in Creates \cup Frees \cup {"none"} /\ handles[p] \in [Kinds -> Nat]
  BY OwnFacts
<1>2. /\ tpc \in [Threads -> Labels] /\ handles \in [Pids -> [Kinds -> Nat]]
      /\ op \in [Threads -> Creates \cup Frees \cup {"none"}]
  BY DEF QuotaInv, LocalInv, LocalTypes
<1>3. /\ tpc[h] \in {"return", "denied"} /\ op[h] # "none" /\ k0 \in Kinds
      /\ tpc'[h] = "idle" /\ op'[h] = "none" /\ UNCHANGED <<usage, quota>>
      /\ handles' = [handles EXCEPT ![p][k0] = IF made THEN @ + 1 ELSE @]
  BY <1>1, <1>2 DEF Return, Goto, PathOK, tableVars, tenantVars, Kind, Kinds
<1>4. \A k : ~Ahead(h, k)'
  BY <1>3 DEF Ahead
<1>5. \A k \in Kinds : Ahead(h, k) <=> k = k0 /\ made
  BY <1>1, <1>3 DEF Ahead, Creates, Frees
<1>6. \A k \in Kinds : usage[t].count[k] = handles[p][k] + (IF Ahead(h, k) THEN 1 ELSE 0)
  BY <1>1 DEF ThreadOK
<1>7. \A k \in {"QP", "MR"} : usage'[t].count[k] <= InitQuota[k]
  BY <1>1, <1>3 DEF ThreadOK
<1> HIDE DEF k0, made
<1>8. \A k \in Kinds : handles'[p][k] = IF k = k0 /\ made THEN handles[p][k] + 1 ELSE handles[p][k]
  BY <1>1, <1>2, <1>3
<1>9. \A k \in Kinds : usage[t].count[k] = handles'[p][k] /\ handles'[p][k] \in Nat
  <2> HIDE DEF p
  <2> QED BY <1>1, <1>5, <1>6, <1>8
<1> QED BY <1>3, <1>4, <1>7, <1>9 DEF ThreadOK, Passed

(* A verb is called: what is to be freed stays charged. *)
LEMMA CallOK ==
    ASSUME QuotaInv, QuietAlone, NEW h \in Threads, NEW t \in Quiet, Bound(ProcOf[h], t),
           NEW o \in Ops[h], CallVerb(h, o)
    PROVE  ThreadOK(h, t)'
<1> DEFINE p == ProcOf[h]
<1>1. /\ ThreadOK(h, t) /\ PathOK(h) /\ p \in Pids /\ handles[p] \in [Kinds -> Nat]
  BY OwnFacts
<1>2. /\ tpc \in [Threads -> Labels] /\ handles \in [Pids -> [Kinds -> Nat]]
      /\ op \in [Threads -> Creates \cup Frees \cup {"none"}]
      /\ why \in [Threads -> {"none", "type", "tenant", "process", "global"}]
      /\ EnableQpControl = TRUE
  BY DEF QuotaInv, LocalInv, LocalTypes, QuietAlone
<1>3. /\ tpc[h] = "idle" /\ op[h] = "none" /\ op'[h] = o /\ UNCHANGED <<usage, quota, tid>>
      /\ Kind(o) \in Kinds
  BY <1>1, <1>2 DEF CallVerb, PathOK, tableVars, tenantVars, Kind, Kinds
<1>4. \A k \in Kinds : ~Ahead(h, k)
  BY <1>3 DEF Ahead
<1>5. \A k \in Kinds : usage[t].count[k] = handles[p][k]
  BY <1>1, <1>4 DEF ThreadOK
<1>6. \A k \in {"QP", "MR"} : usage'[t].count[k] <= InitQuota[k]
  BY <1>1, <1>3 DEF ThreadOK
<1>7. CASE o \in Creates
  <2>1. /\ UNCHANGED handles
        /\ \/ tpc'[h] = "denied" /\ why'[h] = "type"
           \/ tpc'[h] = "tenant" /\ o \in {"create_qp", "reg_mr"}
           \/ tpc'[h] = "real" /\ o \notin {"create_qp", "reg_mr"}
    BY <1>2, <1>7 DEF CallVerb, Refuse, Goto, Creates, Frees
  <2>2. \A k : ~Ahead(h, k)'
    BY <1>3, <1>7, <2>1 DEF Ahead, Creates, Frees
  <2> QED BY <1>3, <1>5, <1>6, <2>1, <2>2, <1>1 DEF ThreadOK, Passed
<1>8. CASE o \in Frees
  <2>1. /\ handles' = [handles EXCEPT ![p][Kind(o)] = @ - 1] /\ handles[p][Kind(o)] > 0
        /\ tpc'[h] = "real"
    BY <1>2, <1>8 DEF CallVerb, Goto, Creates, Frees
  <2>2. \A k \in Kinds : Ahead(h, k)' <=> k = Kind(o)
    BY <1>3, <1>8, <2>1 DEF Ahead, Creates, Frees, Kind
  <2>3. \A k \in Kinds : handles'[p][k] = IF k = Kind(o) THEN handles[p][k] - 1 ELSE handles[p][k]
    BY <1>1, <1>2, <1>3, <2>1
  <2>4. \A k \in Kinds : usage'[t].count[k] = handles'[p][k] + (IF Ahead(h, k)' THEN 1 ELSE 0)
    <3>1. UNCHANGED usage
      BY <1>3
    <3> HIDE DEF p
    <3>2. ASSUME NEW k \in Kinds
          PROVE  usage[t].count[k] = handles'[p][k] + (IF Ahead(h, k)' THEN 1 ELSE 0)
      <4>1. handles[p][k] \in Nat
        BY <1>1
      <4> QED BY <1>5, <2>2, <2>3, <4>1
    <3> QED BY <3>1, <3>2
  <2>5. op'[h] \notin {"create_qp", "reg_mr"}
    BY <1>3, <1>8 DEF Frees
  <2> QED BY <1>6, <2>1, <2>4, <2>5 DEF ThreadOK, Passed
<1> QED BY <1>7, <1>8 DEF CallVerb

-----------------------------------------------------------------------------
(* A step of a thread leaves the other threads and processes alone. *)
LEMMA OwnStateOnly ==
    ASSUME QuotaInv, NEW h \in Threads,
           StepOf(h) \/ \E o \in Ops[h] : CallVerb(h, o)
    PROVE  /\ UNCHANGED <<pid_mappings, status, quota, started>>
           /\ \A g \in Threads \ {h} : /\ tpc'[g] = tpc[g] /\ op'[g] = op[g] /\ tid'[g] = tid[g]
                                       /\ info'[g] = info[g] /\ why'[g] = why[g]
           /\ \A q \in Pids \ {ProcOf[h]} : handles'[q] = handles[q]
           /\ UNCHANGED usage \/ PutUsage(h)
<1>1. /\ tpc \in [Threads -> Labels] /\ op \in [Threads -> Creates \cup Frees \cup {"none"}]
      /\ tid \in [Threads -> TenantIds] /\ info \in [Threads -> [usage : Usage, quota : Quota]]
      /\ why \in [Threads -> {"none", "type", "tenant", "process", "global"}]
      /\ handles \in [Pids -> [Kinds -> Nat]]
  BY DEF QuotaInv, LocalInv, LocalTypes, HooksInv, ThreadTypes
<1>2. CASE GetTenant(h) \/ GetInfo(h) \/ GetTenantToCharge(h) \/ GetUsage(h)
  BY <1>1, <1>2 DEF GetTenant, GetInfo, GetTenantToCharge, GetUsage, Goto, tableVars, tenantVars, bindingVars
<1>3. CASE CheckTenantLimit(h) \/ CheckProcessLimit(h) \/ CheckGlobalLimit(h)
  BY <1>1, <1>3 DEF CheckTenantLimit, CheckProcessLimit, CheckGlobalLimit, Refuse, Goto,
     tableVars, tenantVars, bindingVars
<1>4. CASE CountLocally(h)
  <2>1. \E l : tpc' = [tpc EXCEPT ![h] = l]
    BY <1>4 DEF CountLocally, Goto
  <2>2. UNCHANGED <<tableVars, started, handles, op, tid, info, why>>
    BY <1>4 DEF CountLocally
  <2> QED BY <1>1, <2>1, <2>2 DEF tableVars, tenantVars, bindingVars
<1>5. CASE ReadLocal(h) \/ Publish(h)
  BY <1>1, <1>5 DEF ReadLocal, Publish, Goto, tableVars, tenantVars, bindingVars
<1>6. CASE RealVerb(h)
  BY <1>1, <1>6 DEF RealVerb, Goto, tableVars, tenantVars, bindingVars
<1>7. CASE PutUsage(h)
  BY <1>1, <1>7 DEF PutUsage, Goto, tenant_update_resource_usage, tableVars, tenantVars, bindingVars
<1>8. CASE Return(h)
  BY <1>1, <1>8 DEF Return, Goto, tableVars, tenantVars, bindingVars
<1>9. CASE \E o \in Ops[h] : CallVerb(h, o)
  BY <1>1, <1>9 DEF CallVerb, Refuse, Goto, tableVars, tenantVars, bindingVars
<1> QED BY <1>2, <1>3, <1>4, <1>5, <1>6, <1>7, <1>8, <1>9 DEF StepOf

(* A thread that takes a step belongs to a started process. *)
LEMMA StepStarted ==
    ASSUME QuotaInv, NEW h \in Threads, StepOf(h) \/ \E o \in Ops[h] : CallVerb(h, o)
    PROVE  started[ProcOf[h]]
<1>1. CASE StepOf(h)
  <2>1. tpc[h] # "idle"
    BY <1>1 DEF StepOf, GetTenant, GetInfo, CheckTenantLimit, CheckProcessLimit, CheckGlobalLimit,
       RealVerb, CountLocally, ReadLocal, Publish, GetTenantToCharge, GetUsage, PutUsage, Return
  <2>2. DormantOK(ProcOf[h])
    BY HooksAssumption DEF QuotaInv, Isolation
  <2> QED BY <2>1, <2>2 DEF DormantOK, ThreadsOf
<1>2. CASE \E o \in Ops[h] : CallVerb(h, o)
  BY <1>2 DEF CallVerb
<1> QED BY <1>1, <1>2

(* A step of a thread keeps the invariant of quiet tenants. *)
LEMMA ThreadIsolation ==
    ASSUME QuotaInv, QuietAlone, NEW h \in Threads,
           StepOf(h) \/ \E o \in Ops[h] : CallVerb(h, o)
    PROVE  Isolation'
<1>1. /\ UNCHANGED <<pid_mappings, status, quota, started>>
      /\ \A g \in Threads \ {h} : /\ tpc'[g] = tpc[g] /\ op'[g] = op[g] /\ tid'[g] = tid[g]
                                  /\ info'[g] = info[g] /\ why'[g] = why[g]
      /\ \A q \in Pids \ {ProcOf[h]} : handles'[q] = handles[q]
      /\ UNCHANGED usage \/ PutUsage(h)
  BY OwnStateOnly
<1>2. started[ProcOf[h]]
  BY StepStarted
<1>3. tid \in [Threads -> TenantIds] /\ ProcOf[h] \in Pids
  BY HooksAssumption DEF QuotaInv, HooksInv, ThreadTypes
<1>4. ASSUME NEW t \in Quiet, ~Bound(ProcOf[h], t) PROVE usage'[t] = usage[t]
  <2>1. tid[h] # t
    BY <1>4 DEF QuotaInv, Isolation
  <2>2. CASE UNCHANGED usage
    BY <2>2
  <2>3. CASE PutUsage(h)
    <3>1. usage' = [usage EXCEPT ![tid[h]] = Charged(info[h].usage, op[h])] \/ UNCHANGED usage
      BY <2>3 DEF PutUsage, tenant_update_resource_usage, tableVars, tenantVars
    <3>2. usage \in [TenantIds -> Usage] /\ t \in TenantIds
      BY QuietIds DEF QuotaInv, TableInv, TableTypeOK
    <3> QED BY <2>1, <3>1, <3>2
  <2> QED BY <1>1, <2>2, <2>3
<1>5. ASSUME tid'[h] \in Quiet PROVE Bound(ProcOf[h], tid'[h])
  <2>1. PICK t \in Quiet : t = tid'[h]
    BY <1>5
  <2>2. tid'[h] \in {tid[h], 0} \/ tid'[h] = tenant_get_process_tenant(ProcOf[h])
    BY <1>3 DEF StepOf, GetTenant, GetInfo, CheckTenantLimit, CheckProcessLimit, CheckGlobalLimit,
       RealVerb, CountLocally, ReadLocal, Publish, GetTenantToCharge, GetUsage, PutUsage, Return,
       CallVerb
  <2>3. CASE t = tid[h]
    BY <2>1, <2>3 DEF QuotaInv, Isolation
  <2>4. CASE t = tenant_get_process_tenant(ProcOf[h])
    <3>1. Bound(ProcOf[h], t)
      BY <1>3, <2>4, BoundIs, QuietIds DEF QuotaInv, QuietAlone
    <3> QED BY <2>1, <3>1
  <2> QED BY <2>1, <2>2, <2>3, <2>4, QuietIds
<1>6. ASSUME NEW t \in Quiet, Bound(ProcOf[h], t)
      PROVE  ThreadOK(h, t)' /\ usage'[t].count["Memory"] = usage[t].count["Memory"]
  <2>1. CASE PutUsage(h)
    BY <1>6, <2>1, WriteOK
  <2>2. CASE ~PutUsage(h)
    <3>1. ThreadOK(h, t)'
      BY <1>6, <2>2, LookupOK, InfoOK, CheckOK, PassOK, RealOK, ReadOK, ReturnOK, CallOK DEF StepOf
    <3> QED BY <1>1, <2>2, <3>1
  <2> QED BY <2>1, <2>2
<1> QED BY <1>1, <1>2, <1>4, <1>5, <1>6, StepIsolation

-----------------------------------------------------------------------------
LEMMA QuotaInit ==
    ASSUME QuietAlone, HooksInit
    PROVE  QuotaInv
<1>1. TableInv /\ HooksInv /\ LocalInv
  BY HooksInitInv, LocalInit DEF QuietAlone
<1>2. \A p \in Pids : \A t : ~Bound(p, t)
  BY DEF HooksInit, Bound, EmptySlot, QuietAlone
<1>3. ProcOf \in [Threads -> Pids]
  BY HooksAssumption
<1>4. ASSUME NEW t \in Quiet PROVE RowOK(t)
  <2>1. t \in TenantIds \ {0}
    BY QuietIds
  <2>2. status[t] = "ACTIVE" /\ quota[t] = InitQuota /\ usage[t] = ZeroUsage
    BY <2>1 DEF HooksInit
  <2>3. \A k \in Resources : usage[t].count[k] = 0
    BY <2>2 DEF ZeroUsage
  <2> QED BY <2>2, <2>3 DEF RowOK, Kinds, Resources
<1>5. ASSUME NEW p \in Pids PROVE HomeOK(p) /\ DormantOK(p)
  BY <1>2 DEF HomeOK, DormantOK, ThreadsOf, HooksInit
<1>6. \A h \in Threads : tid[h] \notin Quiet
  BY QuietIds DEF HooksInit
<1> QED BY <1>1, <1>2, <1>3, <1>4, <1>5, <1>6 DEF QuotaInv, Isolation

LEMMA QuotaStep ==
    ASSUME QuietAlone, QuotaInv, [HooksNext]_hooksVars
    PROVE  QuotaInv'
<1>1. HooksInv' /\ TableInv' /\ LocalInv'
  BY HooksStep, TableUnderHooks, LocalStep DEF QuotaInv, QuietAlone
<1> SUFFICES Isolation'
  BY <1>1 DEF QuotaInv
<1>2. CASE UNCHANGED hooksVars
  BY <1>2 DEF hooksVars, tableVars, tenantVars, bindingVars, threadVars, QuotaInv, Isolation,
     RowOK, HomeOK, DormantOK, ThreadOK, Ahead, Passed, Bound, ThreadsOf, Kind
<1>3. ASSUME NEW p \in Pids, InitHooks(p) \/ ExitProcess(p) PROVE Isolation'
  BY <1>3, StartIsolation, ExitIsolation
<1>4. ASSUME NEW h \in Threads, StepOf(h) \/ \E o \in Ops[h] : CallVerb(h, o) PROVE Isolation'
  BY <1>4, ThreadIsolation
<1>5. CASE Admin
  BY <1>5, AdminIsolation
<1> QED BY <1>2, <1>3, <1>4, <1>5 DEF HooksNext

LEMMA QuotaAlways ==
    ASSUME QuietAlone
    PROVE  HooksSpec => []QuotaInv
<1>1. HooksInit => QuotaInv
  BY QuotaInit
<1>2. QuotaInv /\ [HooksNext]_hooksVars => QuotaInv'
  BY QuotaStep
<1> QED BY <1>1, <1>2, PTL DEF HooksSpec

-----------------------------------------------------------------------------
(* A quiet tenant holds nothing and is charged nothing, or it holds what    *)
(* its one process with its one thread holds.                               *)
LEMMA HeldByOne ==
    ASSUME QuietAlone, QuotaInv, NEW t \in Quiet, NEW k \in Kinds
    PROVE  \/ /\ HeldByTenant(t, k) = 0 /\ usage[t].count[k] = 0
              /\ \A h \in Threads : ~Bound(ProcOf[h], t)
           \/ \E h \in Threads :
                /\ Bound(ProcOf[h], t) /\ ProcOf[h] \in MembersOf(t)
                /\ HeldByTenant(t, k) = Held(ProcOf[h], k)
                /\ ThreadsOf(ProcOf[h]) = {h}
<1>1. MembersOf(t) = {p \in Pids : Bound(p, t)}
  BY BoundIs, QuietIds DEF MembersOf, QuotaInv, QuietAlone
<1>2. \A p, q \in MembersOf(t) : p = q
  BY <1>1, HomeOnly DEF QuietAlone
<1>3. ProcOf \in [Threads -> Pids] /\ handles \in [Pids -> [Kinds -> Nat]]
  BY HooksAssumption DEF QuotaInv, LocalInv, LocalTypes
<1>4. RowOK(t)
  BY DEF QuotaInv, Isolation
<1>5. CASE MembersOf(t) = {}
  <2>1. \A h \in Threads : ~Bound(ProcOf[h], t)
    BY <1>1, <1>3, <1>5
  <2>2. HeldByTenant(t, k) = 0
    BY <1>5, SumOfNone
  <2> QED BY <1>4, <2>1, <2>2 DEF RowOK
<1>6. CASE MembersOf(t) # {}
  <2>1. PICK p \in MembersOf(t) : TRUE
    BY <1>6
  <2>2. MembersOf(t) = {p} /\ p \in Pids /\ Bound(p, t)
    BY <1>1, <1>2, <2>1
  <2>3. IsFiniteSet(Threads)
    BY DEF QuietAlone
  <2>4. Held(p, k) \in Int
    <3> DEFINE H == {h \in ThreadsOf(p) :
                       \/ op[h] \in Creates /\ Kind(op[h]) = k
                          /\ tpc[h] \in {"local", "snapshot", "publish", "tenant2", "get", "put", "return"}
                       \/ op[h] \in Frees /\ Kind(op[h]) = k /\ tpc[h] = "real"}
    <3>1. H \subseteq Threads /\ Held(p, k) = handles[p][k] + Cardinality(H)
      BY DEF Held, ThreadsOf
    <3> HIDE DEF H
    <3>2. Cardinality(H) \in Nat
      BY <2>3, <3>1, FS_Subset, FS_CardinalityType
    <3> QED BY <1>3, <2>2, <3>1, <3>2
  <2>5. HeldByTenant(t, k) = Held(p, k)
    BY <2>2, <2>4, SumOfOne
  <2>6. CASE ThreadsOf(p) = {}
    <3>1. handles[p][k] = 0
      BY <2>2, <2>6 DEF QuotaInv, Isolation, DormantOK
    <3>2. Held(p, k) = 0
      <4> DEFINE H == {h \in ThreadsOf(p) :
                       \/ op[h] \in Creates /\ Kind(op[h]) = k
                          /\ tpc[h] \in {"local", "snapshot", "publish", "tenant2", "get", "put", "return"}
                       \/ op[h] \in Frees /\ Kind(op[h]) = k /\ tpc[h] = "real"}
      <4>1. H = {} /\ Held(p, k) = 0 + Cardinality(H)
        BY <2>6, <3>1 DEF Held
      <4> HIDE DEF H
      <4> QED BY <4>1, FS_EmptySet
    <3>3. \A h \in Threads : ~Bound(ProcOf[h], t)
      <4>1. \A h \in Threads : ProcOf[h] # p
        BY <2>6 DEF ThreadsOf
      <4> QED BY <1>1, <1>2, <1>3, <2>2, <4>1
    <3> QED BY <1>4, <2>5, <3>2, <3>3 DEF RowOK
  <2>7. CASE ThreadsOf(p) # {}
    <3>1. PICK h \in Threads : ProcOf[h] = p
      BY <2>7 DEF ThreadsOf
    <3>2. EnvTenant[p] \in Quiet
      BY <2>2, HomeOnly
    <3>3. ThreadsOf(p) = {h}
      BY <3>1, <3>2 DEF ThreadsOf, QuietAlone
    <3> QED BY <2>2, <2>5, <3>1, <3>3
  <2> QED BY <2>6, <2>7
<1> QED BY <1>5, <1>6

(* The thread is in a verb that has made an object, or not yet freed one.   *)
Holding(h, k) ==
    \/ op[h] \in Creates /\ Kind(op[h]) = k
       /\ tpc[h] \in {"local", "snapshot", "publish", "tenant2", "get", "put", "return"}
    \/ op[h] \in Frees /\ Kind(op[h]) = k /\ tpc[h] = "real"

LEMMA HeldOfOneThread ==
    ASSUME NEW p \in Pids, NEW h, ThreadsOf(p) = {h}, NEW k
    PROVE  Held(p, k) = handles[p][k] + (IF Holding(h, k) THEN 1 ELSE 0)
<1> DEFINE H == {g \in ThreadsOf(p) : Holding(g, k)}
<1>1. Held(p, k) = handles[p][k] + Cardinality(H)
  BY DEF Held, Holding
<1>2. H = IF Holding(h, k) THEN {h} ELSE {}
  OBVIOUS
<1> HIDE DEF H
<1>3. Cardinality(H) = IF Holding(h, k) THEN 1 ELSE 0
  BY <1>2, FS_EmptySet, FS_Singleton
<1> QED BY <1>1, <1>3

(* The charge of a quiet tenant and what it holds: equal but while an       *)
(* object is made and not yet charged, or freed and not yet refunded.       *)
LEMMA ChargeAndHeld ==
    ASSUME QuietAlone, QuotaInv, NEW t \in Quiet, NEW k \in Kinds,
           NEW h \in Threads, Bound(ProcOf[h], t)
    PROVE  /\ HeldByTenant(t, k) \in Nat /\ usage[t].count[k] \in Nat
           /\ HeldByTenant(t, k) = usage[t].count[k] + (IF Holding(h, k) THEN 1 ELSE 0)
                                                     - (IF Ahead(h, k) THEN 1 ELSE 0)
<1>1. PICK g \in Threads : /\ Bound(ProcOf[g], t) /\ HeldByTenant(t, k) = Held(ProcOf[g], k)
                           /\ ThreadsOf(ProcOf[g]) = {g}
  BY HeldByOne
<1>2. ProcOf \in [Threads -> Pids]
  BY HooksAssumption
<1>3. g = h
  BY <1>1, <1>2, HomeOnly DEF QuietAlone
<1>4. HeldByTenant(t, k) = handles[ProcOf[h]][k] + (IF Holding(h, k) THEN 1 ELSE 0)
  BY <1>1, <1>2, <1>3, HeldOfOneThread
<1>5. /\ handles[ProcOf[h]][k] \in Nat /\ usage[t].count[k] \in Nat
      /\ usage[t].count[k] = handles[ProcOf[h]][k] + (IF Ahead(h, k) THEN 1 ELSE 0)
  <2>1. /\ ThreadOK(h, t) /\ handles[ProcOf[h]] \in [Kinds -> Nat]
        /\ \A j \in Kinds : usage[t].count[j] \in Nat
    BY OwnFacts
  <2>2. usage[t].count[k] = handles[ProcOf[h]][k] + (IF Ahead(h, k) THEN 1 ELSE 0)
    BY <2>1 DEF ThreadOK
  <2> QED BY <2>1, <2>2
<1> QED BY <1>4, <1>5

(* A tenant with one process and one thread that administrators leave alone *)
(* is charged for exactly the objects it holds whenever it is between       *)
(* calls, whatever any number of other tenants, processes, threads and      *)
(* administrators do: update_tenant_resource_count loses no update of it.   *)
THEOREM ChargesExact ==
    ASSUME QuietAlone
    PROVE  HooksSpec => []CountExact
<1>1. QuotaInv => CountExact
  <2>1. SUFFICES ASSUME QuotaInv, NEW t \in Quiet, AtRest(t), NEW k \in Kinds
                 PROVE  usage[t].count[k] = HeldByTenant(t, k)
    BY DEF CountExact
  <2>2. CASE \A h \in Threads : ~Bound(ProcOf[h], t)
    BY <2>1, <2>2, HeldByOne
  <2>3. CASE \E h \in Threads : Bound(ProcOf[h], t)
    <3>1. PICK h \in Threads : Bound(ProcOf[h], t)
      BY <2>3
    <3>2. ProcOf[h] \in MembersOf(t)
      BY <2>1, <3>1, OwnFacts DEF MembersOf
    <3>3. op[h] = "none"
      BY <2>1, <3>2 DEF AtRest, QuotaInv, LocalInv, PathOK
    <3>4. ~Holding(h, k) /\ ~Ahead(h, k)
      BY <3>3 DEF Holding, Ahead, Creates, Frees
    <3> QED BY <2>1, <3>1, <3>4, ChargeAndHeld
  <2> QED BY <2>2, <2>3
<1> QED BY <1>1, QuotaAlways, PTL

(* Such a tenant never holds more QPs or MRs than its quota, at any point   *)
(* of a call: an object is made only after a check that had room for it.    *)
THEOREM QuotasHold ==
    ASSUME QuietAlone
    PROVE  HooksSpec => []QuotaRespected
<1>1. QuotaInv => QuotaRespected
  <2>1. SUFFICES ASSUME QuotaInv, NEW t \in Quiet, NEW k \in {"QP", "MR"}
                 PROVE  HeldByTenant(t, k) <= quota[t][k]
    BY DEF QuotaRespected
  <2>2. k \in Kinds /\ quota[t] = InitQuota /\ InitQuota[k] \in Nat
    BY <2>1, HooksAssumption DEF Kinds, QuotaInv, Isolation, RowOK, Quota, Resources
  <2>3. CASE \A h \in Threads : ~Bound(ProcOf[h], t)
    BY <2>1, <2>2, <2>3, HeldByOne
  <2>4. CASE \E h \in Threads : Bound(ProcOf[h], t)
    <3>1. PICK h \in Threads : Bound(ProcOf[h], t)
      BY <2>4
    <3>2. /\ HeldByTenant(t, k) \in Nat /\ usage[t].count[k] \in Nat
          /\ HeldByTenant(t, k) = usage[t].count[k] + (IF Holding(h, k) THEN 1 ELSE 0)
                                                    - (IF Ahead(h, k) THEN 1 ELSE 0)
      BY <2>1, <2>2, <3>1, ChargeAndHeld
    <3>3. ThreadOK(h, t) /\ PathOK(h) /\ usage[t].count[k] <= InitQuota[k]
      BY <2>1, <3>1, OwnFacts DEF ThreadOK
    <3>4. CASE Holding(h, k) /\ ~Ahead(h, k)
      <4>1. op[h] \in Creates /\ Kind(op[h]) = k /\ tpc[h] \in Passed
        BY <3>4 DEF Holding, Ahead, Passed, Frees, Creates
      <4>2. op[h] \in {"create_qp", "reg_mr"}
        BY <2>1, <4>1 DEF Creates, Kind
      <4>3. usage[t].count[k] + 1 <= InitQuota[k]
        BY <3>3, <4>1, <4>2 DEF ThreadOK
      <4> QED BY <2>2, <3>2, <3>4, <4>3
    <3>5. CASE ~(Holding(h, k) /\ ~Ahead(h, k))
      BY <2>2, <3>2, <3>3, <3>5
    <3> QED BY <3>4, <3>5
  <2> QED BY <2>3, <2>4
<1> QED BY <1>1, QuotaAlways, PTL

(* Its calls are refused by the tenant limit only at its quota, or for a    *)
(* region that would not fit an empty tenant: never for objects of others,  *)
(* and never for objects it has freed.                                      *)
THEOREM RefusalsTrue ==
    ASSUME QuietAlone
    PROVE  HooksSpec => []NoFalseRefusal
<1>1. QuotaInv => NoFalseRefusal
  <2>1. SUFFICES ASSUME QuotaInv, NEW h \in Threads, NEW t \in Quiet, tid[h] = t,
                        tpc[h] = "denied", why[h] = "tenant"
                 PROVE  \/ HeldByTenant(t, Kind(op[h])) >= quota[t][Kind(op[h])]
                        \/ /\ op[h] = "reg_mr" /\ MRLength > quota[t]["Memory"]
                           /\ quota[t]["Memory"] > 0
    BY DEF NoFalseRefusal
  <2>2. Bound(ProcOf[h], t)
    BY <2>1 DEF QuotaInv, Isolation
  <2>3. ThreadOK(h, t) /\ PathOK(h) /\ quota[t] = InitQuota
    BY <2>1, <2>2, OwnFacts DEF RowOK
  <2>4. Kind(op[h]) \in Kinds
    BY KindType
  <2>5. ~Holding(h, Kind(op[h])) /\ ~Ahead(h, Kind(op[h]))
    BY <2>1, <2>3 DEF Holding, Ahead, PathOK
  <2>6. HeldByTenant(t, Kind(op[h])) = usage[t].count[Kind(op[h])]
    BY <2>1, <2>2, <2>4, <2>5, ChargeAndHeld
  <2> QED BY <2>1, <2>3, <2>6 DEF ThreadOK
<1> QED BY <1>1, QuotaAlways, PTL

-----------------------------------------------------------------------------
(***************************************************************************)
(* The daemon, its clients and the command line tool, for any number of     *)
(* clients, requests, tenants, restarts and signals.  The first part is the *)
(* inductive invariant: who is connected, what the daemon owes to the       *)
(* client it serves, and what each client has been told.                    *)
(***************************************************************************)

Answers == [ok : BOOLEAN, seen : SUBSET TenantIds]
Serving == {"recv", "process", "info", "walk", "answer", "newline"}

(* Every variable but the table has the type its C declaration gives it;    *)
(* what a client asks is one of its requests once it has been invoked.      *)
DaemonTypeOK ==
    /\ dpc \in {"down", "test", "select", "accept"} \cup Serving
    /\ running \in BOOLEAN /\ server_fd \in BOOLEAN
    /\ cur \in Clients \cup {NoClient}
    /\ walk \in Nat /\ answer \in Answers /\ queue \in Seq(Clients)
    /\ cpc \in [Clients -> {"idle", "connect", "send", "recv", "done"}]
    /\ DOMAIN request = Clients
    /\ \A c \in Clients : request[c] \in Requests[c] \cup {NoRequest}
    /\ sent \in [Clients -> BOOLEAN] /\ peer \in [Clients -> BOOLEAN]
    /\ inbox \in [Clients -> SUBSET Answers]
    /\ out \in [Clients -> {"none", "refused", "no answer", "success", "failed", "interrupted"}]
    /\ effects \in [Clients -> Nat]
    /\ stable \subseteq TenantIds /\ ever \subseteq TenantIds

Waits(c) == \E i \in 1..Len(queue) : queue[i] = c

(* A connection is open at the daemon's end exactly while it waits in the   *)
(* backlog, once, or is the one being served, and not both.                 *)
Connected ==
    /\ dpc = "down" => ~server_fd
    /\ ~server_fd => queue = <<>>
    /\ dpc = "accept" /\ server_fd => queue # <<>>
    /\ dpc \in Serving <=> cur # NoClient
    /\ \A i, j \in 1..Len(queue) : queue[i] = queue[j] => i = j
    /\ \A c \in Clients : Waits(c) => c # cur
    /\ \A c \in Clients : peer[c] <=> Waits(c) \/ c = cur

Wrote(c) == request[c].cmd \in Writes

(* What the daemon holds for the client it serves. *)
Owed ==
    /\ dpc \in {"down", "test", "select", "accept", "recv", "process", "info"} => answer = NoAnswer
    /\ dpc \in {"info", "walk"} => request[cur].cmd \in Walks
    /\ dpc \in {"process", "info", "walk", "answer", "newline"} => sent[cur]
    /\ dpc \in {"recv", "process", "info", "walk"} => effects[cur] = 0 /\ inbox[cur] = {}
    /\ dpc = "answer" =>
         /\ inbox[cur] = {}
         /\ effects[cur] = IF answer.ok /\ Wrote(cur) THEN 1 ELSE 0
    /\ dpc = "newline" => inbox[cur] # {}

(* What a client that is not served has been told, and may still be told.   *)
Told(c) ==
    /\ cpc[c] \in {"idle", "connect"} => ~peer[c]
    /\ cpc[c] \in {"idle", "connect", "send"} => ~sent[c] /\ inbox[c] = {}
    /\ ~peer[c] /\ cpc[c] # "done" /\ inbox[c] = {} => effects[c] = 0
    /\ Waits(c) => effects[c] = 0 /\ inbox[c] = {}
    /\ cpc[c] # "done" => out[c] = "none"
    /\ effects[c] <= 1
    /\ \A a \in inbox[c] : IF a.ok THEN Wrote(c) => effects[c] = 1 ELSE effects[c] = 0
    /\ out[c] = "success" /\ Wrote(c) => effects[c] = 1 /\ inbox[c] # {}
    /\ out[c] \in {"failed", "no answer", "refused"} =>
         effects[c] = 0 /\ (inbox[c] # {} \/ ~peer[c])

AnswersInv == DaemonTypeOK /\ Connected /\ Owed /\ \A c \in Clients : Told(c)

(* What a reading of the table under way has collected. *)
Reading ==
    /\ dpc \in {"info", "walk"} =>
         stable \subseteq Existing /\ Existing \subseteq ever /\ walk \in TenantIds
    /\ dpc = "info" => request[cur].cmd = "STATUS" /\ request[cur].tenant = walk
    /\ dpc = "walk" =>
         /\ request[cur].cmd = "STATUS" => request[cur].tenant = Absent
         /\ \A t \in stable : t < walk => t \in answer.seen
         /\ answer.seen \subseteq ever

ReportsInv == AnswersInv /\ Reading /\ ReportsTrue

-----------------------------------------------------------------------------
LEMMA DaemonInitInv == DaemonInit => AnswersInv
<1> SUFFICES ASSUME DaemonInit PROVE AnswersInv
  OBVIOUS
<1>1. DaemonTypeOK
  <2>1. answer \in Answers
    BY DEF DaemonInit, Answers, NoAnswer
  <2>2. queue \in Seq(Clients) /\ stable \subseteq TenantIds /\ ever \subseteq TenantIds
    BY DEF DaemonInit
  <2>3. QED
    BY <2>1, <2>2 DEF DaemonInit, DaemonTypeOK
<1>2. Connected
  BY DaemonAssumption DEF DaemonInit, Connected, Serving, Waits
<1>3. Owed
  BY DEF DaemonInit, Owed
<1>4. \A c \in Clients : Told(c)
  BY DEF DaemonInit, Told, Waits
<1>5. QED
  BY <1>1, <1>2, <1>3, <1>4 DEF AnswersInv

(* Whoever waits waits on; a new connection comes last. *)
LEMMA WaitsAppend ==
    ASSUME queue \in Seq(Clients), NEW c \in Clients, queue' = Append(queue, c),
           ~Waits(c), \A i, j \in 1..Len(queue) : queue[i] = queue[j] => i = j
    PROVE  /\ queue' \in Seq(Clients)
           /\ queue' # <<>>
           /\ \A d \in Clients : Waits(d)' <=> Waits(d) \/ d = c
           /\ \A i, j \in 1..Len(queue)' : queue'[i] = queue'[j] => i = j
<1>1. /\ queue' \in Seq(Clients) /\ Len(queue)' = Len(queue) + 1 /\ Len(queue) \in Nat
      /\ \A i \in 1..Len(queue) : queue'[i] = queue[i]
      /\ queue'[Len(queue) + 1] = c
  OBVIOUS
<1>2. QED
  BY <1>1 DEF Waits

(* accept takes the first connection, and no other. *)
LEMMA WaitsTail ==
    ASSUME queue \in Seq(Clients), queue # <<>>, queue' = Tail(queue),
           \A i, j \in 1..Len(queue) : queue[i] = queue[j] => i = j
    PROVE  /\ queue' \in Seq(Clients) /\ Head(queue) \in Clients /\ Waits(Head(queue))
           /\ \A d \in Clients : Waits(d)' <=> Waits(d) /\ d # Head(queue)
           /\ \A i, j \in 1..Len(queue)' : queue'[i] = queue'[j] => i = j
<1>1. /\ queue' \in Seq(Clients) /\ Len(queue)' = Len(queue) - 1 /\ Len(queue) \in Nat \ {0}
      /\ \A i \in 1..(Len(queue) - 1) : queue'[i] = queue[i + 1]
      /\ Head(queue) = queue[1] /\ Head(queue) \in Clients
  OBVIOUS
<1>2. \A i, j \in 1..Len(queue)' : queue'[i] = queue'[j] => i = j
  BY <1>1
<1>3. ASSUME NEW d \in Clients PROVE Waits(d)' <=> Waits(d) /\ d # Head(queue)
  <2>1. ASSUME Waits(d)' PROVE Waits(d) /\ d # Head(queue)
    <3>1. PICK i \in 1..Len(queue)' : queue'[i] = d
      BY <2>1 DEF Waits
    <3>2. i + 1 \in 1..Len(queue) /\ queue[i + 1] = d /\ i + 1 # 1 /\ 1 \in 1..Len(queue)
      BY <1>1, <3>1
    <3>3. QED
      BY <1>1, <3>2 DEF Waits
  <2>2. ASSUME Waits(d), d # Head(queue) PROVE Waits(d)'
    <3>1. PICK i \in 1..Len(queue) : queue[i] = d
      BY <2>2 DEF Waits
    <3>2. i - 1 \in 1..Len(queue)' /\ queue'[i - 1] = d
      BY <1>1, <2>2, <3>1
    <3>3. QED
      BY <3>2 DEF Waits
  <2>3. QED
    BY <2>1, <2>2
<1>4. Waits(Head(queue))
  BY <1>1 DEF Waits
<1>5. QED
  BY <1>1, <1>2, <1>3, <1>4

-----------------------------------------------------------------------------
(* A client whose connection and record a step leaves alone.                *)
LEMMA ToldFrame ==
    ASSUME NEW d \in Clients, Told(d), Waits(d)' <=> Waits(d),
           cpc'[d] = cpc[d], request'[d] = request[d], peer'[d] = peer[d],
           sent'[d] = sent[d], inbox'[d] = inbox[d], out'[d] = out[d], effects'[d] = effects[d]
    PROVE  Told(d)'
  BY DEF Told, Wrote

LEMMA ConnectedFrame ==
    ASSUME Connected, UNCHANGED <<dpc, server_fd, cur, queue, peer>>
    PROVE  Connected' /\ \A d \in Clients : Waits(d)' <=> Waits(d)
  BY DEF Connected, Waits

(* The client's steps: none of them touches another client, and each keeps  *)
(* what this one has been told.                                             *)
LEMMA InvokeInv ==
    ASSUME AnswersInv, NEW c \in Clients, NEW r \in Requests[c], Invoke(c, r)
    PROVE  AnswersInv'
<1> USE DEF AnswersInv, Invoke, daemonVars, readVars
<1>1. DaemonTypeOK'
  BY DEF DaemonTypeOK
<1>2. Connected' /\ \A d \in Clients : Waits(d)' <=> Waits(d)
  BY ConnectedFrame
<1>3. cur # c
  BY DEF Connected, Told
<1>4. Owed'
  <2>1. dpc \in {"info", "walk", "answer"} => request'[cur] = request[cur]
    BY <1>3 DEF DaemonTypeOK, Connected, Serving
  <2>2. QED
    BY <2>1 DEF Owed, Wrote
<1>5. \A d \in Clients : Told(d)'
  <2>1. ASSUME NEW d \in Clients \ {c} PROVE Told(d)'
    BY DEF Told, Waits, Wrote, DaemonTypeOK
  <2>2. Told(c)'
    BY DEF Told, Waits, Wrote, DaemonTypeOK
  <2>3. QED
    BY <2>1, <2>2
<1>6. QED
  BY <1>1, <1>2, <1>4, <1>5

LEMMA ConnectInv ==
    ASSUME AnswersInv, NEW c \in Clients, Connect(c)
    PROVE  AnswersInv'
<1> USE DEF AnswersInv, readVars
<1>1. CASE ~server_fd /\ Report(c, "refused") /\ UNCHANGED <<queue, peer>>
  <2> USE <1>1 DEF Connect, Report
  <2>1. DaemonTypeOK'
    BY DEF DaemonTypeOK
  <2>2. Connected' /\ \A d \in Clients : Waits(d)' <=> Waits(d)
    BY ConnectedFrame
  <2>3. Owed'
    BY DEF Owed, Wrote
  <2>4. \A d \in Clients \ {c} : Told(d)'
    BY <2>2, ToldFrame DEF DaemonTypeOK
  <2>5. Told(c)'
    BY <2>2 DEF Told, Wrote, DaemonTypeOK
  <2>6. QED
    BY <2>1, <2>2, <2>3, <2>4, <2>5
<1>2. CASE /\ server_fd /\ queue' = Append(queue, c) /\ peer' = [peer EXCEPT ![c] = TRUE]
           /\ cpc' = [cpc EXCEPT ![c] = "send"] /\ UNCHANGED out
  <2> USE <1>2 DEF Connect
  <2>1. ~peer[c] /\ ~Waits(c) /\ c # cur /\ inbox[c] = {} /\ effects[c] = 0 /\ out[c] = "none"
    BY DEF Told, Connected
  <2>2. /\ queue' \in Seq(Clients) /\ queue' # <<>>
        /\ \A d \in Clients : Waits(d)' <=> Waits(d) \/ d = c
        /\ \A i, j \in 1..Len(queue)' : queue'[i] = queue'[j] => i = j
    BY <2>1, WaitsAppend DEF Connected, DaemonTypeOK
  <2>3. DaemonTypeOK'
    BY <2>2 DEF DaemonTypeOK
  <2>4. Connected'
    BY <2>1, <2>2 DEF Connected, DaemonTypeOK
  <2>5. Owed'
    BY DEF Owed, Wrote
  <2>6. \A d \in Clients : Told(d)'
    BY <2>1, <2>2 DEF Told, Wrote, DaemonTypeOK
  <2>7. QED
    BY <2>3, <2>4, <2>5, <2>6
<1>3. QED
  BY <1>1, <1>2 DEF Connect

LEMMA SendInv ==
    ASSUME AnswersInv, NEW c \in Clients, Send(c)
    PROVE  AnswersInv'
<1> USE DEF AnswersInv, Send, Report, daemonVars, readVars
<1>1. DaemonTypeOK'
  BY DEF DaemonTypeOK
<1>2. Connected' /\ \A d \in Clients : Waits(d)' <=> Waits(d)
  BY ConnectedFrame
<1>3. Owed'
  BY DEF Owed, Wrote, DaemonTypeOK, Connected, Serving
<1>4. \A d \in Clients \ {c} : Told(d)'
  BY <1>2, ToldFrame DEF DaemonTypeOK
<1>5. Told(c)'
  <2>1. CASE peer[c]
    BY <1>2, <2>1 DEF Told, Wrote, DaemonTypeOK
  <2>2. CASE ~peer[c]
    <3>1. effects[c] = 0
      BY <2>2 DEF Told
    <3>2. cpc'[c] = "done" /\ out'[c] = "no answer" /\ ~Waits(c)
      BY <2>2 DEF DaemonTypeOK, Connected
    <3>3. QED
      BY <1>2, <2>2, <3>1, <3>2 DEF Told, Wrote
  <2>3. QED
    BY <2>1, <2>2
<1>6. QED
  BY <1>1, <1>2, <1>3, <1>4, <1>5

LEMMA RecvInv ==
    ASSUME AnswersInv, NEW c \in Clients, Recv(c)
    PROVE  AnswersInv'
<1> USE DEF AnswersInv, Recv, Report, daemonVars, readVars
<1>1. DaemonTypeOK'
  BY DEF DaemonTypeOK
<1>2. Connected' /\ \A d \in Clients : Waits(d)' <=> Waits(d)
  BY ConnectedFrame
<1>3. Owed'
  BY DEF Owed, Wrote
<1>4. \A d \in Clients \ {c} : Told(d)'
  BY <1>2, ToldFrame DEF DaemonTypeOK
<1>5. Told(c)'
  BY <1>2 DEF Told, Wrote, DaemonTypeOK
<1>6. QED
  BY <1>1, <1>2, <1>3, <1>4, <1>5

LEMMA InterruptInv ==
    ASSUME AnswersInv, NEW c \in Clients, Interrupt(c)
    PROVE  AnswersInv'
<1> USE DEF AnswersInv, Interrupt, Report, daemonVars, readVars
<1>1. DaemonTypeOK'
  BY DEF DaemonTypeOK
<1>2. Connected' /\ \A d \in Clients : Waits(d)' <=> Waits(d)
  BY ConnectedFrame
<1>3. Owed'
  BY DEF Owed, Wrote
<1>4. \A d \in Clients \ {c} : Told(d)'
  BY <1>2, ToldFrame DEF DaemonTypeOK
<1>5. Told(c)'
  BY <1>2 DEF Told, Wrote, DaemonTypeOK
<1>6. QED
  BY <1>1, <1>2, <1>3, <1>4, <1>5

-----------------------------------------------------------------------------
(* The daemon dies only when it serves nobody whose end is still open: a    *)
(* client that waits for an answer learns that there will be none.          *)
LEMMA DieInv ==
    ASSUME AnswersInv, Die, UNCHANGED <<cpc, request, sent, inbox, out, effects>>,
           cur = NoClient \/ ~Open(cur)
    PROVE  AnswersInv'
<1> USE DEF AnswersInv, Die
<1>1. DaemonTypeOK'
  <2>1. answer' \in Answers
    BY DEF NoAnswer, Answers
  <2>2. queue' \in Seq(Clients) /\ stable' \subseteq TenantIds /\ ever' \subseteq TenantIds
    OBVIOUS
  <2>3. QED
    BY <2>1, <2>2 DEF DaemonTypeOK
<1>2. Connected' /\ \A d \in Clients : ~Waits(d)'
  BY DaemonAssumption DEF Connected, Waits, Serving
<1>3. Owed'
  BY DEF Owed
<1>4. ASSUME NEW d \in Clients PROVE Told(d)'
  <2>1. peer[d] /\ cpc[d] # "done" => effects[d] = 0
    <3>1. CASE Waits(d)
      BY <3>1 DEF Told
    <3>2. CASE d = cur
      BY <3>2, DaemonAssumption DEF Open, Told, DaemonTypeOK
    <3>3. QED
      BY <3>1, <3>2 DEF Connected
  <2>2. QED
    BY <1>2, <2>1 DEF Told, Wrote
<1>5. QED
  BY <1>1, <1>2, <1>3, <1>4

(* A signal closes the socket; who waits on it has had no effect yet.       *)
LEMMA SignalInv ==
    ASSUME AnswersInv, signal_handler
    PROVE  AnswersInv'
<1> USE DEF AnswersInv, signal_handler, DropQueue, readVars
<1>1. DaemonTypeOK'
  <2>1. queue' \in Seq(Clients)
    OBVIOUS
  <2>2. peer' \in [Clients -> BOOLEAN]
    BY DEF DaemonTypeOK
  <2>3. QED
    BY <2>1, <2>2 DEF DaemonTypeOK
<1>2. \A d \in Clients : ~Waits(d)' /\ (peer'[d] <=> peer[d] /\ ~Waits(d))
  <2>1. queue \in Seq(Clients) /\ queue' = <<>>
    BY DEF DaemonTypeOK
  <2>2. DOMAIN queue = 1..Len(queue) /\ Len(queue') = 0
    BY <2>1
  <2>3. ASSUME NEW d \in Clients PROVE peer'[d] <=> peer[d] /\ ~Waits(d)
    BY <2>2 DEF Waits, DaemonTypeOK
  <2>4. ASSUME NEW d \in Clients PROVE ~Waits(d)'
    BY <2>2 DEF Waits
  <2>5. QED
    BY <2>3, <2>4
<1>3. Connected'
  BY <1>2 DEF Connected
<1>4. Owed'
  BY DEF Owed, Wrote
<1>5. \A d \in Clients : Told(d)'
  BY <1>2 DEF Told, Wrote
<1>6. QED
  BY <1>1, <1>3, <1>4, <1>5

LEMMA StartInv ==
    ASSUME AnswersInv, Start
    PROVE  AnswersInv'
<1> USE DEF AnswersInv, Start, create_server_socket, clientVars, readVars
<1>1. DaemonTypeOK'
  <2>1. queue' \in Seq(Clients)
    OBVIOUS
  <2>2. QED
    BY <2>1 DEF DaemonTypeOK
<1>2. queue' = queue
  BY DEF Connected
<1>3. Connected' /\ \A d \in Clients : Waits(d)' <=> Waits(d)
  BY <1>2 DEF Connected, Waits, Serving
<1>4. Owed'
  BY DEF Owed
<1>5. \A d \in Clients : Told(d)'
  BY <1>3, ToldFrame
<1>6. QED
  BY <1>1, <1>3, <1>4, <1>5

(* The loop: select and accept, with the socket open or closed by now.      *)
LEMMA TestInv ==
    ASSUME AnswersInv, Test
    PROVE  AnswersInv'
<1>1. cur = NoClient
  BY DEF AnswersInv, Connected, Test, Serving
<1>2. CASE Die
  BY <1>1, <1>2, DieInv DEF Test
<1>3. CASE dpc' = "select" /\ UNCHANGED <<running, server_fd, cur, walk, answer, queue, peer, readVars>>
  <2> USE <1>3 DEF AnswersInv, Test, readVars
  <2>1. DaemonTypeOK'
    BY DEF DaemonTypeOK
  <2>2. Connected' /\ \A d \in Clients : Waits(d)' <=> Waits(d)
    BY DEF Connected, Waits, Serving
  <2>3. Owed'
    BY DEF Owed
  <2>4. \A d \in Clients : Told(d)'
    BY <2>2, ToldFrame
  <2>5. QED
    BY <2>1, <2>2, <2>3, <2>4
<1>4. QED
  BY <1>2, <1>3 DEF Test

LEMMA SelectInv ==
    ASSUME AnswersInv, Select
    PROVE  AnswersInv'
<1>1. cur = NoClient
  BY DEF AnswersInv, Connected, Select, Serving
<1>2. CASE Die
  BY <1>1, <1>2, DieInv DEF Select
<1>3. CASE /\ dpc' = IF server_fd /\ queue # <<>> THEN "accept" ELSE "test"
           /\ UNCHANGED <<running, server_fd, cur, walk, answer, queue, peer, readVars>>
  <2> USE <1>3 DEF AnswersInv, Select, readVars
  <2>1. DaemonTypeOK'
    BY DEF DaemonTypeOK
  <2>2. Connected' /\ \A d \in Clients : Waits(d)' <=> Waits(d)
    BY DEF Connected, Waits, Serving
  <2>3. Owed'
    BY DEF Owed
  <2>4. \A d \in Clients : Told(d)'
    BY <2>2, ToldFrame
  <2>5. QED
    BY <2>1, <2>2, <2>3, <2>4
<1>4. QED
  BY <1>2, <1>3 DEF Select

LEMMA AcceptInv ==
    ASSUME AnswersInv, Accept
    PROVE  AnswersInv'
<1> USE DEF AnswersInv, Accept, clientVars, readVars
<1>1. CASE ~server_fd
  <2> USE <1>1
  <2>1. DaemonTypeOK'
    BY DEF DaemonTypeOK
  <2>2. Connected' /\ \A d \in Clients : Waits(d)' <=> Waits(d)
    BY DEF Connected, Waits, Serving
  <2>3. Owed'
    BY DEF Owed
  <2>4. \A d \in Clients : Told(d)'
    BY <2>2, ToldFrame
  <2>5. QED
    BY <2>1, <2>2, <2>3, <2>4
<1>2. CASE server_fd
  <2> USE <1>2
  <2>1. /\ queue' \in Seq(Clients) /\ Head(queue) \in Clients /\ Waits(Head(queue))
        /\ \A d \in Clients : Waits(d)' <=> Waits(d) /\ d # Head(queue)
        /\ \A i, j \in 1..Len(queue)' : queue'[i] = queue'[j] => i = j
    BY WaitsTail DEF Connected, DaemonTypeOK
  <2>2. DaemonTypeOK'
    BY <2>1 DEF DaemonTypeOK, Serving
  <2>3. cur = NoClient
    BY DEF Connected, Serving
  <2>4. Connected'
    BY <2>1, <2>3, DaemonAssumption DEF Connected, Serving
  <2>5. Owed'
    BY <2>1 DEF Owed, Told
  <2>6. \A d \in Clients : Told(d)'
    BY <2>1 DEF Told, Wrote
  <2>7. QED
    BY <2>2, <2>4, <2>5, <2>6
<1>3. QED
  BY <1>1, <1>2

(* The daemon closes the connection it serves: it has answered, or the      *)
(* client has gone without sending.                                         *)
LEMMA CloseInv ==
    ASSUME AnswersInv, Close, cur \in Clients, ~Open(cur) \/ inbox[cur] # {},
           UNCHANGED <<running, server_fd, walk, queue, cpc, request, sent, inbox, out, effects,
                       stable, ever>>
    PROVE  AnswersInv'
<1> USE DEF AnswersInv, Close
<1>1. DaemonTypeOK'
  <2>1. answer' \in Answers
    BY DEF NoAnswer, Answers
  <2>2. QED
    BY <2>1 DEF DaemonTypeOK
<1>2. Connected' /\ \A d \in Clients : Waits(d)' <=> Waits(d)
  <2>1. \A d \in Clients : Waits(d)' <=> Waits(d)
    BY DEF Waits
  <2>2. dpc \in Serving
    BY DaemonAssumption DEF Connected
  <2>3. QED
    BY <2>1, <2>2, DaemonAssumption DEF Connected, Serving, DaemonTypeOK
<1>3. Owed'
  BY DEF Owed
<1>4. PICK c \in Clients : c = cur
  OBVIOUS
<1>5. \A d \in Clients \ {c} : Told(d)'
  BY <1>2, <1>4, ToldFrame DEF DaemonTypeOK
<1>6. Told(c)'
  <2>1. ~Waits(c)' /\ ~peer'[c]
    BY <1>2, <1>4 DEF Connected, DaemonTypeOK
  <2>2. Told(c) /\ (~Open(c) \/ inbox[c] # {})
    BY <1>4
  <2>3. inbox[c] = {} /\ cpc[c] # "done" => effects[c] = 0
    <3>1. cpc[c] \in {"idle", "connect", "send", "recv", "done"}
      BY DEF DaemonTypeOK
    <3>2. QED
      BY <2>2, <3>1 DEF Told, Open
  <2> HIDE DEF AnswersInv, Close
  <2>4. QED
    BY <2>1, <2>2, <2>3 DEF Told, Wrote
<1>7. QED
  BY <1>1, <1>2, <1>3, <1>5, <1>6

(* recv returns a command, or nothing from a client that went.              *)
LEMMA RecvCommandInv ==
    ASSUME AnswersInv, RecvCommand
    PROVE  AnswersInv'
<1>1. cur \in Clients
  BY DEF AnswersInv, DaemonTypeOK, Connected, Serving, RecvCommand
<1>2. CASE ~Open(cur) /\ Close
  BY <1>1, <1>2, CloseInv DEF RecvCommand, readVars
<1>3. CASE sent[cur] /\ dpc' = "process" /\ UNCHANGED <<peer, cur, answer>>
  <2> USE <1>3 DEF AnswersInv, RecvCommand, readVars
  <2>1. DaemonTypeOK'
    BY DEF DaemonTypeOK, Serving
  <2>2. Connected' /\ \A d \in Clients : Waits(d)' <=> Waits(d)
    BY DEF Connected, Waits, Serving
  <2>3. Owed'
    BY DEF Owed
  <2>4. \A d \in Clients : Told(d)'
    BY <2>2, ToldFrame
  <2>5. QED
    BY <2>1, <2>2, <2>3, <2>4
<1>4. QED
  BY <1>2, <1>3 DEF RecvCommand

(* A step of the daemon within the service of one client that leaves the    *)
(* connections and the records of the clients alone.                        *)
LEMMA ServiceInv ==
    ASSUME AnswersInv, dpc \in Serving, dpc' \in Serving, DaemonTypeOK', Owed',
           UNCHANGED <<server_fd, cur, queue, clientVars>>
    PROVE  AnswersInv'
<1> USE DEF AnswersInv, clientVars
<1>1. Connected' /\ \A d \in Clients : Waits(d)' <=> Waits(d)
  BY DEF Connected, Waits, Serving
<1>2. \A d \in Clients : Told(d)'
  BY <1>1, ToldFrame
<1>3. QED
  BY <1>1, <1>2

(* A command that writes: the table changes once, and the answer says so.   *)
LEMMA ProcessWriteInv ==
    ASSUME AnswersInv, ProcessWrite
    PROVE  AnswersInv'
<1> DEFINE ok == Accepted(request[cur])
<1>1. PICK c \in Clients : c = cur
  BY DEF AnswersInv, DaemonTypeOK, Connected, Serving, ProcessWrite
<1>2. /\ dpc = "process" /\ dpc' = "answer" /\ answer' = [ok |-> ok, seen |-> {}]
      /\ effects' = [effects EXCEPT ![c] = IF ok THEN @ + 1 ELSE @]
      /\ UNCHANGED <<running, server_fd, cur, walk, queue, cpc, request, sent, inbox, peer, out,
                     stable, ever>>
      /\ request[c].cmd \in Writes
  BY <1>1 DEF AnswersInv, ProcessWrite, readVars, DaemonTypeOK
<1>3. ok \in BOOLEAN
  BY DEF Accepted
<1> HIDE DEF ok
<1>4. answer' \in Answers /\ answer'.ok = ok
  BY <1>2, <1>3 DEF Answers
<1>5. /\ effects[c] = 0 /\ effects'[c] = IF ok THEN 1 ELSE 0
      /\ effects' \in [Clients -> Nat]
  <2>1. effects \in [Clients -> Nat] /\ effects[c] = 0
    BY <1>1, <1>2 DEF AnswersInv, Owed, DaemonTypeOK
  <2>2. CASE ok
    BY <1>2, <2>1, <2>2
  <2>3. CASE ~ok
    BY <1>2, <2>1, <2>3
  <2>4. QED
    BY <2>2, <2>3
<1>6. DaemonTypeOK'
  BY <1>2, <1>4, <1>5 DEF AnswersInv, DaemonTypeOK, Serving
<1>7. Connected' /\ \A d \in Clients : Waits(d)' <=> Waits(d)
  BY <1>2 DEF AnswersInv, Connected, Waits, Serving
<1>8. Owed'
  BY <1>1, <1>2, <1>3, <1>4, <1>5 DEF AnswersInv, Owed, Wrote
<1>9. \A d \in Clients \ {c} : Told(d)'
  BY <1>2, <1>7, ToldFrame DEF AnswersInv, DaemonTypeOK
<1>10. Told(c)'
  <2>1. inbox[c] = {} /\ peer[c] /\ ~Waits(c)
    BY <1>1, <1>2 DEF AnswersInv, Owed, Connected
  <2>2. effects'[c] <= 1
    BY <1>3, <1>5
  <2>3. QED
    BY <1>2, <1>7, <2>1, <2>2 DEF AnswersInv, Told, Wrote
<1>11. QED
  BY <1>6, <1>7, <1>8, <1>9, <1>10 DEF AnswersInv

(* A command nobody knows, STATUS and LIST_TENANTS read at most.            *)
LEMMA ProcessUnknownInv ==
    ASSUME AnswersInv, ProcessUnknown
    PROVE  AnswersInv'
<1> USE DEF AnswersInv, ProcessUnknown, clientVars, readVars
<1>1. DaemonTypeOK'
  BY DEF DaemonTypeOK, Serving
<1>2. Owed'
  BY DEF Owed, Wrote, NoAnswer
<1>3. QED
  BY <1>1, <1>2, ServiceInv DEF Serving

LEMMA ProcessStatusInv ==
    ASSUME AnswersInv, ProcessStatus
    PROVE  AnswersInv'
<1> USE DEF AnswersInv, ProcessStatus, ReadsFrom, clientVars, readVars
<1>1. answer' = NoAnswer /\ NoAnswer \in Answers
  BY DEF Owed, NoAnswer, Answers
<1>2. DaemonTypeOK'
  <2>1. walk' \in Nat
    <3>1. walk \in Nat
      BY DEF DaemonTypeOK
    <3>2. walk' = walk \/ walk' \in TenantIds
      OBVIOUS
    <3>3. QED
      BY <3>1, <3>2, SizeAssumption DEF TenantIds
  <2>2. stable' \subseteq TenantIds /\ ever' \subseteq TenantIds
    BY DEF DaemonTypeOK, Existing
  <2>3. QED
    BY <1>1, <2>1, <2>2 DEF DaemonTypeOK, Serving
<1>3. Owed'
  BY <1>1 DEF Owed, Wrote, NoAnswer, Walks
<1>4. QED
  BY <1>2, <1>3, ServiceInv DEF Serving

LEMMA CheckInfoInv ==
    ASSUME AnswersInv, CheckInfo, walk \in TenantIds
    PROVE  AnswersInv'
<1> USE DEF AnswersInv, CheckInfo, clientVars, readVars
<1>1. answer' \in Answers
  BY DEF NoAnswer, Answers
<1>2. DaemonTypeOK'
  BY <1>1 DEF DaemonTypeOK, Serving
<1>3. Owed'
  BY DEF Owed, Wrote, Walks, Writes
<1>4. QED
  BY <1>2, <1>3, ServiceInv DEF Serving

LEMMA ProcessWalkInv ==
    ASSUME AnswersInv, ProcessWalk
    PROVE  AnswersInv'
<1> USE DEF AnswersInv, ProcessWalk, ReadsFrom, clientVars, readVars
<1>1. answer' \in Answers
  BY DEF Answers
<1>2. DaemonTypeOK'
  BY <1>1 DEF DaemonTypeOK, Serving, Existing
<1>3. Owed'
  BY DEF Owed, Wrote
<1>4. QED
  BY <1>2, <1>3, ServiceInv DEF Serving

LEMMA WalkStepInv ==
    ASSUME AnswersInv, WalkStep, walk \in TenantIds
    PROVE  AnswersInv'
<1> USE DEF AnswersInv, WalkStep, clientVars, readVars
<1>1. answer' \in Answers
  BY DEF Answers, DaemonTypeOK
<1>2. DaemonTypeOK'
  <2>1. walk' \in Nat
    <3>1. walk \in Nat
      BY DEF DaemonTypeOK
    <3>2. walk' = walk \/ walk' = walk + 1
      OBVIOUS
    <3>3. QED
      BY <3>1, <3>2
  <2>2. QED
    BY <1>1, <2>1 DEF DaemonTypeOK, Serving
<1>3. Owed'
  BY DEF Owed, Wrote, Walks, Writes
<1>4. QED
  BY <1>2, <1>3, ServiceInv DEF Serving

(* The answer reaches a client whose end is open; else SIGPIPE ends the     *)
(* daemon.                                                                  *)
LEMMA AnswerInv ==
    ASSUME AnswersInv, Answer
    PROVE  AnswersInv'
<1>1. PICK c \in Clients : c = cur
  BY DEF AnswersInv, DaemonTypeOK, Connected, Serving, Answer
<1>2. CASE ~Open(cur)
  BY <1>2, DieInv DEF Answer
<1>3. CASE Open(cur)
  <2>1. /\ dpc = "answer" /\ dpc' = "newline" /\ inbox' = [inbox EXCEPT ![c] = {answer}]
        /\ walk' = 0 /\ answer' = NoAnswer /\ stable' = {} /\ ever' = {}
        /\ UNCHANGED <<running, server_fd, cur, queue, peer, cpc, request, sent, out, effects>>
    BY <1>1, <1>3 DEF Answer
  <2>2. DaemonTypeOK'
    <3>1. NoAnswer \in Answers /\ {answer} \in SUBSET Answers
      BY DEF NoAnswer, Answers, AnswersInv, DaemonTypeOK
    <3>2. QED
      BY <2>1, <3>1 DEF AnswersInv, DaemonTypeOK, Serving
  <2>3. Connected' /\ \A d \in Clients : Waits(d)' <=> Waits(d)
    BY <2>1 DEF AnswersInv, Connected, Waits, Serving
  <2>4. Owed'
    BY <1>1, <2>1 DEF AnswersInv, Owed, DaemonTypeOK
  <2>5. \A d \in Clients \ {c} : Told(d)'
    BY <2>1, <2>3, ToldFrame DEF AnswersInv, DaemonTypeOK
  <2>6. Told(c)'
    <3>1. inbox'[c] = {answer} /\ peer[c] /\ ~Waits(c) /\ sent[c] /\ cpc[c] = "recv" /\ out[c] = "none"
      BY <1>1, <1>3, <2>1 DEF AnswersInv, DaemonTypeOK, Connected, Owed, Told, Open
    <3>2. effects[c] = IF answer.ok /\ Wrote(c) THEN 1 ELSE 0
      BY <1>1, <2>1 DEF AnswersInv, Owed
    <3>3. QED
      BY <2>1, <2>3, <3>1, <3>2 DEF Told, Wrote
  <2>7. QED
    BY <2>2, <2>3, <2>4, <2>5, <2>6 DEF AnswersInv
<1>4. QED
  BY <1>2, <1>3

LEMMA NewlineInv ==
    ASSUME AnswersInv, Newline
    PROVE  AnswersInv'
<1>1. cur \in Clients
  BY DEF AnswersInv, DaemonTypeOK, Connected, Serving, Newline
<1>2. CASE ~Open(cur)
  BY <1>2, DieInv DEF Newline
<1>3. CASE Open(cur)
  BY <1>1, <1>3, CloseInv DEF AnswersInv, Owed, Newline, readVars
<1>4. QED
  BY <1>2, <1>3

(* The command line tool changes the table and what a reader may have seen. *)
LEMMA CliInv ==
    ASSUME AnswersInv, Cli
    PROVE  AnswersInv'
<1>1. /\ UNCHANGED <<dpc, running, server_fd, cur, walk, answer, queue>>
      /\ UNCHANGED <<cpc, request, sent, inbox, peer, out, effects>>
  BY DEF Cli, daemonVars, clientVars
<1>2. stable' \subseteq TenantIds /\ ever' \subseteq TenantIds
  BY DEF Cli, AnswersInv, DaemonTypeOK, Existing
<1>3. DaemonTypeOK'
  BY <1>1, <1>2 DEF AnswersInv, DaemonTypeOK
<1>4. Connected' /\ \A d \in Clients : Waits(d)' <=> Waits(d)
  BY <1>1, ConnectedFrame DEF AnswersInv
<1>5. Owed'
  BY <1>1 DEF AnswersInv, Owed, Wrote
<1>6. \A d \in Clients : Told(d)'
  BY <1>1, <1>4, ToldFrame DEF AnswersInv
<1>7. QED
  BY <1>3, <1>4, <1>5, <1>6 DEF AnswersInv

-----------------------------------------------------------------------------
(* Readings.  A step that leaves the daemon, the request it serves and the  *)
(* existing tenants alone keeps what the reading has collected.             *)
LEMMA ReadingFrame ==
    ASSUME ReportsInv, UNCHANGED <<dpc, cur, walk, answer, stable, ever, status>>,
           cur \in Clients => request'[cur] = request[cur]
    PROVE  Reading' /\ ReportsTrue'
<1>1. dpc \in {"info", "walk", "answer"} => cur \in Clients
  BY DEF ReportsInv, AnswersInv, DaemonTypeOK, Connected, Serving
<1>2. QED
  BY <1>1 DEF ReportsInv, Reading, ReportsTrue, Asked, Existing

(* No reading is under way, and no answer is ready. *)
LEMMA ReadingIdle ==
    ASSUME dpc' \notin {"info", "walk", "answer"}
    PROVE  Reading' /\ ReportsTrue'
  BY DEF Reading, ReportsTrue

LEMMA ProcessReads ==
    ASSUME ReportsInv,
           ProcessWrite \/ ProcessUnknown \/ ProcessStatus \/ ProcessWalk
    PROVE  Reading' /\ ReportsTrue'
<1>1. CASE ProcessWrite
  BY <1>1 DEF ProcessWrite, Reading, ReportsTrue, Writes, Walks
<1>2. CASE ProcessUnknown
  BY <1>2 DEF ProcessUnknown, Reading, ReportsTrue, clientVars
<1>3. CASE ProcessStatus
  <2>1. CASE request[cur].tenant \in TenantIds
    BY <1>3, <2>1 DEF ProcessStatus, ReadsFrom, clientVars, Reading, ReportsTrue,
       tableVars, tenantVars, Existing
  <2>2. CASE request[cur].tenant \notin TenantIds
    <3>1. answer' = NoAnswer /\ dpc' = "answer" /\ UNCHANGED <<request, cur, stable>>
      BY <1>3, <2>2 DEF ProcessStatus, ReportsInv, AnswersInv, Owed, clientVars, readVars
    <3>2. stable' \cap Asked(cur)' = {}
      BY <1>3, <2>2, <3>1 DEF Asked, ProcessStatus, ReportsInv, AnswersInv, DaemonTypeOK
    <3>3. QED
      BY <3>1, <3>2 DEF Reading, ReportsTrue, NoAnswer
  <2>3. QED
    BY <2>1, <2>2
<1>4. CASE ProcessWalk
  <2>1. 0 \in TenantIds /\ \A t \in TenantIds : ~(t < 0)
    BY SizeAssumption DEF TenantIds
  <2>2. QED
    BY <1>4, <2>1 DEF ProcessWalk, ReadsFrom, clientVars, Reading, ReportsTrue,
       tableVars, tenantVars, Existing
<1>5. QED
  BY <1>1, <1>2, <1>3, <1>4

(* tenant_get_info's late look at the status: who existed throughout still  *)
(* exists, and who exists has existed.                                      *)
LEMMA CheckInfoReads ==
    ASSUME ReportsInv, CheckInfo
    PROVE  Reading' /\ ReportsTrue'
<1>1. /\ walk \in TenantIds /\ stable \subseteq Existing /\ Existing \subseteq ever
      /\ request[cur].cmd = "STATUS" /\ request[cur].tenant = walk
      /\ dpc' = "answer" /\ UNCHANGED <<cur, request, stable, ever>>
  BY DEF ReportsInv, Reading, CheckInfo, clientVars, readVars
<1>2. Absent \notin TenantIds
  BY SizeAssumption DEF Absent, TenantIds
<1>3. Asked(cur)' = {walk}
  BY <1>1, <1>2 DEF Asked
<1>4. answer'.seen = IF walk \in Existing THEN {walk} ELSE {}
  BY <1>1 DEF CheckInfo, Existing, NoAnswer
<1>5. QED
  BY <1>1, <1>3, <1>4 DEF Reading, ReportsTrue

(* One tenant of the walk: it extends the prefix that has been read.        *)
LEMMA WalkReads ==
    ASSUME ReportsInv, WalkStep
    PROVE  Reading' /\ ReportsTrue'
<1>1. /\ walk \in TenantIds /\ stable \subseteq Existing /\ Existing \subseteq ever
      /\ request[cur].cmd = "STATUS" => request[cur].tenant = Absent
      /\ \A t \in stable : t < walk => t \in answer.seen
      /\ answer.seen \subseteq ever
      /\ UNCHANGED <<cur, request, stable, ever, Existing>>
  BY DEF ReportsInv, Reading, WalkStep, clientVars, readVars, tableVars, tenantVars, Existing
<1>2. answer'.seen = IF walk \in Existing THEN answer.seen \cup {walk} ELSE answer.seen
  BY <1>1 DEF WalkStep, Shown, Existing, ReportsInv, AnswersInv, DaemonTypeOK, Answers
<1>3. answer'.seen \subseteq ever
  BY <1>1, <1>2
<1>4. \A t \in stable : t < walk + 1 => t \in answer'.seen
  <2>1. \A t \in TenantIds : t < walk + 1 => t < walk \/ t = walk
    BY <1>1 DEF TenantIds
  <2>2. stable \subseteq TenantIds
    BY DEF ReportsInv, AnswersInv, DaemonTypeOK
  <2>3. QED
    BY <1>1, <1>2, <2>1, <2>2
<1>5. CASE walk + 1 = MaxTenants
  <2>1. dpc' = "answer"
    BY <1>5 DEF WalkStep
  <2>2. \A t \in stable : t < walk + 1
    BY <1>1, <1>5, SizeAssumption DEF Existing, TenantIds
  <2>3. QED
    BY <1>1, <1>3, <1>4, <2>1, <2>2 DEF Reading, ReportsTrue
<1>6. CASE walk + 1 # MaxTenants
  <2>1. walk' = walk + 1 /\ dpc' = "walk"
    BY <1>6 DEF WalkStep
  <2>2. walk + 1 \in TenantIds
    BY <1>1, <1>6, SizeAssumption DEF TenantIds
  <2>3. QED
    BY <1>1, <1>3, <1>4, <2>1, <2>2 DEF Reading, ReportsTrue
<1>7. QED
  BY <1>5, <1>6

(* The command line tool may create and delete while the daemon reads.      *)
LEMMA CliReads ==
    ASSUME ReportsInv, Cli
    PROVE  Reading' /\ ReportsTrue'
<1>1. UNCHANGED <<dpc, cur, walk, answer, request>>
  BY DEF Cli, daemonVars, clientVars
<1>2. CASE dpc \in {"info", "walk"}
  <2>1. stable' = stable \cap Existing' /\ ever' = ever \cup Existing'
    BY <1>2 DEF Cli
  <2>2. QED
    BY <1>1, <1>2, <2>1 DEF ReportsInv, Reading, ReportsTrue
<1>3. CASE dpc \notin {"info", "walk"}
  <2>1. UNCHANGED <<stable, ever>>
    BY <1>3 DEF Cli
  <2>2. QED
    BY <1>1, <1>3, <2>1 DEF ReportsInv, Reading, ReportsTrue, Asked
<1>4. QED
  BY <1>2, <1>3

-----------------------------------------------------------------------------
(* Every step keeps the invariant: one step per action. *)
LEMMA DaemonStepInv == ReportsInv /\ [DaemonNext]_allVars => ReportsInv'
<1> SUFFICES ASSUME ReportsInv, [DaemonNext]_allVars
             PROVE  ReportsInv'
  OBVIOUS
<1>a. AnswersInv /\ Reading /\ ReportsTrue
  BY DEF ReportsInv
<1>q. SUFFICES AnswersInv' /\ Reading' /\ ReportsTrue'
  BY DEF ReportsInv
<1>1. ASSUME NEW c \in Clients, NEW r \in Requests[c], Invoke(c, r)
      PROVE  AnswersInv' /\ Reading' /\ ReportsTrue'
  <2>1. cur \in Clients => cur # c
    BY <1>a, <1>1 DEF Invoke, AnswersInv, Connected, Told
  <2>2. cur \in Clients => request'[cur] = request[cur]
    BY <1>a, <1>1, <2>1 DEF Invoke, AnswersInv, DaemonTypeOK
  <2>3. UNCHANGED <<dpc, cur, walk, answer, stable, ever, status>>
    BY <1>1 DEF Invoke, daemonVars, readVars, tableVars, tenantVars
  <2>4. QED
    BY <1>a, <1>1, <2>2, <2>3, InvokeInv, ReadingFrame
<1>2. ASSUME NEW c \in Clients, ClientStep(c) \/ Interrupt(c)
      PROVE  AnswersInv' /\ Reading' /\ ReportsTrue'
  <2>1. UNCHANGED <<dpc, cur, walk, answer, stable, ever, status, request>>
    BY <1>2 DEF ClientStep, Connect, Send, Recv, Interrupt, daemonVars, readVars, tableVars, tenantVars
  <2>2. QED
    BY <1>a, <1>2, <2>1, ReadingFrame, ConnectInv, SendInv, RecvInv, InterruptInv DEF ClientStep
<1>3. CASE Start
  BY <1>a, <1>3, StartInv, ReadingIdle DEF Start
<1>4. CASE signal_handler
  <2>1. UNCHANGED <<dpc, cur, walk, answer, stable, ever, status, request>>
    BY <1>4 DEF signal_handler, readVars, tableVars, tenantVars
  <2>2. QED
    BY <1>a, <1>4, <2>1, SignalInv, ReadingFrame
<1>5. CASE Test
  BY <1>a, <1>5, TestInv, ReadingIdle DEF Test, Die
<1>6. CASE Select
  BY <1>a, <1>6, SelectInv, ReadingIdle DEF Select, Die
<1>7. CASE Accept
  BY <1>a, <1>7, AcceptInv, ReadingIdle DEF Accept
<1>8. CASE RecvCommand
  BY <1>a, <1>8, RecvCommandInv, ReadingIdle DEF RecvCommand, Close
<1>9. CASE ProcessWrite \/ ProcessUnknown \/ ProcessStatus \/ ProcessWalk
  BY <1>a, <1>9, ProcessReads, ProcessWriteInv, ProcessUnknownInv, ProcessStatusInv, ProcessWalkInv
<1>10. CASE CheckInfo
  BY <1>a, <1>10, CheckInfoReads, CheckInfoInv DEF Reading, CheckInfo
<1>11. CASE WalkStep
  BY <1>a, <1>11, WalkReads, WalkStepInv DEF Reading, WalkStep
<1>12. CASE Answer
  BY <1>a, <1>12, AnswerInv, ReadingIdle DEF Answer, Die
<1>13. CASE Newline
  BY <1>a, <1>13, NewlineInv, ReadingIdle DEF Newline, Die, Close
<1>14. CASE Cli
  BY <1>a, <1>14, CliInv, CliReads
<1>15. CASE UNCHANGED allVars
  <2>1. /\ UNCHANGED <<dpc, running, server_fd, cur, walk, answer, queue>>
        /\ UNCHANGED <<cpc, request, sent, inbox, peer, out, effects, stable, ever, status>>
    BY <1>15 DEF allVars, daemonVars, clientVars, readVars, tableVars, tenantVars
  <2>2. Reading' /\ ReportsTrue'
    BY <2>1, ReadingFrame
  <2>3. Connected' /\ \A d \in Clients : Waits(d)' <=> Waits(d)
    BY <1>a, <2>1, ConnectedFrame DEF AnswersInv
  <2>4. DaemonTypeOK'
    BY <1>a, <2>1 DEF AnswersInv, DaemonTypeOK
  <2>5. Owed'
    BY <1>a, <2>1 DEF AnswersInv, Owed, Wrote
  <2>6. \A d \in Clients : Told(d)'
    BY <1>a, <2>1, <2>3, ToldFrame DEF AnswersInv
  <2>7. QED
    BY <2>2, <2>3, <2>4, <2>5, <2>6 DEF AnswersInv
<1>16. QED
  BY <1>1, <1>2, <1>3, <1>4, <1>5, <1>6, <1>7, <1>8, <1>9, <1>10, <1>11, <1>12, <1>13, <1>14, <1>15
  DEF DaemonNext, DaemonStep

(* What a client reports is what happened to the table, through any         *)
(* interleaving of clients, signals, deaths and restarts of the daemon.     *)
THEOREM AnswersCorrect == DaemonSpec => []AnswersTrue
<1>1. DaemonInit => ReportsInv
  BY DaemonInitInv DEF ReportsInv, DaemonInit, Reading, ReportsTrue
<1>2. ReportsInv => AnswersTrue
  BY DEF ReportsInv, AnswersInv, AnswersTrue, Told, Wrote
<1>3. QED
  BY <1>1, <1>2, DaemonStepInv, PTL DEF DaemonSpec

(* STATUS and LIST_TENANTS answer for the time in which they read, although *)
(* the command line tool creates and deletes tenants under their walk.      *)
THEOREM ReportsCorrect == DaemonSpec => []ReportsTrue
<1>1. DaemonInit => ReportsInv
  BY DaemonInitInv DEF ReportsInv, DaemonInit, Reading, ReportsTrue
<1>2. ReportsInv => ReportsTrue
  BY DEF ReportsInv
<1>3. QED
  BY <1>1, <1>2, DaemonStepInv, PTL DEF DaemonSpec

-----------------------------------------------------------------------------
(* The table.  What a request describes is a quota.                         *)
LEMMA QuotaOfType ==
    ASSUME NEW r, {r.qp, r.mr} \subseteq Nat \cup {Absent}, NEW limit \in Nat
    PROVE  QuotaOf(r, limit) \in Quota
  BY DaemonAssumption DEF QuotaOf, Quota, Resources

(* The daemon and the command line tool touch the table only through its    *)
(* API, each call of which keeps the table's invariant.                     *)
LEMMA DaemonTableStep ==
    ASSUME 0 \notin Pids, DaemonTypeOK, Connected, TableInv, [DaemonNext]_allVars
    PROVE  TableInv'
<1> DEFINE r == request[cur]
<1>a. ASSUME NEW t \in TenantIds, NEW q \in Quota, tenant_create(t, q)
      PROVE  TableInv'
  BY <1>a, CreateType, CreateInv DEF TableInv
<1>b. ASSUME NEW t \in TenantIds, NEW q \in Quota, tenant_update_quota(t, q)
      PROVE  TableInv'
  BY <1>b, UpdateQuotaType, QuietStep DEF TableInv, tenant_update_quota, bindingVars
<1>c. TenantIds \subseteq TenantArgs
  BY SizeAssumption DEF TenantIds, TenantArgs
<1>d. ASSUME NEW t \in TenantIds, tenant_delete(t)
      PROVE  TableInv'
  BY <1>c, <1>d, InvStep DEF TableNext
<1>1. CASE Cli
  <2>1. QuotaOf(NoRequest, DefaultLimit) \in Quota
    BY QuotaOfType, DaemonAssumption DEF NoRequest
  <2>2. CASE \E p \in Pids, t \in TenantIds \ {0} : tenant_bind_process(p, t)
    BY <1>c, <2>2, InvStep DEF TableNext
  <2>3. CASE \E p \in Pids : tenant_unbind_process(p)
    BY <2>3, InvStep DEF TableNext
  <2>4. QED
    BY <1>1, <1>a, <1>d, <2>1, <2>2, <2>3 DEF Cli
<1>2. CASE ProcessWrite /\ Accepted(r)
  <2>1. cur \in Clients /\ r.tenant \in TenantIds
    BY <1>2 DEF ProcessWrite, Accepted, DaemonTypeOK, Connected, Serving
  <2>2. {r.qp, r.mr} \subseteq Nat \cup {Absent}
    <3>1. r \in Requests[cur] \/ r = NoRequest
      BY <2>1 DEF DaemonTypeOK
    <3>2. CASE r \in Requests[cur]
      BY <2>1, <3>2, DaemonAssumption
    <3>3. CASE r = NoRequest
      BY <3>3 DEF NoRequest
    <3>4. QED
      BY <3>1, <3>2, <3>3
  <2>3. QuotaOf(r, DefaultLimit) \in Quota
    BY <2>2, QuotaOfType, DaemonAssumption
  <2>4. r.qp # Absent => QuotaOf(r, r.qp) \in Quota
    BY <2>2, QuotaOfType
  <2>5. handle_create(r) \/ handle_delete(r) \/ handle_update_quota(r)
    BY <1>2 DEF ProcessWrite
  <2>6. QED
    BY <1>a, <1>b, <1>d, <2>1, <2>3, <2>4, <2>5
    DEF handle_create, handle_delete, handle_update_quota
<1>3. CASE UNCHANGED tableVars
  BY <1>3, InvStep
<1>4. QED
  <2>1. ProcessWrite => Accepted(r) \/ UNCHANGED tableVars
    BY DEF ProcessWrite
  <2>2. DaemonStep => ProcessWrite \/ UNCHANGED tableVars
    BY DEF DaemonStep, Test, Select, Accept, RecvCommand, ProcessUnknown, ProcessStatus, CheckInfo,
       ProcessWalk, WalkStep, Answer, Newline
  <2>3. ASSUME NEW c \in Clients, ClientStep(c) \/ Interrupt(c) \/ \E q \in Requests[c] : Invoke(c, q)
        PROVE  UNCHANGED tableVars
    BY <2>3 DEF ClientStep, Connect, Send, Recv, Interrupt, Invoke
  <2>4. Start \/ signal_handler \/ UNCHANGED allVars => UNCHANGED tableVars
    BY DEF Start, signal_handler, allVars
  <2>5. QED
    BY <1>1, <1>2, <1>3, <2>1, <2>2, <2>3, <2>4 DEF DaemonNext

(* Bindings stay sound and both counters exact under the daemon and the     *)
(* command line tool, which write the same table without each other.        *)
THEOREM TableSafeUnderDaemon ==
    ASSUME 0 \notin Pids
    PROVE  DaemonSpec => [](BindingsSound /\ CountersMatch)
<1>1. DaemonInit => ReportsInv /\ TableInv
  BY DaemonInitInv, InitInv DEF ReportsInv, DaemonInit, Reading, ReportsTrue
<1>2. ReportsInv /\ TableInv /\ [DaemonNext]_allVars => (ReportsInv /\ TableInv)'
  BY DaemonStepInv, DaemonTableStep DEF ReportsInv, AnswersInv
<1>3. TableInv => BindingsSound /\ CountersMatch
  BY DEF TableInv, BindingsSound, CountersMatch
<1>4. QED
  BY <1>1, <1>2, <1>3, PTL DEF DaemonSpec
=============================================================================
