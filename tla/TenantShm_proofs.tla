--------------------------- MODULE TenantShm_proofs ---------------------------
(***************************************************************************)
(* Proofs about the tenant table for any number of tenants, slots and      *)
(* processes.  They assume that no caller passes pid 0, which the scans    *)
(* take for an empty slot; the run TenantShm_pid0 shows why.               *)
(***************************************************************************)
EXTENDS TenantShm, FiniteSetTheorems, TLAPS

(* Wrap is the identity on a value that fits in a word, and always fits. *)
LEMMA WrapFits ==
    /\ \A n \in 0..(Word - 1) : Wrap(n) = n
    /\ \A n \in Int : -Word <= n /\ n < 2 * Word => Wrap(n) \in 0..(Word - 1)
    /\ \A n \in Nat : Wrap(n) \in Nat
  BY SizeAssumption DEF Wrap

(* A set of slots is finite, and has at most MaxProcesses elements. *)
LEMMA SlotSets ==
    ASSUME NEW S \in SUBSET Slots
    PROVE  /\ IsFiniteSet(S)
           /\ Cardinality(S) \in 0..MaxProcesses
<1>1. IsFiniteSet(Slots) /\ Cardinality(Slots) = MaxProcesses
  BY FS_Interval, SizeAssumption DEF Slots
<1>2. QED
  BY <1>1, FS_Subset, FS_CardinalityType, SizeAssumption

(* A set of tenants is finite, and has at most MaxTenants elements. *)
LEMMA TenantSets ==
    ASSUME NEW S \in SUBSET TenantIds
    PROVE  /\ IsFiniteSet(S)
           /\ Cardinality(S) \in 0..MaxTenants
<1>1. IsFiniteSet(TenantIds) /\ Cardinality(TenantIds) = MaxTenants
  BY FS_Interval, SizeAssumption DEF TenantIds
<1>2. QED
  BY <1>1, FS_Subset, FS_CardinalityType, SizeAssumption

(* The arguments an API call lets through name an entry of tenants[]. *)
LEMMA TenantArg ==
    \A t \in TenantArgs : t < MaxTenants => t \in TenantIds
  BY SizeAssumption DEF TenantArgs, TenantIds

(* A step that replaces an entry of a process list keeps the lists typed. *)
LEMMA ReplaceFirstType ==
    ASSUME processes \in [TenantIds -> [Slots -> Pids \cup {0}]],
           NEW t \in TenantIds, NEW old, NEW new \in Pids \cup {0},
           ReplaceFirst(t, old, new)
    PROVE  processes' \in [TenantIds -> [Slots -> Pids \cup {0}]]
  BY DEF ReplaceFirst

(* A tenant may be created with, and given, any quota at all. *)
LEMMA CreateType ==
    ASSUME TableTypeOK, NEW t \in TenantIds, NEW q \in Quota, tenant_create(t, q)
    PROVE  TableTypeOK'
<1>1. ZeroUsage \in Usage /\ EmptyList \in [Slots -> Pids \cup {0}]
  BY DEF ZeroUsage, Usage, EmptyList
<1>2. Wrap(active_tenant_count + 1) \in 0..(Word - 1)
  BY WrapFits, SizeAssumption DEF TableTypeOK
<1>3. QED
  BY <1>1, <1>2 DEF TableTypeOK, tenant_create, Status

LEMMA UpdateQuotaType ==
    ASSUME TableTypeOK, NEW t \in TenantIds, NEW q \in Quota, tenant_update_quota(t, q)
    PROVE  TableTypeOK'
  BY DEF TableTypeOK, tenant_update_quota, bindingVars

(* Every step keeps the table's shape: the inductive step of type           *)
(* correctness, one case per API call.                                      *)
LEMMA TypeStep == TableTypeOK /\ [TableNext]_tableVars => TableTypeOK'
<1> SUFFICES ASSUME TableTypeOK, [TableNext]_tableVars
             PROVE  TableTypeOK'
  OBVIOUS
<1> USE SizeAssumption, ArgAssumption, StatusAssumption, TenantArg
<1>1. ASSUME NEW t \in TenantArgs, NEW q \in QuotaArgs \cup {DefaultQuota}, tenant_create(t, q)
      PROVE  TableTypeOK'
  BY <1>1, CreateType DEF tenant_create
<1>2. ASSUME NEW t \in TenantArgs, tenant_delete(t)
      PROVE  TableTypeOK'
  <2>1. t \in TenantIds
    BY <1>2 DEF tenant_delete
  <2>2. Cardinality(SlotsOf(t)) \in 0..MaxProcesses
    BY SlotSets DEF SlotsOf
  <2>3. Wrap(total_process_count - Cardinality(SlotsOf(t))) \in 0..(Word - 1)
    BY <2>2, WrapFits DEF TableTypeOK
  <2>4. Wrap(active_tenant_count - 1) \in 0..(Word - 1)
    BY WrapFits DEF TableTypeOK
  <2>5. EmptySlot \in Mapping
    BY DEF EmptySlot, Mapping, TenantIds
  <2>6. QED
    BY <1>2, <2>1, <2>3, <2>4, <2>5 DEF TableTypeOK, tenant_delete, Status
<1>3. ASSUME NEW t \in TenantArgs, NEW s \in StatusArgs, tenant_set_status(t, s)
      PROVE  TableTypeOK'
  BY <1>3 DEF TableTypeOK, tenant_set_status, Status, bindingVars
<1>4. ASSUME NEW t \in TenantArgs, NEW q \in QuotaArgs, tenant_update_quota(t, q)
      PROVE  TableTypeOK'
  BY <1>4, UpdateQuotaType DEF tenant_update_quota
<1>5. ASSUME NEW p \in Pids, NEW t \in TenantArgs, tenant_bind_process(p, t)
      PROVE  TableTypeOK'
  <2>1. t \in TenantIds
    BY <1>5 DEF tenant_bind_process
  <2>2. [pid |-> p, tenant_id |-> t] \in Mapping
    BY <2>1 DEF Mapping
  <2>3. CASE RebindProcess(p, t)
    BY <1>5, <2>2, <2>3 DEF TableTypeOK, tenant_bind_process, RebindProcess, tenantVars
  <2>4. CASE BindNewProcess(p, t)
    <3>1. processes' \in [TenantIds -> [Slots -> Pids \cup {0}]]
      BY <2>1, <2>4, ReplaceFirstType DEF BindNewProcess, TableTypeOK
    <3>2. Wrap(process_count[t] + 1) \in Nat
      BY <2>1, WrapFits DEF TableTypeOK
    <3>3. Wrap(total_process_count + 1) \in 0..(Word - 1)
      BY WrapFits DEF TableTypeOK
    <3>4. QED
      BY <1>5, <2>1, <2>2, <2>4, <3>1, <3>2, <3>3
      DEF TableTypeOK, tenant_bind_process, BindNewProcess, tenantVars
  <2>5. QED
    BY <1>5, <2>3, <2>4 DEF tenant_bind_process
<1>6. ASSUME NEW p \in Pids, tenant_unbind_process(p)
      PROVE  TableTypeOK'
  <2>1. PICK i \in Slots :
          LET t == pid_mappings[i].tenant_id IN
          /\ ReplaceFirst(t, p, 0)
          /\ process_count' = [process_count EXCEPT ![t] = Less1(process_count[t])]
          /\ pid_mappings' = [pid_mappings EXCEPT ![i] = EmptySlot]
    BY <1>6 DEF tenant_unbind_process
  <2>2. pid_mappings[i].tenant_id \in TenantIds
    BY DEF TableTypeOK, Mapping
  <2>3. processes' \in [TenantIds -> [Slots -> Pids \cup {0}]]
    BY <2>1, <2>2, ReplaceFirstType DEF TableTypeOK
  <2>4. EmptySlot \in Mapping
    BY DEF EmptySlot, Mapping, TenantIds
  <2>5. process_count' \in [TenantIds -> Nat] /\ pid_mappings' \in [Slots -> Mapping]
    BY <2>1, <2>2, <2>4 DEF TableTypeOK, Less1
  <2>6. QED
    BY <1>6, <2>3, <2>5 DEF TableTypeOK, tenant_unbind_process, Less1, tenantVars
<1>7. ASSUME NEW t \in TenantArgs, NEW u \in UsageArgs, tenant_update_resource_usage(t, u)
      PROVE  TableTypeOK'
  BY <1>7 DEF TableTypeOK, tenant_update_resource_usage, bindingVars
<1>8. CASE UNCHANGED tableVars
  BY <1>8 DEF TableTypeOK, tableVars, tenantVars, bindingVars
<1>9. QED
  BY <1>1, <1>2, <1>3, <1>4, <1>5, <1>6, <1>7, <1>8 DEF TableNext

-----------------------------------------------------------------------------
(* The zeroed region satisfies the invariant. *)
LEMMA InitInv == TableInit => TableInv
<1> SUFFICES ASSUME TableInit PROVE TableInv
  OBVIOUS
<1> USE SizeAssumption, ArgAssumption
<1>1. TableTypeOK
  BY DEF TableInit, TableTypeOK, Status, Quota, Usage, ZeroUsage, EmptyList, EmptySlot,
         Mapping, TenantIds
<1>2. Occupied = {} /\ Existing = {}
  BY DEF TableInit, Occupied, Existing, EmptySlot
<1>3. TotalCountsBindings /\ ActiveCountsTenants
  BY <1>2, FS_EmptySet DEF TableInit, TotalCountsBindings, ActiveCountsTenants
<1>4. BindingsUnique /\ BindingsLive
  BY <1>2 DEF TableInit, BindingsUnique, BindingsLive
<1>5. DefaultTenantInactive
  BY DEF TableInit, DefaultTenantInactive, TenantIds
<1>6. QED
  BY <1>1, <1>3, <1>4, <1>5 DEF TableInv

(* In a table that satisfies the invariant, the slots that name an existing *)
(* tenant t are occupied, and their number does not exceed the total.       *)
LEMMA SlotsOfOccupied ==
    ASSUME TableInv, NEW t \in TenantIds, t # 0
    PROVE  /\ SlotsOf(t) \subseteq Occupied
           /\ Cardinality(Occupied \ SlotsOf(t))
                = total_process_count - Cardinality(SlotsOf(t))
           /\ Cardinality(SlotsOf(t)) \in 0..total_process_count
<1>1. SlotsOf(t) \subseteq Occupied
  BY DEF TableInv, BindingsLive, SlotsOf, EmptySlot
<1>2. IsFiniteSet(Occupied) /\ IsFiniteSet(SlotsOf(t))
  BY SlotSets DEF Occupied, SlotsOf
<1>3. Occupied \cap SlotsOf(t) = SlotsOf(t)
  BY <1>1
<1>4. Cardinality(Occupied \ SlotsOf(t)) = Cardinality(Occupied) - Cardinality(SlotsOf(t))
  BY <1>2, <1>3, FS_Difference
<1>5. Cardinality(SlotsOf(t)) \in Nat /\ Cardinality(SlotsOf(t)) <= Cardinality(Occupied)
  BY <1>1, <1>2, FS_Subset, FS_CardinalityType
<1>6. QED
  BY <1>1, <1>4, <1>5 DEF TableInv, TotalCountsBindings, TableTypeOK

(* A step that leaves statuses and mappings alone keeps every part of the   *)
(* invariant except the types.                                              *)
LEMMA QuietStep ==
    ASSUME TableInv, TableTypeOK',
           UNCHANGED <<status, pid_mappings, active_tenant_count, total_process_count>>
    PROVE  TableInv'
  BY DEF TableInv, DefaultTenantInactive, BindingsUnique, BindingsLive, TotalCountsBindings,
         ActiveCountsTenants, Occupied, Existing

(* tenant_create adds one tenant that exists and binds nobody to it. *)
LEMMA CreateInv ==
    ASSUME TableInv, TableTypeOK', NEW t \in TenantIds, NEW q, tenant_create(t, q)
    PROVE  TableInv'
<1>1. Existing' = Existing \cup {t} /\ t \notin Existing /\ Occupied' = Occupied
  BY DEF TableInv, TableTypeOK, tenant_create, Existing, Occupied
<1>2. Cardinality(Existing') = Cardinality(Existing) + 1 /\ Cardinality(Existing') \in 0..MaxTenants
  BY <1>1, TenantSets, FS_AddElement DEF Existing
<1>3. ActiveCountsTenants'
  <2>1. active_tenant_count + 1 \in 0..(Word - 1)
    BY <1>2, SizeAssumption DEF TableInv, TableTypeOK, ActiveCountsTenants
  <2>2. QED
    BY <1>2, <2>1, WrapFits DEF TableInv, ActiveCountsTenants, tenant_create
<1>4. DefaultTenantInactive'
  BY DEF TableInv, TableTypeOK, DefaultTenantInactive, tenant_create
<1>5. BindingsUnique' /\ BindingsLive' /\ TotalCountsBindings'
  BY <1>1 DEF TableInv, BindingsUnique, BindingsLive, TotalCountsBindings, tenant_create
<1>6. QED
  BY <1>3, <1>4, <1>5 DEF TableInv

(* tenant_delete unbinds exactly the members of the tenant it retires. *)
LEMMA DeleteInv ==
    ASSUME TableInv, TableTypeOK', NEW t \in TenantIds, tenant_delete(t)
    PROVE  TableInv'
<1>1. Existing' = Existing \ {t} /\ t \in Existing
  BY DEF TableInv, TableTypeOK, tenant_delete, Existing
<1>2. Occupied' = Occupied \ SlotsOf(t)
  BY DEF TableInv, TableTypeOK, tenant_delete, Occupied, EmptySlot
<1>3. TotalCountsBindings'
  <2>1. t # 0
    BY DEF tenant_delete
  <2>2. total_process_count - Cardinality(SlotsOf(t)) \in 0..(Word - 1)
    <3>1. Cardinality(SlotsOf(t)) \in 0..total_process_count
      BY <2>1, SlotsOfOccupied
    <3>2. QED
      BY <3>1, SizeAssumption DEF TableInv, TableTypeOK
  <2>3. QED
    BY <1>2, <2>1, <2>2, SlotsOfOccupied, WrapFits DEF TotalCountsBindings, tenant_delete
<1>4. ActiveCountsTenants'
  <2>1. Cardinality(Existing') = Cardinality(Existing) - 1 /\ Cardinality(Existing') \in 0..MaxTenants
    BY <1>1, TenantSets, FS_RemoveElement DEF Existing
  <2>2. active_tenant_count - 1 \in 0..(Word - 1)
    BY <2>1, SizeAssumption DEF TableInv, TableTypeOK, ActiveCountsTenants
  <2>3. QED
    BY <2>1, <2>2, WrapFits DEF TableInv, ActiveCountsTenants, tenant_delete
<1>5. BindingsUnique'
  BY <1>2 DEF TableInv, BindingsUnique, tenant_delete, Occupied
<1>6. BindingsLive'
  BY <1>1, <1>2 DEF TableInv, TableTypeOK, BindingsLive, tenant_delete, Occupied, SlotsOf
<1>7. DefaultTenantInactive'
  BY DEF TableInv, TableTypeOK, DefaultTenantInactive, tenant_delete
<1>8. QED
  BY <1>3, <1>4, <1>5, <1>6, <1>7 DEF TableInv

(* Suspending or resuming a tenant keeps it among the existing ones. *)
LEMMA SetStatusInv ==
    ASSUME TableInv, TableTypeOK', NEW t \in TenantIds, NEW s \in StatusArgs,
           tenant_set_status(t, s)
    PROVE  TableInv'
<1>1. Existing' = Existing
  BY StatusAssumption DEF TableInv, TableTypeOK, tenant_set_status, Existing
<1>2. t # 0
  BY DEF TableInv, DefaultTenantInactive, tenant_set_status
<1>3. QED
  BY <1>1, <1>2 DEF TableInv, TableTypeOK, tenant_set_status, bindingVars, DefaultTenantInactive,
     BindingsUnique, BindingsLive, TotalCountsBindings, ActiveCountsTenants, Occupied

(* tenant_bind_process moves the one slot of a mapped pid, or fills an      *)
(* empty one for a pid that has none.                                       *)
LEMMA BindInv ==
    ASSUME TableInv, TableTypeOK', 0 \notin Pids,
           NEW p \in Pids, NEW t \in TenantIds, tenant_bind_process(p, t)
    PROVE  TableInv'
<1>1. PICK i \in Slots :
        /\ pid_mappings' = [pid_mappings EXCEPT ![i] = [pid |-> p, tenant_id |-> t]]
        /\ \/ pid_mappings[i].pid = p /\ RebindProcess(p, t)
           \/ pid_mappings[i].pid = 0 /\ BindNewProcess(p, t)
  BY DEF tenant_bind_process, RebindProcess, BindNewProcess, FirstSlot
<1>2. t \in Existing \ {0} /\ Existing' = Existing
  BY DEF tenant_bind_process, tenantVars, TableInv, DefaultTenantInactive, Existing
<1>3. p # 0 /\ Occupied' = Occupied \cup {i}
  BY <1>1 DEF TableInv, TableTypeOK, Occupied
<1>4. BindingsLive'
  BY <1>1, <1>2, <1>3 DEF TableInv, TableTypeOK, BindingsLive
<1>5. BindingsUnique'
  <2>1. \A j \in Slots \ {i} : pid_mappings[j].pid # p
    <3>1. CASE pid_mappings[i].pid = p
      BY <1>3, <3>1 DEF TableInv, BindingsUnique, Occupied
    <3>2. CASE BindNewProcess(p, t)
      BY <3>2 DEF BindNewProcess, Unmapped
    <3>3. QED
      BY <1>1, <3>1, <3>2
  <2>2. QED
    BY <1>1, <1>3, <2>1 DEF TableInv, TableTypeOK, BindingsUnique, Occupied
<1>6. TotalCountsBindings'
  <2>1. IsFiniteSet(Occupied) /\ Cardinality(Occupied') \in 0..MaxProcesses
    BY <1>3, SlotSets DEF Occupied
  <2>2. CASE pid_mappings[i].pid = p /\ RebindProcess(p, t)
    <3>1. Occupied' = Occupied
      BY <1>3, <2>2 DEF Occupied
    <3>2. QED
      BY <2>2, <3>1 DEF TableInv, TotalCountsBindings, RebindProcess
  <2>3. CASE pid_mappings[i].pid = 0 /\ BindNewProcess(p, t)
    <3>1. i \notin Occupied
      BY <2>3 DEF Occupied
    <3>2. Cardinality(Occupied') = total_process_count + 1
      BY <1>3, <2>1, <3>1, FS_AddElement DEF TableInv, TotalCountsBindings
    <3>3. total_process_count + 1 \in 0..(Word - 1)
      BY <2>1, <3>2, SizeAssumption
    <3>4. QED
      BY <2>3, <3>2, <3>3, WrapFits DEF TotalCountsBindings, BindNewProcess
  <2>4. QED
    BY <1>1, <2>2, <2>3
<1>7. DefaultTenantInactive' /\ ActiveCountsTenants'
  BY <1>2 DEF TableInv, DefaultTenantInactive, ActiveCountsTenants, tenant_bind_process, tenantVars
<1>8. QED
  BY <1>4, <1>5, <1>6, <1>7 DEF TableInv

(* tenant_unbind_process empties the one slot its pid is in. *)
LEMMA UnbindInv ==
    ASSUME TableInv, TableTypeOK', 0 \notin Pids,
           NEW p \in Pids, tenant_unbind_process(p)
    PROVE  TableInv'
<1>1. PICK i \in Slots :
        /\ pid_mappings[i].pid = p
        /\ pid_mappings' = [pid_mappings EXCEPT ![i] = EmptySlot]
  BY DEF tenant_unbind_process, FirstSlot
<1>2. i \in Occupied /\ Occupied' = Occupied \ {i}
  BY <1>1 DEF TableInv, TableTypeOK, Occupied, EmptySlot
<1>3. TotalCountsBindings'
  <2>1. IsFiniteSet(Occupied) /\ Cardinality(Occupied') \in Nat
    BY <1>2, SlotSets DEF Occupied
  <2>2. Cardinality(Occupied') = total_process_count - 1
    BY <1>2, <2>1, FS_RemoveElement DEF TableInv, TotalCountsBindings
  <2>3. QED
    BY <2>1, <2>2 DEF TotalCountsBindings, tenant_unbind_process, Less1, TableInv, TableTypeOK
<1>4. BindingsUnique'
  BY <1>1, <1>2 DEF TableInv, TableTypeOK, BindingsUnique, Occupied
<1>5. Existing' = Existing
  BY DEF tenant_unbind_process, tenantVars, Existing
<1>6. BindingsLive'
  BY <1>1, <1>2, <1>5 DEF TableInv, TableTypeOK, BindingsLive
<1>7. DefaultTenantInactive' /\ ActiveCountsTenants'
  BY <1>5 DEF TableInv, DefaultTenantInactive, ActiveCountsTenants, tenant_unbind_process, tenantVars
<1>8. QED
  BY <1>3, <1>4, <1>6, <1>7 DEF TableInv

(* Every step of the table keeps the invariant. *)
LEMMA InvStep ==
    ASSUME 0 \notin Pids
    PROVE  TableInv /\ [TableNext]_tableVars => TableInv'
<1> SUFFICES ASSUME TableInv, [TableNext]_tableVars
             PROVE  TableInv'
  OBVIOUS
<1>t. TableTypeOK'
  BY TypeStep DEF TableInv
<1>1. ASSUME NEW t \in TenantArgs, NEW q \in QuotaArgs \cup {DefaultQuota}, tenant_create(t, q)
      PROVE  TableInv'
  BY <1>t, <1>1, TenantArg, CreateInv DEF tenant_create
<1>2. ASSUME NEW t \in TenantArgs, tenant_delete(t)
      PROVE  TableInv'
  BY <1>t, <1>2, TenantArg, DeleteInv DEF tenant_delete
<1>3. ASSUME NEW t \in TenantArgs, NEW s \in StatusArgs, tenant_set_status(t, s)
      PROVE  TableInv'
  BY <1>t, <1>3, TenantArg, SetStatusInv DEF tenant_set_status
<1>4. ASSUME NEW t \in TenantArgs, NEW q \in QuotaArgs, tenant_update_quota(t, q)
      PROVE  TableInv'
  BY <1>t, <1>4, QuietStep DEF tenant_update_quota, bindingVars
<1>5. ASSUME NEW p \in Pids, NEW t \in TenantArgs, tenant_bind_process(p, t)
      PROVE  TableInv'
  BY <1>t, <1>5, TenantArg, BindInv DEF tenant_bind_process
<1>6. ASSUME NEW p \in Pids, tenant_unbind_process(p)
      PROVE  TableInv'
  BY <1>t, <1>6, UnbindInv
<1>7. ASSUME NEW t \in TenantArgs, NEW u \in UsageArgs, tenant_update_resource_usage(t, u)
      PROVE  TableInv'
  BY <1>t, <1>7, QuietStep DEF tenant_update_resource_usage, bindingVars
<1>8. CASE UNCHANGED tableVars
  BY <1>t, <1>8, QuietStep DEF tableVars, tenantVars, bindingVars
<1>9. QED
  BY <1>1, <1>2, <1>3, <1>4, <1>5, <1>6, <1>7, <1>8 DEF TableNext

-----------------------------------------------------------------------------
(* The table keeps its types in every behaviour. *)
THEOREM TableTypeCorrect == TableSpec => []TableTypeOK
<1>1. TableInit => TableTypeOK
  BY InitInv DEF TableInv
<1>2. QED
  BY <1>1, TypeStep, PTL DEF TableSpec

(* Unless somebody binds or unbinds pid 0, every behaviour keeps the        *)
(* inductive invariant.                                                     *)
THEOREM TableCorrect ==
    ASSUME 0 \notin Pids
    PROVE  TableSpec => []TableInv
<1>1. TableInv /\ [TableNext]_tableVars => TableInv'
  BY InvStep
<1>2. QED
  BY <1>1, InitInv, PTL DEF TableSpec

(* A process is never bound to two tenants, and never to one that does not  *)
(* exist, whatever the order of binds, unbinds and deletes.                 *)
THEOREM BindingsCorrect ==
    ASSUME 0 \notin Pids
    PROVE  TableSpec => []BindingsSound
<1>1. TableInv => BindingsSound
  BY DEF TableInv, BindingsSound
<1>2. QED
  BY <1>1, TableCorrect, PTL

(* Both global counters are exact and never wrap around.                    *)
THEOREM CountersExact ==
    ASSUME 0 \notin Pids
    PROVE  TableSpec => []CountersMatch
<1>1. TableInv => CountersMatch
  BY DEF TableInv, CountersMatch
<1>2. QED
  BY <1>1, TableCorrect, PTL

(* No step admits a process to a tenant that is not ACTIVE: a member after  *)
(* the step sits in a slot the step did not write, or was bound while the   *)
(* tenant was ACTIVE.                                                       *)
THEOREM SuspendedClosed == TableSpec => SuspendedAdmitsNobody
<1>1. TableTypeOK /\ [TableNext]_tableVars
        => [\A t \in TenantIds : status[t] # "ACTIVE" => Members(t)' \subseteq Members(t)]_tableVars
  <2> SUFFICES ASSUME TableTypeOK, TableNext,
                      NEW t \in TenantIds, status[t] # "ACTIVE",
                      NEW p \in Pids \ {0}, NEW i \in Slots,
                      pid_mappings'[i] = [pid |-> p, tenant_id |-> t]
               PROVE  pid_mappings[i] = [pid |-> p, tenant_id |-> t]
    BY DEF Members
  <2> USE DEF TableTypeOK
  <2>1. ASSUME NEW u \in TenantArgs, NEW q \in QuotaArgs \cup {DefaultQuota}, tenant_create(u, q)
        PROVE  pid_mappings[i] = pid_mappings'[i]
    BY <2>1 DEF tenant_create
  <2>2. ASSUME NEW u \in TenantArgs, tenant_delete(u)
        PROVE  pid_mappings[i] = pid_mappings'[i]
    BY <2>2 DEF tenant_delete, EmptySlot
  <2>3. ASSUME NEW u \in TenantArgs, NEW s \in StatusArgs, tenant_set_status(u, s)
        PROVE  pid_mappings[i] = pid_mappings'[i]
    BY <2>3 DEF tenant_set_status, bindingVars
  <2>4. ASSUME NEW u \in TenantArgs, NEW q \in QuotaArgs, tenant_update_quota(u, q)
        PROVE  pid_mappings[i] = pid_mappings'[i]
    BY <2>4 DEF tenant_update_quota, bindingVars
  <2>5. ASSUME NEW o \in Pids, NEW u \in TenantArgs, tenant_bind_process(o, u)
        PROVE  pid_mappings[i] = pid_mappings'[i]
    <3>1. PICK k \in Slots : pid_mappings' = [pid_mappings EXCEPT ![k] = [pid |-> o, tenant_id |-> u]]
      BY <2>5 DEF tenant_bind_process, RebindProcess, BindNewProcess
    <3>2. u # t
      BY <2>5 DEF tenant_bind_process
    <3>3. k # i
      BY <3>1, <3>2
    <3>4. QED
      BY <3>1, <3>3
  <2>6. ASSUME NEW o \in Pids, tenant_unbind_process(o)
        PROVE  pid_mappings[i] = pid_mappings'[i]
    <3>1. PICK k \in Slots : pid_mappings' = [pid_mappings EXCEPT ![k] = EmptySlot]
      BY <2>6 DEF tenant_unbind_process
    <3>2. k # i
      BY <3>1 DEF EmptySlot
    <3>3. QED
      BY <3>1, <3>2
  <2>7. ASSUME NEW u \in TenantArgs, NEW v \in UsageArgs, tenant_update_resource_usage(u, v)
        PROVE  pid_mappings[i] = pid_mappings'[i]
    BY <2>7 DEF tenant_update_resource_usage, bindingVars
  <2>8. QED
    BY <2>1, <2>2, <2>3, <2>4, <2>5, <2>6, <2>7 DEF TableNext
<1>2. QED
  BY <1>1, TableTypeCorrect, PTL DEF TableSpec, SuspendedAdmitsNobody
=============================================================================
