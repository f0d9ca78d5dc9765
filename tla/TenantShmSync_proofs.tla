------------------------- MODULE TenantShmSync_proofs -------------------------
(***************************************************************************)
(* Mutual exclusion and quiescence of the locked table, for any number of  *)
(* clients, as long as one client alone has initialised the region.        *)
(* Clients may crash anywhere.                                             *)
(***************************************************************************)
EXTENDS TenantShmSync, FiniteSetTheorems, TLAPS

(* Before the region is stamped nobody is in a call, and one client at most *)
(* is initialising it; after that nobody clears it.                         *)
StartOrder ==
    /\ version = 0 => \A c \in Clients : pc[c] \in {"detached", "wipe", "stamp", "dead"}
    /\ \A c \in Clients : pc[c] \in {"wipe", "stamp"} => version = 0 /\ inits # 0
    /\ \A c, d \in Clients : pc[c] \in {"wipe", "stamp"} /\ pc[d] \in {"wipe", "stamp"} => c = d

SyncInv == SyncTypeOK /\ StartOrder /\ MutualExclusion /\ QuiescentWhenFree


(* A step of a call's body is taken inside the section and leaves the lock, *)
(* the version and the auxiliary table as they are.                         *)
LEMMA BodyStep ==
    ASSUME NEW c \in Clients, Body(c), pc \in [Clients -> Labels]
    PROVE  /\ InSection(c)
           /\ \E l \in BodyLabels : pc' = [pc EXCEPT ![c] = l]
           /\ UNCHANGED <<tenant_shm_lock, version, reg, committed, inits>>
<1> USE DEF Inside, Goto, InSection, BodyLabels
<1>1. CASE Check(c)
  BY <1>1 DEF Check, AfterCheck
<1>2. CASE CopyInfo(c) \/ ClearTenant(c) \/ FillTenant(c) \/ TallyTenant(c)
  BY <1>2 DEF CopyInfo, ClearTenant, FillTenant, TallyTenant
<1>3. CASE SweepSlot(c) \/ RetireTenant(c)
  BY <1>3 DEF SweepSlot, RetireTenant, Labels
<1>4. CASE Scan(c) \/ TallyProcess(c)
  BY <1>4 DEF Scan, TallyProcess
<1>5. CASE MapSlot(c) \/ ListProcess(c)
  BY <1>5 DEF MapSlot, ListProcess
<1>6. QED
  BY <1>1, <1>2, <1>3, <1>4, <1>5 DEF Body

(* The table as a record is unchanged when its fields are. *)
LEMMA SameTable == UNCHANGED tableVars => Table' = Table
  BY DEF tableVars, tenantVars, bindingVars, Table

(* A step that moves one client between two places outside the section and  *)
(* touches neither lock nor table keeps exclusion and quiescence.           *)
LEMMA OutsideStep ==
    ASSUME SyncInv, NEW c \in Clients, NEW l \in Labels \ BodyLabels, ~InSection(c),
           pc' = [pc EXCEPT ![c] = l],
           UNCHANGED <<tableVars, tenant_shm_lock, committed>>
    PROVE  MutualExclusion' /\ QuiescentWhenFree'
  BY SameTable DEF SyncInv, SyncTypeOK, MutualExclusion, InSection, QuiescentWhenFree

(* Once a second client has taken the region for new, committed stays. *)
LEMMA Frozen ==
    ASSUME SyncTypeOK, [SyncNext]_syncVars, ~Sole'
    PROVE  UNCHANGED committed
<1>1. ASSUME NEW c \in Clients, Body(c)
      PROVE  UNCHANGED committed
  BY <1>1, BodyStep DEF SyncTypeOK
<1>2. QED
  BY <1>1
  DEF SyncNext, Step, Attach, Wipe, Stamp, Enter, spin_lock, spin_unlock, LoadVersion, StoreVersion,
      GetInfoResult, GetInfoReturn, Crash, Commit, Sole, syncVars

(* What does not depend on how the region was initialised: types, and that  *)
(* the clients that took it for new are only ever more.                     *)
LEMMA TypeStep ==
    ASSUME SyncTypeOK, [SyncNext]_syncVars
    PROVE  SyncTypeOK' /\ (Sole' => Sole)
<1> USE DEF Goto, SyncTypeOK, Sole
<1>1. ASSUME NEW c \in Clients, Body(c)
      PROVE  SyncTypeOK' /\ UNCHANGED inits
  BY <1>1, BodyStep DEF Labels
<1>2. ASSUME NEW c \in Clients, Attach(c)
      PROVE  SyncTypeOK' /\ (Sole' => Sole)
  BY <1>2 DEF Attach, Labels
<1>3. ASSUME NEW c \in Clients, Wipe(c) \/ Stamp(c) \/ Enter(c) \/ spin_lock(c) \/ spin_unlock(c)
      PROVE  SyncTypeOK' /\ UNCHANGED inits
  BY <1>3 DEF Wipe, Stamp, Enter, spin_lock, spin_unlock, Labels, BodyLabels
<1>4. ASSUME NEW c \in Clients,
             LoadVersion(c) \/ StoreVersion(c) \/ GetInfoResult(c) \/ GetInfoReturn(c) \/ Crash(c)
      PROVE  SyncTypeOK' /\ UNCHANGED inits
  BY <1>4 DEF LoadVersion, StoreVersion, GetInfoResult, GetInfoReturn, Crash, Labels
<1>5. CASE UNCHANGED syncVars
  BY <1>5 DEF syncVars, clientVars
<1>6. QED
  BY <1>1, <1>2, <1>3, <1>4, <1>5 DEF SyncNext, Step

(* While one client alone has initialised the region, a step of the         *)
(* protocol keeps the inductive invariant, one case per kind of step.       *)
LEMMA SyncStep ==
    SyncInv /\ [SyncNext]_syncVars /\ Sole' => SyncInv'
<1> SUFFICES ASSUME SyncInv, [SyncNext]_syncVars, Sole'
             PROVE  SyncInv'
  OBVIOUS
<1> USE DEF Goto, InSection
<1>a. Sole
  BY TypeStep DEF SyncInv
<1>1. ASSUME NEW c \in Clients, Attach(c)
      PROVE  SyncInv'
  <2>1. MutualExclusion' /\ QuiescentWhenFree'
    BY <1>1, OutsideStep DEF Attach, Labels, BodyLabels
  <2>2. SyncTypeOK' /\ StartOrder'
    BY <1>1 DEF Attach, SyncInv, SyncTypeOK, StartOrder, Sole, Labels
  <2>3. QED
    BY <2>1, <2>2 DEF SyncInv
<1>2. ASSUME NEW c \in Clients, Wipe(c)
      PROVE  SyncInv'
  <2>1. version = 0
    BY <1>2 DEF Wipe, SyncInv, StartOrder
  <2>2. \A d \in Clients : ~InSection(d)
    BY <2>1 DEF SyncInv, StartOrder, BodyLabels
  <2>3. MutualExclusion' /\ QuiescentWhenFree'
    BY <1>a, <1>2, <2>2 DEF Wipe, Commit, SyncInv, SyncTypeOK, MutualExclusion, QuiescentWhenFree,
       BodyLabels
  <2>4. SyncTypeOK' /\ StartOrder'
    BY <1>2, <2>1 DEF Wipe, SyncInv, SyncTypeOK, StartOrder, Labels
  <2>5. QED
    BY <2>3, <2>4 DEF SyncInv
<1>3. ASSUME NEW c \in Clients, Stamp(c)
      PROVE  SyncInv'
  <2>1. MutualExclusion' /\ QuiescentWhenFree'
    BY <1>3, OutsideStep DEF Stamp, Labels, BodyLabels
  <2>2. \A d \in Clients : pc[d] \in {"wipe", "stamp"} => d = c
    BY <1>3 DEF Stamp, SyncInv, StartOrder
  <2>3. SyncTypeOK' /\ StartOrder'
    BY <1>3, <2>2 DEF Stamp, SyncInv, SyncTypeOK, StartOrder, Labels
  <2>4. QED
    BY <2>1, <2>3 DEF SyncInv
<1>4. ASSUME NEW c \in Clients, Enter(c)
      PROVE  SyncInv'
  <2>1. MutualExclusion' /\ QuiescentWhenFree'
    BY <1>4, OutsideStep DEF Enter, Labels, BodyLabels
  <2>2. SyncTypeOK' /\ StartOrder'
    BY <1>4 DEF Enter, SyncInv, SyncTypeOK, StartOrder, Labels
  <2>3. QED
    BY <2>1, <2>2 DEF SyncInv
<1>5. ASSUME NEW c \in Clients, spin_lock(c)
      PROVE  SyncInv'
  <2>1. \A d \in Clients : ~InSection(d)
    BY <1>5 DEF spin_lock, SyncInv, MutualExclusion
  <2>2. MutualExclusion' /\ QuiescentWhenFree'
    BY <1>5, <2>1 DEF spin_lock, SyncInv, SyncTypeOK, MutualExclusion, QuiescentWhenFree
  <2>3. SyncTypeOK' /\ StartOrder'
    BY <1>5 DEF spin_lock, SyncInv, SyncTypeOK, StartOrder, Labels, BodyLabels
  <2>4. QED
    BY <2>2, <2>3 DEF SyncInv
<1>6. ASSUME NEW c \in Clients, Body(c)
      PROVE  SyncInv'
  <2>1. /\ InSection(c)
        /\ \E l \in BodyLabels : pc' = [pc EXCEPT ![c] = l]
        /\ UNCHANGED <<tenant_shm_lock, version, reg, committed, inits>>
    BY <1>6, BodyStep DEF SyncInv, SyncTypeOK
  <2>2. PICK l \in BodyLabels : pc' = [pc EXCEPT ![c] = l]
    BY <2>1
  <2>3. tenant_shm_lock = 1
    BY <2>1 DEF SyncInv, MutualExclusion
  <2>4. MutualExclusion' /\ QuiescentWhenFree'
    BY <2>1, <2>2, <2>3 DEF SyncInv, SyncTypeOK, MutualExclusion, QuiescentWhenFree
  <2>5. SyncTypeOK' /\ StartOrder'
    BY <2>1, <2>2 DEF SyncInv, SyncTypeOK, StartOrder, Labels, BodyLabels
  <2>6. QED
    BY <2>4, <2>5 DEF SyncInv
<1>7. ASSUME NEW c \in Clients, spin_unlock(c)
      PROVE  SyncInv'
  <2>1. \A d \in Clients : d # c => ~InSection(d)
    BY <1>7 DEF spin_unlock, SyncInv, MutualExclusion, BodyLabels
  <2>2. MutualExclusion' /\ QuiescentWhenFree'
    BY <1>a, <1>7, <2>1, SameTable
    DEF spin_unlock, Commit, SyncInv, SyncTypeOK, MutualExclusion, QuiescentWhenFree, BodyLabels
  <2>3. SyncTypeOK' /\ StartOrder'
    BY <1>7 DEF spin_unlock, SyncInv, SyncTypeOK, StartOrder, Labels
  <2>4. QED
    BY <2>2, <2>3 DEF SyncInv
<1>8. ASSUME NEW c \in Clients,
             LoadVersion(c) \/ GetInfoResult(c) \/ GetInfoReturn(c) \/ Crash(c)
      PROVE  SyncInv'
  <2>1. CASE ~InSection(c)
    <3>1. PICK l \in Labels \ BodyLabels : pc' = [pc EXCEPT ![c] = l]
      BY <1>8 DEF LoadVersion, GetInfoResult, GetInfoReturn, Crash, Labels, BodyLabels
    <3>2. MutualExclusion' /\ QuiescentWhenFree'
      BY <1>8, <2>1, <3>1, OutsideStep DEF LoadVersion, GetInfoResult, GetInfoReturn, Crash
    <3>3. SyncTypeOK' /\ StartOrder'
      BY <1>8 DEF LoadVersion, GetInfoResult, GetInfoReturn, Crash,
                  SyncInv, SyncTypeOK, StartOrder, Labels
    <3>4. QED
      BY <3>2, <3>3 DEF SyncInv
  <2>2. CASE InSection(c) /\ Crash(c)
    <3>1. MutualExclusion' /\ QuiescentWhenFree'
      BY <2>2, SameTable
      DEF Crash, SyncInv, SyncTypeOK, MutualExclusion, QuiescentWhenFree, BodyLabels
    <3>2. SyncTypeOK' /\ StartOrder'
      BY <2>2 DEF Crash, SyncInv, SyncTypeOK, StartOrder, Labels
    <3>3. QED
      BY <3>1, <3>2 DEF SyncInv
  <2>3. QED
    BY <1>8, <2>1, <2>2 DEF LoadVersion, GetInfoResult, GetInfoReturn, BodyLabels
<1>9. ASSUME NEW c \in Clients, StoreVersion(c)
      PROVE  SyncInv'
  <2>1. PICK l \in {"result", "idle"} : pc' = [pc EXCEPT ![c] = l]
    BY <1>9 DEF StoreVersion
  <2>2. MutualExclusion' /\ QuiescentWhenFree'
    BY <1>9, <2>1, OutsideStep DEF StoreVersion, Labels, BodyLabels
  <2>3. version' \in Nat \ {0} /\ version # 0
    BY <1>9 DEF StoreVersion, SyncInv, SyncTypeOK, StartOrder
  <2>4. SyncTypeOK' /\ StartOrder'
    BY <1>9, <2>1, <2>3 DEF StoreVersion, SyncInv, SyncTypeOK, StartOrder, Labels
  <2>5. QED
    BY <2>2, <2>4 DEF SyncInv
<1>10. CASE UNCHANGED syncVars
  BY <1>10, SameTable DEF syncVars, clientVars, SyncInv, SyncTypeOK, StartOrder, MutualExclusion,
     QuiescentWhenFree
<1>11. QED
  BY <1>1, <1>2, <1>3, <1>4, <1>5, <1>6, <1>7, <1>8, <1>9, <1>10 DEF SyncNext, Step

(* As long as one client alone has initialised the region, at most one      *)
(* client is ever inside the body of an API call, and the table is at rest  *)
(* whenever the lock is free - for any number of clients and any crashes.   *)
THEOREM SectionSafe == SyncSpec => []SectionSound
<1> DEFINE Safe == SyncTypeOK /\ (Sole => SyncInv)
<1>1. SyncInit => Safe
  BY DEF SyncInit, SyncInv, SyncTypeOK, StartOrder, MutualExclusion, QuiescentWhenFree, InSection,
         BodyLabels, Labels
<1>2. Safe /\ [SyncNext]_syncVars => Safe'
  BY TypeStep, SyncStep
<1>3. Safe => SectionSound
  BY DEF SyncInv, SectionSound
<1>4. QED
  BY <1>1, <1>2, <1>3, PTL DEF SyncSpec

-----------------------------------------------------------------------------
(* The refinement.  While a client is inside the section, committed is the  *)
(* table its call found, and the table is that one with the writes the call *)
(* has made so far.                                                         *)

TenantsKept ==
    /\ status = committed.status
    /\ quota = committed.quota
    /\ usage = committed.usage

CountsKept ==
    /\ active_tenant_count = committed.active_tenant_count
    /\ total_process_count = committed.total_process_count

ListsKept ==
    /\ process_count = committed.process_count
    /\ processes = committed.processes

AtRest == TenantsKept /\ CountsKept /\ ListsKept /\ pid_mappings = committed.pid_mappings

(* tenant_create after its memset, whatever status, quota and counter are.  *)
Emptied(t) ==
    /\ usage = [committed.usage EXCEPT ![t] = ZeroUsage]
    /\ process_count = [committed.process_count EXCEPT ![t] = 0]
    /\ processes = [committed.processes EXCEPT ![t] = EmptyList]
    /\ pid_mappings = committed.pid_mappings
    /\ total_process_count = committed.total_process_count

Cleared(t) ==
    /\ Emptied(t)
    /\ status = committed.status
    /\ quota = committed.quota
    /\ active_tenant_count = committed.active_tenant_count

Filled(t, q) ==
    /\ Emptied(t)
    /\ status = [committed.status EXCEPT ![t] = "ACTIVE"]
    /\ quota = [committed.quota EXCEPT ![t] = q]

(* tenant_delete when its loop has done the slots below i. *)
Hits(t, i) == {j \in Slots : j < i /\ committed.pid_mappings[j].tenant_id = t}

Swept(t, i) ==
    /\ pid_mappings = [j \in Slots |-> IF j \in Hits(t, i) THEN EmptySlot
                                                           ELSE committed.pid_mappings[j]]
    /\ total_process_count = Wrap(committed.total_process_count - Cardinality(Hits(t, i)))
    /\ quota = committed.quota
    /\ usage = committed.usage
    /\ processes = committed.processes

(* tenant_bind_process of a new process when it has counted it. *)
Counted(t) ==
    /\ process_count = [committed.process_count EXCEPT ![t] = Wrap(committed.process_count[t] + 1)]
    /\ total_process_count = Wrap(committed.total_process_count + 1)
    /\ TenantsKept
    /\ active_tenant_count = committed.active_tenant_count

Mapped(i, m) == pid_mappings = [committed.pid_mappings EXCEPT ![i] = m]

(* The process list of t with its first entry old replaced by new. *)
Replaced(t, old, new) ==
    \/ \E j \in Slots :
         /\ committed.processes[t][j] = old
         /\ \A k \in 0..(j - 1) : committed.processes[t][k] # old
         /\ processes = [committed.processes EXCEPT ![t][j] = new]
    \/ /\ \A j \in Slots : committed.processes[t][j] # old
       /\ processes = committed.processes

(* tenant_unbind_process, its slot i, when the list of the tenant is done.  *)
Unlisted(i, p) ==
    LET t == committed.pid_mappings[i].tenant_id IN
    /\ Replaced(t, p, 0)
    /\ process_count = [committed.process_count EXCEPT ![t] = Less1(committed.process_count[t])]
    /\ TenantsKept
    /\ active_tenant_count = committed.active_tenant_count

(* The whole effect of a call, as TenantShm has it, from committed to the   *)
(* table.                                                                   *)
Done(o) ==
    CASE o.f = "create" ->
           /\ committed.status[o.t] = "INACTIVE"
           /\ Filled(o.t, o.q)
           /\ active_tenant_count = Wrap(committed.active_tenant_count + 1)
      [] o.f = "delete" ->
           /\ committed.status[o.t] # "INACTIVE"
           /\ Swept(o.t, MaxProcesses)
           /\ status = [committed.status EXCEPT ![o.t] = "INACTIVE"]
           /\ process_count = [committed.process_count EXCEPT ![o.t] = 0]
           /\ active_tenant_count = Wrap(committed.active_tenant_count - 1)
      [] o.f = "set_status" ->
           /\ committed.status[o.t] # "INACTIVE"
           /\ status = [committed.status EXCEPT ![o.t] = o.s]
           /\ quota = committed.quota /\ usage = committed.usage
           /\ CountsKept /\ ListsKept /\ pid_mappings = committed.pid_mappings
      [] o.f = "update_quota" ->
           /\ committed.status[o.t] # "INACTIVE"
           /\ quota = [committed.quota EXCEPT ![o.t] = o.q]
           /\ status = committed.status /\ usage = committed.usage
           /\ CountsKept /\ ListsKept /\ pid_mappings = committed.pid_mappings
      [] o.f = "update_usage" ->
           /\ committed.status[o.t] = "ACTIVE"
           /\ usage = [committed.usage EXCEPT ![o.t] = o.u]
           /\ status = committed.status /\ quota = committed.quota
           /\ CountsKept /\ ListsKept /\ pid_mappings = committed.pid_mappings
      [] o.f = "bind" ->
           /\ committed.status[o.t] = "ACTIVE"
           /\ \E i \in Slots :
                /\ Mapped(i, [pid |-> o.p, tenant_id |-> o.t])
                /\ \/ Atomic!FirstSlot(i, o.p) /\ TenantsKept /\ CountsKept /\ ListsKept
                   \/ /\ Atomic!Unmapped(o.p) /\ Atomic!FirstSlot(i, 0)
                      /\ Counted(o.t) /\ Replaced(o.t, 0, o.p)
      [] o.f = "unbind" ->
           /\ \E i \in Slots : Atomic!FirstSlot(i, o.p) /\ Unlisted(i, o.p) /\ Mapped(i, EmptySlot)
           /\ total_process_count = Less1(committed.total_process_count)
      [] OTHER -> FALSE

(* How far the call o, its index i and its flag have come at each label.    *)
Progress(l, o, i, f) ==
    /\ l \in {"check", "copy", "clear", "scan"} => AtRest
    /\ l \in {"clear", "scan"} => Admitted(o)
    /\ l = "clear" => o.f = "create"
    /\ l = "scan" => o.f \in {"bind", "unbind"}
    /\ l = "fill" =>
         /\ o.f \in {"create", "set_status", "update_quota", "update_usage"}
         /\ Admitted(o)
         /\ IF o.f = "create" THEN Cleared(o.t) ELSE AtRest
    /\ l = "tally" =>
         /\ o.f \in {"create", "bind"}
         /\ o.f = "create" =>
              /\ committed.status[o.t] = "INACTIVE"
              /\ Filled(o.t, o.q)
              /\ active_tenant_count = committed.active_tenant_count
         /\ o.f = "bind" =>
              /\ AtRest /\ Admitted(o)
              /\ i \in Slots /\ Atomic!Unmapped(o.p) /\ Atomic!FirstSlot(i, 0)
    /\ l \in {"sweep", "retire"} =>
         /\ o.f = "delete" /\ Admitted(o)
         /\ status = committed.status
         /\ process_count = committed.process_count
         /\ active_tenant_count = committed.active_tenant_count
    /\ l = "sweep" => i \in Slots /\ Swept(o.t, i)
    /\ l = "retire" => Swept(o.t, MaxProcesses)
    /\ l = "map" =>
         /\ i \in Slots
         /\ pid_mappings = committed.pid_mappings
         /\ o.f \in {"bind", "unbind"}
         /\ o.f = "bind" => Admitted(o)
         /\ o.f = "bind" /\ f => Atomic!FirstSlot(i, o.p) /\ AtRest
         /\ o.f = "bind" /\ ~f => /\ Atomic!Unmapped(o.p) /\ Atomic!FirstSlot(i, 0)
                                  /\ Counted(o.t) /\ processes = committed.processes
         /\ o.f = "unbind" => /\ Atomic!FirstSlot(i, o.p) /\ Unlisted(i, o.p)
                              /\ total_process_count = committed.total_process_count
    /\ l = "list" =>
         /\ o.f \in {"bind", "unbind"}
         /\ o.f = "bind" =>
              /\ ~f /\ Admitted(o)
              /\ Counted(o.t) /\ processes = committed.processes
              /\ Atomic!Unmapped(o.p)
              /\ \E j \in Slots : /\ Atomic!FirstSlot(j, 0)
                                  /\ Mapped(j, [pid |-> o.p, tenant_id |-> o.t])
         /\ o.f = "unbind" => AtRest /\ i \in Slots /\ Atomic!FirstSlot(i, o.p)
    /\ l = "unlock" => AtRest \/ Done(o)

(* Where a call's index and flag have been cleared. *)
Cleaned(l, i, f) ==
    /\ l \in {"detached", "wipe", "stamp", "idle", "spin", "check", "copy", "clear", "fill",
              "scan"} => i = 0
    /\ l \notin {"map", "list", "returned", "dead"} => ~f

InCall == BodyLabels \cup {"spin", "load", "store"}

RegistersOK ==
    /\ call \in [Clients -> Calls \cup {NoCall}]
    /\ idx \in [Clients -> Nat]
    /\ found \in [Clients -> BOOLEAN]
    /\ \A c \in Clients : pc[c] \in InCall => call[c] \in Calls
    /\ \A c \in Clients : Cleaned(pc[c], idx[c], found[c])

Unstamped == version = 0 => TableInit /\ AtRest

RefineInv ==
    /\ SyncInv
    /\ TableTypeOK
    /\ Atomic!TableTypeOK
    /\ Unstamped
    /\ RegistersOK
    /\ \A c \in Clients : Progress(pc[c], call[c], idx[c], found[c])

(* What the arguments of a call are, by function. *)
LEMMA CallArgs ==
    ASSUME NEW o \in Calls
    PROVE  /\ o.f = "create" => o.t \in TenantIds \ {0} /\ o.q \in QuotaArgs \cup {DefaultQuota}
           /\ o.f = "delete" => o.t \in TenantIds \ {0}
           /\ o.f = "set_status" => o.t \in TenantIds /\ o.s \in StatusArgs
           /\ o.f = "update_quota" => o.t \in TenantIds /\ o.q \in QuotaArgs
           /\ o.f = "update_usage" => o.t \in TenantIds /\ o.u \in UsageArgs
           /\ o.f = "bind" => o.t \in TenantIds /\ o.p \in Pids
           /\ o.f = "unbind" => o.p \in Pids
           /\ o.f = "get_info" => o.t \in TenantIds
           /\ o.f \in {"create", "delete", "set_status", "update_quota", "update_usage", "bind",
                       "unbind", "get_info"}
  BY DEF Calls

(* The parts of the table are those of its record. *)
LEMMA TableFields ==
    ASSUME committed' = Table
    PROVE  /\ committed'.status = status /\ committed'.quota = quota /\ committed'.usage = usage
           /\ committed'.process_count = process_count /\ committed'.processes = processes
           /\ committed'.pid_mappings = pid_mappings
           /\ committed'.active_tenant_count = active_tenant_count
           /\ committed'.total_process_count = total_process_count
  BY DEF Table

(* The instance has the same operators on values. *)
LEMMA SameOperators ==
    /\ Atomic!Slots = Slots /\ Atomic!TenantIds = TenantIds
    /\ Atomic!EmptySlot = EmptySlot /\ Atomic!ZeroUsage = ZeroUsage
    /\ Atomic!EmptyList = EmptyList
    /\ \A n : Atomic!Wrap(n) = Wrap(n) /\ Atomic!Less1(n) = Less1(n)
  BY DEF Atomic!Slots, Slots, Atomic!TenantIds, TenantIds, Atomic!EmptySlot, EmptySlot,
     Atomic!ZeroUsage, ZeroUsage, Atomic!EmptyList, EmptyList, Atomic!Wrap, Wrap,
     Atomic!Less1, Less1, Atomic!Resources, Resources, Atomic!Totalled, Totalled

LEMMA SameCardinality == \A S : Atomic!Cardinality(S) = Cardinality(S)
  BY DEF Atomic!Cardinality, Cardinality

(* Releasing the lock on the whole effect of a call is the one step that    *)
(* TenantShm makes of it.                                                   *)
LEMMA CommitStep ==
    ASSUME NEW o \in Calls, Done(o), committed' = Table, Atomic!TableTypeOK
    PROVE  Atomic!TableNext
<1> USE CallArgs, TableFields, SizeAssumption, SameOperators
<1> USE DEF Atomic!TenantArgs, TenantIds
<1>1. CASE o.f = "create"
  <2>1. Atomic!tenant_create(o.t, o.q)
    BY <1>1 DEF Done, Filled, Emptied, Atomic!tenant_create
  <2>2. QED
    BY <1>1, <2>1 DEF Atomic!TableNext
<1>2. CASE o.f = "delete"
  <2>1. Hits(o.t, MaxProcesses) = Atomic!SlotsOf(o.t)
    BY DEF Hits, Atomic!SlotsOf, Slots, Atomic!Slots
  <2>2. Atomic!tenant_delete(o.t)
    <3>1. /\ committed.status[o.t] # "INACTIVE"
          /\ Swept(o.t, MaxProcesses)
          /\ status = [committed.status EXCEPT ![o.t] = "INACTIVE"]
          /\ process_count = [committed.process_count EXCEPT ![o.t] = 0]
          /\ active_tenant_count = Wrap(committed.active_tenant_count - 1)
      BY <1>2 DEF Done
    <3>2. /\ committed'.pid_mappings =
               [i \in Slots |-> IF i \in Atomic!SlotsOf(o.t) THEN EmptySlot
                                                           ELSE committed.pid_mappings[i]]
          /\ committed'.total_process_count =
               Wrap(committed.total_process_count - Cardinality(Atomic!SlotsOf(o.t)))
      BY <2>1, <3>1 DEF Swept
    <3>3. committed'.pid_mappings =
            [i \in Atomic!Slots |-> IF i \in Atomic!SlotsOf(o.t) THEN Atomic!EmptySlot
                                                              ELSE committed.pid_mappings[i]]
      BY <3>2
    <3>4. UNCHANGED <<committed.quota, committed.usage, committed.processes>>
      BY <3>1 DEF Swept
    <3>5. /\ o.t # 0 /\ o.t < MaxTenants
          /\ committed'.total_process_count =
               Atomic!Wrap(committed.total_process_count - Atomic!Cardinality(Atomic!SlotsOf(o.t)))
          /\ committed'.active_tenant_count = Atomic!Wrap(committed.active_tenant_count - 1)
      BY <1>2, <3>1, <3>2, SameCardinality
    <3>6. QED
      BY <3>1, <3>3, <3>4, <3>5 DEF Atomic!tenant_delete
  <2>3. QED
    BY <1>2, <2>2 DEF Atomic!TableNext
<1>3. CASE o.f = "set_status"
  <2>1. Atomic!tenant_set_status(o.t, o.s)
    BY <1>3 DEF Done, Atomic!tenant_set_status, CountsKept, ListsKept, Atomic!bindingVars
  <2>2. QED
    BY <1>3, <2>1 DEF Atomic!TableNext
<1>4. CASE o.f = "update_quota"
  <2>1. Atomic!tenant_update_quota(o.t, o.q)
    BY <1>4 DEF Done, Atomic!tenant_update_quota, CountsKept, ListsKept, Atomic!bindingVars
  <2>2. QED
    BY <1>4, <2>1 DEF Atomic!TableNext
<1>5. CASE o.f = "update_usage"
  <2>1. Atomic!tenant_update_resource_usage(o.t, o.u)
    BY <1>5 DEF Done, Atomic!tenant_update_resource_usage, CountsKept, ListsKept,
       Atomic!bindingVars
  <2>2. QED
    BY <1>5, <2>1 DEF Atomic!TableNext
<1>6. CASE o.f = "bind"
  <2>1. PICK i \in Slots :
          /\ Mapped(i, [pid |-> o.p, tenant_id |-> o.t])
          /\ \/ Atomic!FirstSlot(i, o.p) /\ TenantsKept /\ CountsKept /\ ListsKept
             \/ /\ Atomic!Unmapped(o.p) /\ Atomic!FirstSlot(i, 0)
                /\ Counted(o.t) /\ Replaced(o.t, 0, o.p)
    BY <1>6 DEF Done
  <2>2. CASE Atomic!FirstSlot(i, o.p) /\ TenantsKept /\ CountsKept /\ ListsKept
    <3>1. Atomic!RebindProcess(o.p, o.t)
      BY <2>1, <2>2 DEF Mapped, CountsKept, ListsKept, Atomic!RebindProcess
    <3>2. Atomic!tenant_bind_process(o.p, o.t)
      BY <1>6, <2>2, <3>1 DEF Done, CountsKept, TenantsKept, Atomic!tenant_bind_process,
         Atomic!tenantVars
    <3>3. QED
      BY <1>6, <3>2 DEF Atomic!TableNext
  <2>3. CASE /\ Atomic!Unmapped(o.p) /\ Atomic!FirstSlot(i, 0)
             /\ Counted(o.t) /\ Replaced(o.t, 0, o.p)
    <3>1. Atomic!ReplaceFirst(o.t, 0, o.p)
      BY <2>3 DEF Replaced, Atomic!ReplaceFirst
    <3>2. Atomic!BindNewProcess(o.p, o.t)
      BY <2>1, <2>3, <3>1 DEF Counted, Mapped, Atomic!BindNewProcess
    <3>3. Atomic!tenant_bind_process(o.p, o.t)
      BY <1>6, <2>3, <3>2 DEF Done, Counted, TenantsKept, Atomic!tenant_bind_process,
         Atomic!tenantVars
    <3>4. QED
      BY <1>6, <3>3 DEF Atomic!TableNext
  <2>4. QED
    BY <2>1, <2>2, <2>3
<1>7. CASE o.f = "unbind"
  <2>1. PICK i \in Slots : Atomic!FirstSlot(i, o.p) /\ Unlisted(i, o.p) /\ Mapped(i, EmptySlot)
    BY <1>7 DEF Done
  <2>2. Atomic!ReplaceFirst(committed.pid_mappings[i].tenant_id, o.p, 0)
    BY <2>1 DEF Unlisted, Replaced, Atomic!ReplaceFirst
  <2>3. Atomic!tenant_unbind_process(o.p)
    BY <1>7, <2>1, <2>2 DEF Done, Unlisted, Mapped, TenantsKept, Atomic!tenant_unbind_process,
       Atomic!tenantVars
  <2>4. QED
    BY <1>7, <2>3 DEF Atomic!TableNext
<1>8. QED
  BY <1>1, <1>2, <1>3, <1>4, <1>5, <1>6, <1>7 DEF Done

(* What is known of a client inside the section. *)
OnWay(c) == Progress(pc[c], call[c], idx[c], found[c])

LEMMA InBody ==
    ASSUME RefineInv, NEW c \in Clients, InSection(c)
    PROVE  /\ call[c] \in Calls
           /\ idx[c] \in Nat /\ found[c] \in BOOLEAN
           /\ OnWay(c)
           /\ TableTypeOK
           /\ Cleaned(pc[c], idx[c], found[c])
           /\ pc \in [Clients -> Labels]
           /\ version # 0
  BY DEF RefineInv, RegistersOK, InSection, InCall, OnWay, SyncInv, SyncTypeOK, StartOrder,
     BodyLabels

(* The registers after a step of a body. *)
LEMMA BodyRegisters ==
    ASSUME RefineInv, NEW c \in Clients, InSection(c),
           NEW l \in BodyLabels, NEW i \in Nat, NEW b \in BOOLEAN, Cleaned(l, i, b),
           pc' = [pc EXCEPT ![c] = l], idx' = [idx EXCEPT ![c] = i],
           found' = [found EXCEPT ![c] = b], UNCHANGED call
    PROVE  RegistersOK'
  BY InBody DEF RefineInv, RegistersOK, InCall, SyncInv, SyncTypeOK

LEMMA CheckWay ==
    ASSUME RefineInv, NEW c \in Clients, Check(c)
    PROVE  TableTypeOK' /\ OnWay(c)' /\ RegistersOK'
<1>0. InSection(c) /\ pc[c] = "check"
  BY DEF Check, InSection, BodyLabels
<1>a. PICK o \in Calls : o = call[c]
  BY <1>0, InBody
<1>b. PICK l : l = IF Admitted(o) THEN AfterCheck(o.f) ELSE "unlock"
  OBVIOUS
<1>1. /\ pc' = [pc EXCEPT ![c] = l]
      /\ UNCHANGED <<tableVars, call, committed, idx, found>>
  BY <1>a, <1>b DEF Check, Goto, Inside
<1>2. AtRest /\ idx[c] = 0 /\ found[c] = FALSE
  BY <1>0, InBody DEF OnWay, Progress, Cleaned
<1>3. l \in {"clear", "sweep", "scan", "copy", "fill", "unlock"}
  BY <1>b, CallArgs DEF AfterCheck
<1>4. RegistersOK'
  <2>1. Cleaned(l, 0, FALSE) /\ l \in BodyLabels
    BY <1>3 DEF Cleaned, BodyLabels
  <2>2. idx' = [idx EXCEPT ![c] = 0] /\ found' = [found EXCEPT ![c] = FALSE]
    BY <1>1, <1>2 DEF RefineInv, RegistersOK
  <2>3. QED
    BY <1>0, <1>1, <2>1, <2>2, BodyRegisters
<1>5. TableTypeOK'
  BY <1>0, <1>1, InBody DEF TableTypeOK, tableVars, tenantVars, bindingVars
<1>6. AtRest' /\ pc'[c] = l /\ call'[c] = o /\ idx'[c] = 0 /\ Admitted(o)' = Admitted(o)
  BY <1>0, <1>a, <1>1, <1>2, InBody DEF AtRest, TenantsKept, CountsKept, ListsKept, tableVars, tenantVars,
     bindingVars, Admitted
<1>7. OnWay(c)'
  <2>1. CASE l = "unlock"
    BY <1>6, <2>1 DEF OnWay, Progress
  <2>2. CASE l = "copy"
    BY <1>6, <2>2 DEF OnWay, Progress
  <2>3. CASE l \in {"clear", "scan", "fill"}
    <3>1. /\ Admitted(o)
          /\ l = "clear" => o.f = "create"
          /\ l = "scan" => o.f \in {"bind", "unbind"}
          /\ l = "fill" => o.f \in {"set_status", "update_quota", "update_usage"}
      BY <1>b, <2>3, CallArgs DEF AfterCheck
    <3>2. QED
      BY <1>6, <2>3, <3>1 DEF OnWay, Progress
  <2>4. CASE l = "sweep"
    <3>1. Admitted(o) /\ o.f = "delete"
      BY <1>b, <2>4, CallArgs DEF AfterCheck
    <3>2. Hits(o.t, 0)' = {}
      BY DEF Hits, Slots
    <3>3. committed'.total_process_count \in 0..(Word - 1)
          /\ committed'.pid_mappings = [j \in Slots |-> committed'.pid_mappings[j]]
      BY <1>1, SameOperators DEF RefineInv, Atomic!TableTypeOK
    <3>4. total_process_count' = Wrap(committed'.total_process_count - Cardinality({}))
      BY <1>6, <3>3, FS_EmptySet, SizeAssumption DEF AtRest, CountsKept, Wrap
    <3>5. Swept(o.t, 0)'
      BY <1>6, <3>2, <3>3, <3>4 DEF Swept, AtRest, TenantsKept, ListsKept
    <3>6. 0 \in Slots
      BY SizeAssumption DEF Slots
    <3>7. QED
      BY <1>6, <2>4, <3>1, <3>5, <3>6
      DEF OnWay, Progress, AtRest, TenantsKept, ListsKept, CountsKept
  <2>5. QED
    BY <1>3, <2>1, <2>2, <2>3, <2>4
<1>8. QED
  BY <1>4, <1>5, <1>7

LEMMA CopyWay ==
    ASSUME RefineInv, NEW c \in Clients, CopyInfo(c)
    PROVE  TableTypeOK' /\ OnWay(c)' /\ RegistersOK'
<1>1. InSection(c) /\ pc[c] = "copy"
  BY DEF CopyInfo, InSection, BodyLabels
<1>2. PICK i \in {0, 1} : idx' = [idx EXCEPT ![c] = i]
  BY DEF CopyInfo
<1>3. /\ pc' = [pc EXCEPT ![c] = "unlock"]
      /\ UNCHANGED <<tableVars, call, committed, found>>
  BY DEF CopyInfo, Goto, Inside
<1>4. AtRest /\ found[c] = FALSE
  BY <1>1, InBody DEF OnWay, Progress, Cleaned
<1>5. RegistersOK'
  <2>1. found' = [found EXCEPT ![c] = FALSE]
    BY <1>3, <1>4 DEF RefineInv, RegistersOK
  <2>2. Cleaned("unlock", i, FALSE) /\ "unlock" \in BodyLabels
    BY DEF Cleaned, BodyLabels
  <2>3. QED
    BY <1>1, <1>2, <1>3, <2>1, <2>2, BodyRegisters
<1>6. TableTypeOK'
  BY <1>1, <1>3, InBody DEF TableTypeOK, tableVars, tenantVars, bindingVars
<1>7. AtRest' /\ pc'[c] = "unlock"
  BY <1>1, <1>3, <1>4, InBody DEF AtRest, TenantsKept, CountsKept, ListsKept, tableVars,
     tenantVars, bindingVars
<1>8. QED
  BY <1>5, <1>6, <1>7 DEF OnWay, Progress

(* A step that leaves the client's index and flag at zero. *)
LEMMA PlainRegisters ==
    ASSUME RefineInv, NEW c \in Clients, InSection(c), idx[c] = 0, found[c] = FALSE,
           NEW l \in BodyLabels, pc' = [pc EXCEPT ![c] = l], UNCHANGED <<call, idx, found>>
    PROVE  RegistersOK'
<1>1. idx' = [idx EXCEPT ![c] = 0] /\ found' = [found EXCEPT ![c] = FALSE]
  BY DEF RefineInv, RegistersOK
<1>2. Cleaned(l, 0, FALSE) /\ 0 \in Nat /\ FALSE \in BOOLEAN /\ UNCHANGED call
  BY DEF Cleaned
<1>3. QED
  BY <1>1, <1>2, BodyRegisters, Zenon

LEMMA ClearWay ==
    ASSUME RefineInv, NEW c \in Clients, ClearTenant(c)
    PROVE  TableTypeOK' /\ OnWay(c)' /\ RegistersOK'
<1>1. InSection(c) /\ pc[c] = "clear"
  BY DEF ClearTenant, InSection, BodyLabels
<1>2. PICK o \in Calls : o = call[c]
  BY <1>1, InBody
<1>3. /\ pc' = [pc EXCEPT ![c] = "fill"]
      /\ usage' = [usage EXCEPT ![o.t] = ZeroUsage]
      /\ process_count' = [process_count EXCEPT ![o.t] = 0]
      /\ processes' = [processes EXCEPT ![o.t] = EmptyList]
      /\ UNCHANGED <<status, quota, pid_mappings, active_tenant_count, total_process_count, call,
                     committed, idx, found>>
  BY <1>2 DEF ClearTenant, Goto, Inside
<1>4. AtRest /\ Admitted(o) /\ o.f = "create" /\ idx[c] = 0 /\ found[c] = FALSE
  BY <1>1, <1>2, InBody DEF OnWay, Progress, Cleaned
<1>5. RegistersOK'
  BY <1>1, <1>3, <1>4, PlainRegisters DEF BodyLabels
<1>6. TableTypeOK'
  <2>1. ZeroUsage \in Usage /\ EmptyList \in [Slots -> Pids \cup {0}]
    BY DEF ZeroUsage, Usage, EmptyList
  <2>2. QED
    BY <1>1, <1>3, <2>1, InBody DEF TableTypeOK
<1>7. Cleared(o.t)' /\ Admitted(o)'
  BY <1>3, <1>4 DEF Cleared, Emptied, AtRest, TenantsKept, CountsKept, ListsKept, Admitted
<1>8. pc'[c] = "fill" /\ call'[c] = o
  BY <1>1, <1>2, <1>3, InBody
<1>9. OnWay(c)'
  BY <1>4, <1>7, <1>8 DEF OnWay, Progress
<1>10. QED
  BY <1>5, <1>6, <1>9

LEMMA FillWay ==
    ASSUME RefineInv, NEW c \in Clients, FillTenant(c)
    PROVE  TableTypeOK' /\ OnWay(c)' /\ RegistersOK'
<1>1. InSection(c) /\ pc[c] = "fill"
  BY DEF FillTenant, InSection, BodyLabels
<1>2. PICK o \in Calls : o = call[c]
  BY <1>1, InBody
<1>3. PICK l : l = IF o.f = "create" THEN "tally" ELSE "unlock"
  OBVIOUS
<1>4. /\ pc' = [pc EXCEPT ![c] = l]
      /\ status' = [status EXCEPT ![o.t] = CASE o.f = "create" -> "ACTIVE"
                                             [] o.f = "set_status" -> o.s
                                             [] OTHER -> status[o.t]]
      /\ quota' = [quota EXCEPT ![o.t] = IF o.f \in {"create", "update_quota"} THEN o.q
                                                                               ELSE quota[o.t]]
      /\ usage' = [usage EXCEPT ![o.t] = IF o.f = "update_usage" THEN o.u ELSE usage[o.t]]
      /\ UNCHANGED <<process_count, processes, pid_mappings, total_process_count,
                     active_tenant_count, call, committed, idx, found>>
  BY <1>2, <1>3 DEF FillTenant, Goto, Inside, bindingVars
<1>5. /\ o.f \in {"create", "set_status", "update_quota", "update_usage"}
      /\ Admitted(o)
      /\ IF o.f = "create" THEN Cleared(o.t) ELSE AtRest
      /\ idx[c] = 0 /\ found[c] = FALSE
  BY <1>1, <1>2, InBody DEF OnWay, Progress, Cleaned
<1>6. RegistersOK'
  BY <1>1, <1>3, <1>4, <1>5, PlainRegisters DEF BodyLabels
<1>7. pc'[c] = l /\ call'[c] = o
  BY <1>1, <1>2, <1>4, InBody
<1>8. TableTypeOK /\ o.t \in TenantIds
  BY <1>1, <1>5, InBody, CallArgs
<1> HIDE DEF Calls
<1>9. CASE o.f = "create"
  <2>1. /\ status' = [status EXCEPT ![o.t] = "ACTIVE"]
        /\ quota' = [quota EXCEPT ![o.t] = o.q]
        /\ usage' = usage
    BY <1>4, <1>8, <1>9 DEF TableTypeOK
  <2>2. TableTypeOK'
    BY <1>4, <1>8, <1>9, <2>1, CallArgs, ArgAssumption DEF TableTypeOK, Status
  <2>3. Filled(o.t, o.q)' /\ committed'.status[o.t] = "INACTIVE"
        /\ active_tenant_count' = committed'.active_tenant_count
    BY <1>4, <1>5, <1>9, <2>1 DEF Filled, Emptied, Cleared, Admitted
  <2>4. OnWay(c)'
    BY <1>3, <1>7, <1>9, <2>3 DEF OnWay, Progress
  <2>5. QED
    BY <1>6, <2>2, <2>4
<1>10. CASE o.f = "set_status"
  <2>1. /\ status' = [status EXCEPT ![o.t] = o.s]
        /\ UNCHANGED <<quota, usage>>
    BY <1>4, <1>8, <1>10 DEF TableTypeOK
  <2>2. TableTypeOK'
    BY <1>4, <1>8, <1>10, <2>1, CallArgs, StatusAssumption DEF TableTypeOK, Status
  <2>3. Done(o)'
    BY <1>4, <1>5, <1>10, <2>1 DEF Done, AtRest, TenantsKept, CountsKept, ListsKept, Admitted
  <2>4. OnWay(c)'
    BY <1>3, <1>7, <1>10, <2>3 DEF OnWay, Progress
  <2>5. QED
    BY <1>6, <2>2, <2>4
<1>11. CASE o.f = "update_quota"
  <2>1. /\ quota' = [quota EXCEPT ![o.t] = o.q]
        /\ UNCHANGED <<status, usage>>
    BY <1>4, <1>8, <1>11 DEF TableTypeOK
  <2>2. TableTypeOK'
    BY <1>4, <1>8, <1>11, <2>1, CallArgs, ArgAssumption DEF TableTypeOK
  <2>3. Done(o)'
    BY <1>4, <1>5, <1>11, <2>1 DEF Done, AtRest, TenantsKept, CountsKept, ListsKept, Admitted
  <2>4. OnWay(c)'
    BY <1>3, <1>7, <1>11, <2>3 DEF OnWay, Progress
  <2>5. QED
    BY <1>6, <2>2, <2>4
<1>12. CASE o.f = "update_usage"
  <2>1. /\ usage' = [usage EXCEPT ![o.t] = o.u]
        /\ UNCHANGED <<status, quota>>
    BY <1>4, <1>8, <1>12 DEF TableTypeOK
  <2>2. TableTypeOK'
    BY <1>4, <1>8, <1>12, <2>1, CallArgs, ArgAssumption DEF TableTypeOK
  <2>3. Done(o)'
    BY <1>4, <1>5, <1>12, <2>1 DEF Done, AtRest, TenantsKept, CountsKept, ListsKept, Admitted
  <2>4. OnWay(c)'
    BY <1>3, <1>7, <1>12, <2>3 DEF OnWay, Progress
  <2>5. QED
    BY <1>6, <2>2, <2>4
<1>13. QED
  BY <1>5, <1>9, <1>10, <1>11, <1>12

LEMMA TallyTenantWay ==
    ASSUME RefineInv, NEW c \in Clients, TallyTenant(c)
    PROVE  TableTypeOK' /\ OnWay(c)' /\ RegistersOK'
<1>1. InSection(c) /\ pc[c] = "tally"
  BY DEF TallyTenant, InSection, BodyLabels
<1>2. PICK o \in Calls : o = call[c]
  BY <1>1, InBody
<1>3. /\ pc' = [pc EXCEPT ![c] = "unlock"] /\ o.f = "create"
      /\ active_tenant_count' = Wrap(active_tenant_count + 1)
      /\ UNCHANGED <<status, quota, usage, process_count, processes, pid_mappings,
                     total_process_count, call, committed, idx, found>>
  BY <1>2 DEF TallyTenant, Goto, Inside, tenantVars, bindingVars
<1>4. /\ committed.status[o.t] = "INACTIVE"
      /\ Filled(o.t, o.q)
      /\ active_tenant_count = committed.active_tenant_count
      /\ found[c] = FALSE
  BY <1>1, <1>2, <1>3, InBody DEF OnWay, Progress, Cleaned
<1>5. RegistersOK'
  <2>1. idx' = [idx EXCEPT ![c] = idx[c]] /\ found' = [found EXCEPT ![c] = FALSE]
    BY <1>3, <1>4 DEF RefineInv, RegistersOK
  <2>2. Cleaned("unlock", idx[c], FALSE) /\ "unlock" \in BodyLabels /\ idx[c] \in Nat
    BY <1>1, InBody DEF Cleaned, BodyLabels
  <2>3. QED
    BY <1>1, <1>3, <2>1, <2>2, BodyRegisters
<1>6. TableTypeOK'
  BY <1>1, <1>3, InBody, SizeAssumption DEF TableTypeOK, Wrap
<1>7. Done(o)'
  BY <1>3, <1>4 DEF Done, Filled, Emptied
<1>8. pc'[c] = "unlock" /\ call'[c] = o
  BY <1>1, <1>2, <1>3, InBody
<1>9. OnWay(c)'
  BY <1>7, <1>8 DEF OnWay, Progress
<1>10. QED
  BY <1>5, <1>6, <1>9

(* One more slot swept: the slots hit below i + 1, and how many they are.   *)
LEMMA HitsNext ==
    ASSUME NEW t, NEW i \in Slots
    PROVE  /\ IsFiniteSet(Hits(t, i)) /\ Cardinality(Hits(t, i)) \in 0..i
           /\ Hits(t, i + 1) = IF committed.pid_mappings[i].tenant_id = t
                               THEN Hits(t, i) \cup {i} ELSE Hits(t, i)
           /\ Cardinality(Hits(t, i) \cup {i}) = Cardinality(Hits(t, i)) + 1
<1>1. i \in Nat /\ i < MaxProcesses
  BY SizeAssumption DEF Slots
<1>2. IsFiniteSet(0..(i - 1)) /\ Cardinality(0..(i - 1)) = i
  <2>1. CASE i = 0
    BY <2>1, FS_Interval
  <2>2. CASE i > 0
    BY <1>1, <2>2, FS_Interval
  <2>3. QED
    BY <1>1, <2>1, <2>2
<1>3. Hits(t, i) \subseteq 0..(i - 1)
  BY <1>1 DEF Hits, Slots
<1>4. IsFiniteSet(Hits(t, i)) /\ Cardinality(Hits(t, i)) <= i
  BY <1>2, <1>3, FS_Subset
<1>5. Cardinality(Hits(t, i)) \in Nat
  BY <1>4, FS_CardinalityType
<1>6. i \notin Hits(t, i)
  BY <1>1 DEF Hits
<1>7. Cardinality(Hits(t, i) \cup {i}) = Cardinality(Hits(t, i)) + 1
  BY <1>4, <1>6, FS_AddElement
<1>8. Hits(t, i + 1) = IF committed.pid_mappings[i].tenant_id = t
                       THEN Hits(t, i) \cup {i} ELSE Hits(t, i)
  BY <1>1 DEF Hits, Slots
<1>9. QED
  BY <1>1, <1>4, <1>5, <1>7, <1>8

(* One subtraction after another is the subtraction of their sum. *)
LEMMA WrapNext ==
    ASSUME NEW n \in 0..(Word - 1), NEW k \in 0..(MaxProcesses - 1)
    PROVE  /\ Wrap(Wrap(n - k) - 1) = Wrap(n - (k + 1))
           /\ Wrap(n - k) \in 0..(Word - 1)
           /\ Wrap(n - (k + 1)) \in 0..(Word - 1)
  BY SizeAssumption DEF Wrap

LEMMA SweptNext ==
    ASSUME RefineInv, NEW c \in Clients, SweepSlot(c), NEW t \in TenantIds, call[c].t = t,
           NEW i \in Slots, idx[c] = i, Swept(t, i), UNCHANGED committed
    PROVE  Swept(t, i + 1)' /\ TableTypeOK'
<1>1. /\ pid_mappings' = [pid_mappings EXCEPT ![i] = IF pid_mappings[i].tenant_id = t
                                                     THEN EmptySlot ELSE pid_mappings[i]]
      /\ total_process_count' = IF pid_mappings[i].tenant_id = t
                                THEN Wrap(total_process_count - 1) ELSE total_process_count
      /\ UNCHANGED <<status, quota, usage, process_count, processes, active_tenant_count>>
  BY DEF SweepSlot, tenantVars
<1>2. PICK K : K = committed.pid_mappings
  OBVIOUS
<1>3. PICK n \in 0..(Word - 1) : n = committed.total_process_count
  BY DEF RefineInv, Atomic!TableTypeOK
<1>4. PICK H : H = Hits(t, i)
  OBVIOUS
<1>5. K \in [Slots -> Mapping] /\ TableTypeOK
  BY <1>2, SameOperators DEF RefineInv, Atomic!TableTypeOK, Atomic!Mapping, Mapping
<1>6. i \notin H
  BY <1>4 DEF Hits, Slots
<1>7. pid_mappings[i] = K[i]
  BY <1>2, <1>4, <1>6 DEF Swept
<1>8. Hits(t, i + 1)' = IF K[i].tenant_id = t THEN H \cup {i} ELSE H
  <2>1. Hits(t, i + 1)' = Hits(t, i + 1)
    BY DEF Hits
  <2>2. QED
    BY <1>2, <1>4, <2>1, HitsNext
<1>9. Cardinality(H) \in 0..(MaxProcesses - 1) /\ Cardinality(H \cup {i}) = Cardinality(H) + 1
  <2>1. Cardinality(H) \in 0..i /\ Cardinality(H \cup {i}) = Cardinality(H) + 1
    BY <1>4, HitsNext
  <2>2. QED
    BY <2>1, SizeAssumption DEF Slots
<1>10. total_process_count = Wrap(n - Cardinality(H))
  BY <1>3, <1>4 DEF Swept
<1>11. pid_mappings' = [j \in Slots |-> IF j \in Hits(t, i + 1)' THEN EmptySlot ELSE K[j]]
  BY <1>1, <1>2, <1>4, <1>5, <1>7, <1>8 DEF Swept
<1>12. total_process_count' = Wrap(n - Cardinality(Hits(t, i + 1)'))
  <2>1. CASE K[i].tenant_id = t
    BY <1>1, <1>7, <1>8, <1>9, <1>10, <2>1, WrapNext
  <2>2. CASE K[i].tenant_id # t
    BY <1>1, <1>7, <1>8, <1>10, <2>2
  <2>3. QED
    BY <2>1, <2>2
<1>13. TableTypeOK'
  <2>1. EmptySlot \in Mapping
    BY SizeAssumption DEF EmptySlot, Mapping, TenantIds
  <2>2. pid_mappings' \in [Slots -> Mapping]
    BY <1>5, <1>11, <2>1
  <2>3. total_process_count' \in 0..(Word - 1)
    BY <1>1, <1>5, SizeAssumption DEF TableTypeOK, Wrap
  <2>4. QED
    BY <1>1, <1>5, <2>2, <2>3 DEF TableTypeOK
<1>14. QED
  BY <1>1, <1>2, <1>3, <1>11, <1>12, <1>13 DEF Swept

LEMMA SweepWay ==
    ASSUME RefineInv, NEW c \in Clients, SweepSlot(c)
    PROVE  TableTypeOK' /\ OnWay(c)' /\ RegistersOK'
<1>1. InSection(c) /\ pc[c] = "sweep"
  BY DEF SweepSlot, InSection, BodyLabels
<1>2. PICK o \in Calls : o = call[c]
  BY <1>1, InBody
<1>3. PICK i : i = idx[c]
  OBVIOUS
<1>4. /\ o.f = "delete" /\ Admitted(o)
      /\ status = committed.status
      /\ process_count = committed.process_count
      /\ active_tenant_count = committed.active_tenant_count
      /\ i \in Slots /\ Swept(o.t, i)
      /\ found[c] = FALSE
  BY <1>1, <1>2, <1>3, InBody DEF OnWay, Progress, Cleaned
<1>5. /\ IF i + 1 < MaxProcesses
         THEN idx' = [idx EXCEPT ![c] = i + 1] /\ UNCHANGED pc
         ELSE idx' = [idx EXCEPT ![c] = 0] /\ pc' = [pc EXCEPT ![c] = "retire"]
      /\ UNCHANGED <<status, process_count, active_tenant_count, found, call, committed>>
  BY <1>3 DEF SweepSlot, Goto, Inside, tenantVars
<1>6. Swept(o.t, i + 1)' /\ TableTypeOK'
  BY <1>2, <1>3, <1>4, <1>5, SweptNext, CallArgs
<1>7. found' = [found EXCEPT ![c] = FALSE] /\ Admitted(o)' /\ call'[c] = o /\ UNCHANGED call
  BY <1>2, <1>4, <1>5 DEF RefineInv, RegistersOK, Admitted
<1>8. i + 1 \in Nat /\ (i + 1 < MaxProcesses => i + 1 \in Slots)
      /\ (~(i + 1 < MaxProcesses) => i + 1 = MaxProcesses)
  BY <1>4, SizeAssumption DEF Slots
<1>9. CASE i + 1 < MaxProcesses
  <2>1. pc' = [pc EXCEPT ![c] = "sweep"] /\ pc'[c] = "sweep" /\ idx'[c] = i + 1
    BY <1>1, <1>5, <1>9, InBody DEF RefineInv, RegistersOK
  <2>2. Cleaned("sweep", i + 1, FALSE) /\ "sweep" \in BodyLabels
    BY DEF Cleaned, BodyLabels
  <2>3. RegistersOK'
    BY <1>1, <1>5, <1>7, <1>8, <1>9, <2>1, <2>2, BodyRegisters
  <2>4. OnWay(c)'
    BY <1>4, <1>5, <1>6, <1>7, <1>8, <1>9, <2>1 DEF OnWay, Progress
  <2>5. QED
    BY <1>6, <2>3, <2>4
<1>10. CASE ~(i + 1 < MaxProcesses)
  <2>1. pc' = [pc EXCEPT ![c] = "retire"] /\ pc'[c] = "retire" /\ idx'[c] = 0
    BY <1>1, <1>5, <1>10, InBody DEF RefineInv, RegistersOK
  <2>2. Cleaned("retire", 0, FALSE) /\ "retire" \in BodyLabels /\ 0 \in Nat /\ FALSE \in BOOLEAN
        /\ idx' = [idx EXCEPT ![c] = 0]
    BY <1>5, <1>10 DEF Cleaned, BodyLabels
  <2>3. RegistersOK'
    BY <1>1, <1>7, <2>1, <2>2, BodyRegisters, Zenon
  <2>4. OnWay(c)'
    BY <1>4, <1>5, <1>6, <1>7, <1>8, <1>10, <2>1 DEF OnWay, Progress
  <2>5. QED
    BY <1>6, <2>3, <2>4
<1>11. QED
  BY <1>9, <1>10

LEMMA RetireWay ==
    ASSUME RefineInv, NEW c \in Clients, RetireTenant(c)
    PROVE  TableTypeOK' /\ OnWay(c)' /\ RegistersOK'
<1>1. InSection(c) /\ pc[c] = "retire"
  BY DEF RetireTenant, InSection, BodyLabels
<1>2. PICK o \in Calls : o = call[c]
  BY <1>1, InBody
<1>3. /\ pc' = [pc EXCEPT ![c] = "unlock"]
      /\ status' = [status EXCEPT ![o.t] = "INACTIVE"]
      /\ process_count' = [process_count EXCEPT ![o.t] = 0]
      /\ active_tenant_count' = Wrap(active_tenant_count - 1)
      /\ UNCHANGED <<quota, usage, processes, pid_mappings, total_process_count, idx, found,
                     call, committed>>
  BY <1>2 DEF RetireTenant, Goto, Inside
<1>4. /\ o.f = "delete" /\ Admitted(o)
      /\ status = committed.status
      /\ process_count = committed.process_count
      /\ active_tenant_count = committed.active_tenant_count
      /\ Swept(o.t, MaxProcesses)
      /\ found[c] = FALSE
  BY <1>1, <1>2, InBody DEF OnWay, Progress, Cleaned
<1>5. RegistersOK'
  <2>1. idx' = [idx EXCEPT ![c] = idx[c]] /\ found' = [found EXCEPT ![c] = FALSE]
    BY <1>3, <1>4 DEF RefineInv, RegistersOK
  <2>2. Cleaned("unlock", idx[c], FALSE) /\ "unlock" \in BodyLabels /\ idx[c] \in Nat
    BY <1>1, InBody DEF Cleaned, BodyLabels
  <2>3. QED
    BY <1>1, <1>3, <2>1, <2>2, BodyRegisters
<1>6. TableTypeOK'
  <2>1. TableTypeOK
    BY <1>1, InBody
  <2>2. active_tenant_count' \in 0..(Word - 1)
    BY <1>3, <2>1, SizeAssumption DEF TableTypeOK, Wrap
  <2>3. status' \in [TenantIds -> Status] /\ process_count' \in [TenantIds -> Nat]
    BY <1>3, <2>1 DEF TableTypeOK, Status
  <2>4. QED
    BY <1>3, <2>1, <2>2, <2>3 DEF TableTypeOK
<1>7. Done(o)'
  <2>1. Swept(o.t, MaxProcesses)'
    BY <1>3, <1>4 DEF Swept, Hits
  <2>2. committed.status[o.t] # "INACTIVE"
    BY <1>4 DEF Admitted
  <2>3. QED
    BY <1>3, <1>4, <2>1, <2>2 DEF Done
<1>8. pc'[c] = "unlock" /\ call'[c] = o
  BY <1>1, <1>2, <1>3, InBody
<1>9. OnWay(c)'
  BY <1>7, <1>8 DEF OnWay, Progress
<1>10. QED
  BY <1>5, <1>6, <1>9

LEMMA ScanWay ==
    ASSUME RefineInv, NEW c \in Clients, Scan(c)
    PROVE  TableTypeOK' /\ OnWay(c)' /\ RegistersOK'
<1>1. InSection(c) /\ pc[c] = "scan"
  BY DEF Scan, InSection, BodyLabels
<1>2. PICK o \in Calls : o = call[c]
  BY <1>1, InBody
<1>3. AtRest /\ Admitted(o) /\ o.f \in {"bind", "unbind"} /\ idx[c] = 0 /\ found[c] = FALSE
  BY <1>1, <1>2, InBody DEF OnWay, Progress, Cleaned
<1>4. UNCHANGED <<tableVars, call, committed>>
  BY DEF Scan, Inside
<1>5. TableTypeOK' /\ AtRest' /\ Admitted(o)' /\ call'[c] = o
  BY <1>1, <1>2, <1>3, <1>4, InBody DEF TableTypeOK, AtRest, TenantsKept, CountsKept, ListsKept,
     tableVars, tenantVars, bindingVars, Admitted
<1>6. /\ \A i, p : FirstSlot(i, p) => Atomic!FirstSlot(i, p)'
      /\ Unmapped(o.p) => Atomic!Unmapped(o.p)'
  BY <1>3, <1>4, SameOperators DEF AtRest, FirstSlot, Atomic!FirstSlot, Unmapped, Atomic!Unmapped
<1>7. CASE /\ ~Unmapped(o.p)
           /\ \E i \in Slots : FirstSlot(i, o.p) /\ idx' = [idx EXCEPT ![c] = i]
           /\ found' = [found EXCEPT ![c] = TRUE]
           /\ Goto(c, IF o.f = "bind" THEN "map" ELSE "list")
  <2>1. PICK i \in Slots : FirstSlot(i, o.p) /\ idx' = [idx EXCEPT ![c] = i]
    BY <1>7
  <2>2. PICK l \in {"map", "list"} : l = (IF o.f = "bind" THEN "map" ELSE "list")
    OBVIOUS
  <2>3. pc' = [pc EXCEPT ![c] = l] /\ pc'[c] = l /\ idx'[c] = i /\ found'[c] = TRUE
    BY <1>1, <1>7, <2>1, <2>2, InBody DEF Goto, RefineInv, RegistersOK
  <2>4. Cleaned(l, i, TRUE) /\ l \in BodyLabels /\ i \in Nat
    BY <2>2 DEF Cleaned, BodyLabels, Slots
  <2>5. RegistersOK'
    BY <1>1, <1>4, <1>7, <2>1, <2>3, <2>4, BodyRegisters
  <2>6. Atomic!FirstSlot(i, o.p)' /\ pid_mappings' = committed'.pid_mappings
    BY <1>5, <1>6, <2>1 DEF AtRest
  <2>7. OnWay(c)'
    BY <1>3, <1>5, <2>2, <2>3, <2>6 DEF OnWay, Progress
  <2>8. QED
    BY <1>5, <2>5, <2>7
<1>8. CASE /\ Unmapped(o.p) /\ o.f = "bind"
           /\ \E i \in Slots : FirstSlot(i, 0) /\ idx' = [idx EXCEPT ![c] = i]
           /\ Goto(c, "tally")
           /\ UNCHANGED found
  <2>1. PICK i \in Slots : FirstSlot(i, 0) /\ idx' = [idx EXCEPT ![c] = i]
    BY <1>8
  <2>2. /\ pc' = [pc EXCEPT ![c] = "tally"] /\ pc'[c] = "tally" /\ idx'[c] = i
        /\ found' = [found EXCEPT ![c] = FALSE]
    BY <1>1, <1>3, <1>8, <2>1, InBody DEF Goto, RefineInv, RegistersOK
  <2>3. Cleaned("tally", i, FALSE) /\ "tally" \in BodyLabels /\ i \in Nat
    BY DEF Cleaned, BodyLabels, Slots
  <2>4. RegistersOK'
    BY <1>1, <1>4, <2>1, <2>2, <2>3, BodyRegisters
  <2>5. Atomic!FirstSlot(i, 0)' /\ Atomic!Unmapped(o.p)'
    BY <1>6, <1>8, <2>1
  <2>6. OnWay(c)'
    BY <1>5, <1>8, <2>2, <2>5 DEF OnWay, Progress
  <2>7. QED
    BY <1>5, <2>4, <2>6
<1>9. CASE Goto(c, "unlock") /\ UNCHANGED <<idx, found>>
  <2>1. pc' = [pc EXCEPT ![c] = "unlock"] /\ pc'[c] = "unlock"
    BY <1>1, <1>9, InBody DEF Goto
  <2>2. RegistersOK'
    BY <1>1, <1>3, <1>4, <1>9, <2>1, PlainRegisters DEF BodyLabels
  <2>3. OnWay(c)'
    BY <1>5, <2>1 DEF OnWay, Progress
  <2>4. QED
    BY <1>5, <2>2, <2>3
<1>10. QED
  BY <1>2, <1>7, <1>8, <1>9 DEF Scan

LEMMA TallyProcessWay ==
    ASSUME RefineInv, NEW c \in Clients, TallyProcess(c)
    PROVE  TableTypeOK' /\ OnWay(c)' /\ RegistersOK'
<1>1. InSection(c) /\ pc[c] = "tally"
  BY DEF TallyProcess, InSection, BodyLabels
<1>2. PICK o \in Calls : o = call[c]
  BY <1>1, InBody
<1>3. PICK i : i = idx[c]
  OBVIOUS
<1>4. /\ pc' = [pc EXCEPT ![c] = "map"] /\ o.f = "bind"
      /\ process_count' = [process_count EXCEPT ![o.t] = Wrap(process_count[o.t] + 1)]
      /\ total_process_count' = Wrap(total_process_count + 1)
      /\ UNCHANGED <<status, quota, usage, processes, pid_mappings, active_tenant_count, idx,
                     found, call, committed>>
  BY <1>2 DEF TallyProcess, Goto, Inside, tenantVars
<1>5. /\ AtRest /\ Admitted(o)
      /\ i \in Slots /\ Atomic!Unmapped(o.p) /\ Atomic!FirstSlot(i, 0)
      /\ found[c] = FALSE
  BY <1>1, <1>2, <1>3, <1>4, InBody DEF OnWay, Progress, Cleaned
<1>6. RegistersOK'
  <2>1. idx' = [idx EXCEPT ![c] = i] /\ found' = [found EXCEPT ![c] = FALSE]
    BY <1>3, <1>4, <1>5 DEF RefineInv, RegistersOK
  <2>2. Cleaned("map", i, FALSE) /\ "map" \in BodyLabels /\ i \in Nat
    BY <1>1, <1>3, InBody DEF Cleaned, BodyLabels
  <2>3. QED
    BY <1>1, <1>4, <2>1, <2>2, BodyRegisters
<1>7. TableTypeOK'
  <2>1. TableTypeOK
    BY <1>1, InBody
  <2>2. total_process_count' \in 0..(Word - 1)
    BY <1>4, <2>1, SizeAssumption DEF TableTypeOK, Wrap
  <2>3. \A n \in Nat : Wrap(n + 1) \in Nat
    BY SizeAssumption DEF Wrap
  <2>4. process_count' \in [TenantIds -> Nat]
    BY <1>4, <2>1, <2>3, CallArgs DEF TableTypeOK
  <2>5. QED
    BY <1>4, <2>1, <2>2, <2>4 DEF TableTypeOK
<1>8. /\ Counted(o.t)' /\ Admitted(o)' /\ processes' = committed'.processes
      /\ pid_mappings' = committed'.pid_mappings
  BY <1>4, <1>5 DEF Counted, AtRest, TenantsKept, CountsKept, ListsKept, Admitted
<1>9. Atomic!Unmapped(o.p)' /\ Atomic!FirstSlot(i, 0)'
  BY <1>4, <1>5 DEF Atomic!Unmapped, Atomic!FirstSlot
<1>10. pc'[c] = "map" /\ call'[c] = o /\ idx'[c] = i /\ found'[c] = FALSE
  BY <1>1, <1>2, <1>3, <1>4, <1>5, InBody
<1>11. OnWay(c)'
  BY <1>4, <1>5, <1>8, <1>9, <1>10 DEF OnWay, Progress
<1>12. QED
  BY <1>6, <1>7, <1>11

LEMMA MapWay ==
    ASSUME RefineInv, NEW c \in Clients, MapSlot(c)
    PROVE  TableTypeOK' /\ OnWay(c)' /\ RegistersOK'
<1>1. InSection(c) /\ pc[c] = "map"
  BY DEF MapSlot, InSection, BodyLabels
<1>2. PICK o \in Calls : o = call[c]
  BY <1>1, InBody
<1>3. PICK i : i = idx[c]
  OBVIOUS
<1>4. PICK l \in {"list", "unlock"} : l = (IF o.f = "bind" /\ ~found[c] THEN "list" ELSE "unlock")
  OBVIOUS
<1>5. /\ pc' = [pc EXCEPT ![c] = l]
      /\ pid_mappings' = [pid_mappings EXCEPT ![i] =
                            IF o.f = "bind" THEN [pid |-> o.p, tenant_id |-> o.t] ELSE EmptySlot]
      /\ total_process_count' = IF o.f = "unbind" THEN Less1(total_process_count)
                                                  ELSE total_process_count
      /\ idx' = [idx EXCEPT ![c] = 0]
      /\ found' = [found EXCEPT ![c] = FALSE]
      /\ UNCHANGED <<status, quota, usage, process_count, processes, active_tenant_count, call,
                     committed>>
  BY <1>2, <1>3, <1>4 DEF MapSlot, Goto, Inside, tenantVars
<1>6. /\ i \in Slots
      /\ pid_mappings = committed.pid_mappings
      /\ o.f \in {"bind", "unbind"}
      /\ o.f = "bind" => Admitted(o)
      /\ o.f = "bind" /\ found[c] => Atomic!FirstSlot(i, o.p) /\ AtRest
      /\ o.f = "bind" /\ ~found[c] => /\ Atomic!Unmapped(o.p) /\ Atomic!FirstSlot(i, 0)
                                      /\ Counted(o.t) /\ processes = committed.processes
      /\ o.f = "unbind" => /\ Atomic!FirstSlot(i, o.p) /\ Unlisted(i, o.p)
                           /\ total_process_count = committed.total_process_count
  BY <1>1, <1>2, <1>3, InBody DEF OnWay, Progress
<1>7. RegistersOK'
  <2>1. Cleaned(l, 0, FALSE) /\ l \in BodyLabels /\ 0 \in Nat /\ FALSE \in BOOLEAN
    BY DEF Cleaned, BodyLabels
  <2>2. UNCHANGED call
    BY <1>5
  <2>3. QED
    BY <1>1, <1>5, <2>1, <2>2, BodyRegisters, Zenon
<1>8. TableTypeOK'
  <2>1. TableTypeOK
    BY <1>1, InBody
  <2>2. total_process_count' \in 0..(Word - 1)
    BY <1>5, <2>1, SizeAssumption DEF TableTypeOK, Less1
  <2>3. EmptySlot \in Mapping /\ (o.f = "bind" => [pid |-> o.p, tenant_id |-> o.t] \in Mapping)
    BY CallArgs, SizeAssumption DEF EmptySlot, Mapping, TenantIds
  <2>4. pid_mappings' \in [Slots -> Mapping]
    BY <1>5, <2>1, <2>3 DEF TableTypeOK
  <2>5. QED
    BY <1>5, <2>1, <2>2, <2>4 DEF TableTypeOK
<1>9. pc'[c] = l /\ call'[c] = o /\ found'[c] = FALSE
  BY <1>1, <1>2, <1>5, InBody DEF RefineInv, RegistersOK
<1>10. CASE o.f = "bind" /\ found[c]
  <2>1. Mapped(i, [pid |-> o.p, tenant_id |-> o.t])'
    BY <1>5, <1>6, <1>10 DEF Mapped
  <2>2. Atomic!FirstSlot(i, o.p)' /\ (TenantsKept /\ CountsKept /\ ListsKept)'
    BY <1>5, <1>6, <1>10 DEF Atomic!FirstSlot, AtRest, TenantsKept, CountsKept, ListsKept
  <2>3. committed'.status[o.t] = "ACTIVE"
    BY <1>5, <1>6, <1>10 DEF Admitted, AtRest, TenantsKept
  <2>4. Done(o)'
    BY <1>6, <1>10, <2>1, <2>2, <2>3 DEF Done
  <2>5. QED
    BY <1>4, <1>7, <1>8, <1>9, <1>10, <2>4 DEF OnWay, Progress
<1>11. CASE o.f = "bind" /\ ~found[c]
  <2>1. Mapped(i, [pid |-> o.p, tenant_id |-> o.t])'
    BY <1>5, <1>6, <1>11 DEF Mapped
  <2>2. Atomic!FirstSlot(i, 0)' /\ Atomic!Unmapped(o.p)'
    BY <1>5, <1>6, <1>11 DEF Atomic!FirstSlot, Atomic!Unmapped
  <2>3. Counted(o.t)' /\ processes' = committed'.processes /\ Admitted(o)'
    BY <1>5, <1>6, <1>11 DEF Counted, TenantsKept, Admitted
  <2>4. QED
    BY <1>4, <1>6, <1>7, <1>8, <1>9, <1>11, <2>1, <2>2, <2>3 DEF OnWay, Progress
<1>12. CASE o.f = "unbind"
  <2>1. Mapped(i, EmptySlot)' /\ total_process_count' = Less1(committed'.total_process_count)
    BY <1>5, <1>6, <1>12 DEF Mapped
  <2>2. Atomic!FirstSlot(i, o.p)'
    BY <1>5, <1>6, <1>12 DEF Atomic!FirstSlot
  <2>3. Unlisted(i, o.p)'
    BY <1>5, <1>6, <1>12 DEF Unlisted, Replaced, TenantsKept
  <2>4. Done(o)'
    BY <1>6, <1>12, <2>1, <2>2, <2>3 DEF Done
  <2>5. QED
    BY <1>4, <1>7, <1>8, <1>9, <1>12, <2>4 DEF OnWay, Progress
<1>13. QED
  BY <1>6, <1>10, <1>11, <1>12

(* The list that ReplaceFirst leaves, when the lists are still those the    *)
(* call found.                                                              *)
LEMMA ReplaceFirstDone ==
    ASSUME NEW t \in TenantIds, NEW old \in Pids \cup {0}, NEW new \in Pids \cup {0},
           TableTypeOK, processes = committed.processes, ReplaceFirst(t, old, new),
           UNCHANGED committed
    PROVE  /\ Replaced(t, old, new)'
           /\ processes' \in [TenantIds -> [Slots -> Pids \cup {0}]]
<1>1. processes \in [TenantIds -> [Slots -> Pids \cup {0}]]
  BY DEF TableTypeOK
<1>2. CASE (\A j \in Slots : processes[t][j] # old) /\ UNCHANGED processes
  BY <1>1, <1>2 DEF Replaced, ReplaceFirst
<1>3. CASE \E j \in Slots : /\ processes[t][j] = old
                            /\ \A k \in 0..(j - 1) : processes[t][k] # old
                            /\ processes' = [processes EXCEPT ![t][j] = new]
  <2>1. PICK j \in Slots : /\ processes[t][j] = old
                           /\ \A k \in 0..(j - 1) : processes[t][k] # old
                           /\ processes' = [processes EXCEPT ![t][j] = new]
    BY <1>3
  <2>2. processes' \in [TenantIds -> [Slots -> Pids \cup {0}]]
    BY <1>1, <2>1
  <2>3. Replaced(t, old, new)'
    <3>1. /\ committed'.processes[t][j] = old
          /\ \A k \in 0..(j - 1) : committed'.processes[t][k] # old
          /\ processes' = [committed'.processes EXCEPT ![t][j] = new]
      BY <2>1
    <3>2. QED
      BY <3>1 DEF Replaced
  <2>4. QED
    BY <2>2, <2>3
<1>4. QED
  BY <1>2, <1>3 DEF ReplaceFirst

LEMMA ListWay ==
    ASSUME RefineInv, NEW c \in Clients, ListProcess(c)
    PROVE  TableTypeOK' /\ OnWay(c)' /\ RegistersOK'
<1>1. InSection(c) /\ pc[c] = "list"
  BY DEF ListProcess, InSection, BodyLabels
<1>2. PICK o \in Calls : o = call[c]
  BY <1>1, InBody
<1>3. PICK i : i = idx[c]
  OBVIOUS
<1>4. PICK t : t = IF o.f = "bind" THEN o.t ELSE pid_mappings[i].tenant_id
  OBVIOUS
<1>5. PICK l \in {"map", "unlock"} : l = (IF o.f = "bind" THEN "unlock" ELSE "map")
  OBVIOUS
<1>6. /\ pc' = [pc EXCEPT ![c] = l]
      /\ IF o.f = "bind" THEN ReplaceFirst(t, 0, o.p) ELSE ReplaceFirst(t, o.p, 0)
      /\ process_count' = [process_count EXCEPT ![t] =
                             IF o.f = "bind" THEN process_count[t] ELSE Less1(process_count[t])]
      /\ UNCHANGED <<status, quota, usage, pid_mappings, active_tenant_count,
                     total_process_count, idx, found, call, committed>>
  BY <1>2, <1>3, <1>4, <1>5 DEF ListProcess, Goto, Inside, tenantVars
<1>7. /\ o.f \in {"bind", "unbind"}
      /\ o.f = "bind" =>
           /\ ~found[c] /\ Admitted(o)
           /\ Counted(o.t) /\ processes = committed.processes
           /\ Atomic!Unmapped(o.p)
           /\ \E j \in Slots : /\ Atomic!FirstSlot(j, 0)
                               /\ Mapped(j, [pid |-> o.p, tenant_id |-> o.t])
      /\ o.f = "unbind" => AtRest /\ i \in Slots /\ Atomic!FirstSlot(i, o.p)
  BY <1>1, <1>2, <1>3, InBody DEF OnWay, Progress
<1>8. TableTypeOK /\ t \in TenantIds /\ o.p \in Pids
  BY <1>1, <1>4, <1>7, InBody, CallArgs DEF TableTypeOK, Mapping
<1>9. /\ o.f = "bind" => Replaced(t, 0, o.p)'
      /\ o.f = "unbind" => Replaced(t, o.p, 0)'
      /\ processes' \in [TenantIds -> [Slots -> Pids \cup {0}]]
  <2>1. processes = committed.processes
    BY <1>7 DEF AtRest, ListsKept
  <2>2. QED
    BY <1>6, <1>7, <1>8, <2>1, ReplaceFirstDone
<1>10. TableTypeOK'
  <2>1. process_count' \in [TenantIds -> Nat]
    BY <1>6, <1>8 DEF TableTypeOK, Less1
  <2>2. QED
    BY <1>6, <1>8, <1>9, <2>1 DEF TableTypeOK
<1>11. pc'[c] = l /\ call'[c] = o /\ idx'[c] = i
  BY <1>1, <1>2, <1>3, <1>6, InBody
<1>12. CASE o.f = "bind"
  <2>1. PICK j \in Slots : /\ Atomic!FirstSlot(j, 0)
                           /\ Mapped(j, [pid |-> o.p, tenant_id |-> o.t])
    BY <1>7, <1>12
  <2>2. /\ Atomic!FirstSlot(j, 0)' /\ Atomic!Unmapped(o.p)'
        /\ Mapped(j, [pid |-> o.p, tenant_id |-> o.t])'
    BY <1>6, <1>7, <1>12, <2>1 DEF Atomic!FirstSlot, Atomic!Unmapped, Mapped
  <2>3. process_count' = process_count
    BY <1>6, <1>8, <1>12 DEF TableTypeOK
  <2>4. Counted(o.t)' /\ committed'.status[o.t] = "ACTIVE"
    BY <1>6, <1>7, <1>12, <2>3 DEF Counted, TenantsKept, Admitted
  <2>5. Done(o)'
    BY <1>4, <1>9, <1>12, <2>2, <2>4 DEF Done
  <2>6. OnWay(c)'
    BY <1>5, <1>11, <1>12, <2>5 DEF OnWay, Progress
  <2>7. RegistersOK'
    <3>1. /\ found' = [found EXCEPT ![c] = FALSE] /\ idx' = [idx EXCEPT ![c] = i]
          /\ pc' = [pc EXCEPT ![c] = "unlock"] /\ UNCHANGED call
      BY <1>1, <1>3, <1>5, <1>6, <1>7, <1>12, InBody DEF RefineInv, RegistersOK
    <3>2. Cleaned("unlock", i, FALSE) /\ "unlock" \in BodyLabels /\ i \in Nat /\ FALSE \in BOOLEAN
      BY <1>1, <1>3, InBody DEF Cleaned, BodyLabels
    <3>3. QED
      BY <1>1, <3>1, <3>2, BodyRegisters, Zenon
  <2>8. QED
    BY <1>10, <2>6, <2>7
<1>13. CASE o.f = "unbind"
  <2>1. AtRest /\ i \in Slots /\ Atomic!FirstSlot(i, o.p)
    BY <1>7, <1>13
  <2>2. t = committed'.pid_mappings[i].tenant_id
    BY <1>4, <1>6, <1>13, <2>1 DEF AtRest
  <2>3. process_count' = [committed'.process_count EXCEPT ![t] = Less1(committed'.process_count[t])]
    BY <1>6, <1>13, <2>1 DEF AtRest, ListsKept
  <2>4. Unlisted(i, o.p)'
    BY <1>6, <1>9, <1>13, <2>1, <2>2, <2>3 DEF Unlisted, AtRest, TenantsKept, CountsKept
  <2>5. /\ Atomic!FirstSlot(i, o.p)' /\ pid_mappings' = committed'.pid_mappings
        /\ total_process_count' = committed'.total_process_count
    BY <1>6, <2>1 DEF Atomic!FirstSlot, AtRest, CountsKept
  <2>6. OnWay(c)'
    BY <1>5, <1>11, <1>13, <2>1, <2>4, <2>5 DEF OnWay, Progress
  <2>7. RegistersOK'
    <3>1. /\ found' = [found EXCEPT ![c] = found[c]] /\ idx' = [idx EXCEPT ![c] = i]
          /\ pc' = [pc EXCEPT ![c] = "map"] /\ UNCHANGED call
      BY <1>3, <1>5, <1>6, <1>13 DEF RefineInv, RegistersOK
    <3>2. Cleaned("map", i, found[c]) /\ "map" \in BodyLabels /\ i \in Nat /\ found[c] \in BOOLEAN
      BY <1>1, <1>3, InBody DEF Cleaned, BodyLabels
    <3>3. QED
      BY <1>1, <3>1, <3>2, BodyRegisters, Zenon
  <2>8. QED
    BY <1>10, <2>6, <2>7
<1>14. QED
  BY <1>7, <1>12, <1>13

(* Steps of others do not touch what a client inside the section has done.  *)
LEMMA WayFrame ==
    ASSUME NEW d \in Clients, OnWay(d), UNCHANGED <<tableVars, committed>>,
           pc'[d] = pc[d], call'[d] = call[d], idx'[d] = idx[d], found'[d] = found[d]
    PROVE  OnWay(d)'
<1>1. UNCHANGED <<status, quota, usage, process_count, processes, pid_mappings,
                  active_tenant_count, total_process_count>>
  BY DEF tableVars, tenantVars, bindingVars
<1>2. /\ TenantsKept' <=> TenantsKept
      /\ CountsKept' <=> CountsKept
      /\ ListsKept' <=> ListsKept
      /\ AtRest' <=> AtRest
  BY <1>1 DEF AtRest, TenantsKept, CountsKept, ListsKept
<1>3. \A t : /\ Emptied(t)' <=> Emptied(t)
             /\ Cleared(t)' <=> Cleared(t)
             /\ Counted(t)' <=> Counted(t)
  BY <1>1, <1>2 DEF Emptied, Cleared, Counted
<1>4. \A t, q : Filled(t, q)' <=> Filled(t, q)
  BY <1>1, <1>3 DEF Filled
<1>5. \A t, i : Swept(t, i)' <=> Swept(t, i)
  BY <1>1 DEF Swept, Hits
<1>6. \A i, m : Mapped(i, m)' <=> Mapped(i, m)
  BY <1>1 DEF Mapped
<1>7. \A t, old, new : Replaced(t, old, new)' <=> Replaced(t, old, new)
  BY <1>1 DEF Replaced
<1>8. \A i, p : Unlisted(i, p)' <=> Unlisted(i, p)
  BY <1>1, <1>2, <1>7 DEF Unlisted
<1>9. /\ \A i, p : Atomic!FirstSlot(i, p)' <=> Atomic!FirstSlot(i, p)
      /\ \A p : Atomic!Unmapped(p)' <=> Atomic!Unmapped(p)
  BY DEF Atomic!FirstSlot, Atomic!Unmapped
<1>10. \A o : Admitted(o)' <=> Admitted(o)
  BY <1>1 DEF Admitted
<1>11. PICK o, l, i, f : o = call[d] /\ l = pc[d] /\ i = idx[d] /\ f = found[d]
  OBVIOUS
<1>12. Done(o)' <=> Done(o)
  BY <1>1, <1>2, <1>3, <1>4, <1>5, <1>6, <1>7, <1>8, <1>9 DEF Done
<1>13. Progress(l, o, i, f)
  BY <1>11 DEF OnWay
<1>14. Progress(l, o, i, f)'
  BY <1>1, <1>2, <1>3, <1>4, <1>5, <1>6, <1>8, <1>9, <1>10, <1>12, <1>13 DEF Progress
<1>15. QED
  BY <1>11, <1>14 DEF OnWay

(* Nothing is claimed of a client outside the section. *)
LEMMA OffWay ==
    ASSUME NEW d \in Clients, pc'[d] \notin BodyLabels
    PROVE  OnWay(d)'
  BY DEF OnWay, Progress, BodyLabels

(* What a step that touches neither table nor committed keeps. *)
LEMMA TableFrame ==
    ASSUME RefineInv, UNCHANGED <<tableVars, committed>>, version' = 0 => version = 0
    PROVE  /\ TableTypeOK' /\ Atomic!TableTypeOK' /\ Unstamped'
           /\ UNCHANGED Atomic!tableVars
<1>1. TableTypeOK' /\ Unstamped'
  BY DEF RefineInv, TableTypeOK, Unstamped, TableInit, AtRest, TenantsKept, CountsKept, ListsKept,
     tableVars, tenantVars, bindingVars
<1>2. Atomic!TableTypeOK' /\ UNCHANGED Atomic!tableVars
  BY DEF RefineInv, Atomic!TableTypeOK, Atomic!tableVars, Atomic!tenantVars, Atomic!bindingVars
<1>3. QED
  BY <1>1, <1>2

(* A client moves between two places outside the section. *)
LEMMA OutsideRefines ==
    ASSUME RefineInv, SyncInv', RegistersOK', NEW c \in Clients, ~InSection(c),
           NEW l \in Labels \ BodyLabels, pc' = [pc EXCEPT ![c] = l],
           UNCHANGED <<tableVars, committed>>, version' = 0 => version = 0,
           \A d \in Clients \ {c} :
             call'[d] = call[d] /\ idx'[d] = idx[d] /\ found'[d] = found[d]
    PROVE  RefineInv' /\ UNCHANGED Atomic!tableVars
<1>1. \A d \in Clients : OnWay(d)'
  <2>1. OnWay(c)'
    BY OffWay DEF RefineInv, SyncInv, SyncTypeOK
  <2>2. ASSUME NEW d \in Clients \ {c} PROVE OnWay(d)'
    BY <2>2, WayFrame DEF OnWay, RefineInv, SyncInv, SyncTypeOK
  <2>3. QED
    BY <2>1, <2>2
<1>2. QED
  BY <1>1, TableFrame DEF RefineInv, OnWay

LEMMA BodyRefines ==
    ASSUME RefineInv, SyncInv', NEW c \in Clients, Body(c)
    PROVE  RefineInv' /\ UNCHANGED Atomic!tableVars
<1>1. TableTypeOK' /\ OnWay(c)' /\ RegistersOK'
  BY CheckWay, CopyWay, ClearWay, FillWay, TallyTenantWay, SweepWay, RetireWay, ScanWay,
     TallyProcessWay, MapWay, ListWay DEF Body
<1>2. /\ InSection(c)
      /\ \E l \in BodyLabels : pc' = [pc EXCEPT ![c] = l]
      /\ UNCHANGED <<version, committed>>
  BY BodyStep DEF RefineInv, SyncInv, SyncTypeOK
<1>3. Atomic!TableTypeOK' /\ UNCHANGED Atomic!tableVars
  BY <1>2 DEF RefineInv, Atomic!TableTypeOK, Atomic!tableVars, Atomic!tenantVars,
     Atomic!bindingVars
<1>4. Unstamped'
  BY <1>2, InBody DEF Unstamped
<1>5. ASSUME NEW d \in Clients \ {c} PROVE OnWay(d)'
  <2>1. pc'[d] \notin BodyLabels
    BY <1>2, <1>5 DEF RefineInv, SyncInv, SyncTypeOK, MutualExclusion, InSection
  <2>2. QED
    BY <2>1, OffWay
<1>6. QED
  BY <1>1, <1>3, <1>4, <1>5 DEF RefineInv, OnWay

(* While one client alone has initialised the region, every step is a step  *)
(* of the one-step table or leaves it alone.                                *)
LEMMA RefineStep ==
    ASSUME RefineInv, [SyncNext]_syncVars, Sole'
    PROVE  RefineInv' /\ [Atomic!TableNext]_(Atomic!tableVars)
<1>1. SyncInv' /\ Sole
  BY SyncStep, TypeStep DEF RefineInv, SyncInv
<1> USE DEF Goto
<1>2. ASSUME NEW c \in Clients, Attach(c) \/ Stamp(c)
      PROVE  RefineInv' /\ UNCHANGED Atomic!tableVars
  <2>1. PICK l \in {"wipe", "idle"} : pc' = [pc EXCEPT ![c] = l]
    BY <1>2 DEF Attach, Stamp
  <2>2. /\ UNCHANGED <<tableVars, call, idx, found, committed>>
        /\ version' = 0 => version = 0
        /\ pc[c] \in {"detached", "stamp"}
    BY <1>2 DEF Attach, Stamp
  <2>3. RegistersOK'
    BY <2>1, <2>2 DEF RefineInv, RegistersOK, Cleaned, InCall, BodyLabels, SyncInv, SyncTypeOK
  <2>4. QED
    BY <1>1, <2>1, <2>2, <2>3, OutsideRefines DEF Labels, BodyLabels, InSection
<1>3. ASSUME NEW c \in Clients, Wipe(c)
      PROVE  RefineInv' /\ UNCHANGED Atomic!tableVars
  <2>1. TableInit /\ AtRest
    BY <1>3 DEF Wipe, RefineInv, SyncInv, StartOrder, Unstamped
  <2>2. UNCHANGED <<tableVars, call, idx, found>> /\ TableInit' /\ pc' = [pc EXCEPT ![c] = "stamp"]
    BY <1>3, <2>1 DEF Wipe, TableInit, tableVars, tenantVars, bindingVars
  <2>3. committed' = Table'
    BY <1>1, <1>3 DEF Wipe, Commit
  <2>4. AtRest'
    BY <2>3 DEF Table, AtRest, TenantsKept, CountsKept, ListsKept
  <2>5. /\ committed'.status = committed.status /\ committed'.quota = committed.quota
        /\ committed'.usage = committed.usage
        /\ committed'.process_count = committed.process_count
        /\ committed'.processes = committed.processes
        /\ committed'.pid_mappings = committed.pid_mappings
        /\ committed'.active_tenant_count = committed.active_tenant_count
        /\ committed'.total_process_count = committed.total_process_count
    BY <2>1, <2>2, <2>4 DEF AtRest, TenantsKept, CountsKept, ListsKept, tableVars, tenantVars,
       bindingVars
  <2>6. UNCHANGED Atomic!tableVars /\ Atomic!TableTypeOK'
    BY <2>5 DEF RefineInv, Atomic!TableTypeOK, Atomic!tableVars, Atomic!tenantVars,
       Atomic!bindingVars
  <2>7. TableTypeOK' /\ Unstamped'
    BY <2>2, <2>4 DEF RefineInv, TableTypeOK, Unstamped, tableVars, tenantVars, bindingVars
  <2>8. RegistersOK'
    BY <1>3, <2>2 DEF Wipe, RefineInv, RegistersOK, Cleaned, InCall, BodyLabels, SyncInv,
       SyncTypeOK
  <2>9. \A d \in Clients : OnWay(d)'
    <3>1. \A d \in Clients : pc'[d] \notin BodyLabels
      BY <1>3, <2>2 DEF Wipe, RefineInv, SyncInv, SyncTypeOK, StartOrder, BodyLabels
    <3>2. QED
      BY <3>1, OffWay
  <2>10. QED
    BY <1>1, <2>6, <2>7, <2>8, <2>9 DEF RefineInv, OnWay
<1>4. ASSUME NEW c \in Clients, Enter(c)
      PROVE  RefineInv' /\ UNCHANGED Atomic!tableVars
  <2>1. PICK o \in Calls : call' = [call EXCEPT ![c] = o]
    BY <1>4 DEF Enter
  <2>2. /\ pc' = [pc EXCEPT ![c] = "spin"] /\ pc[c] = "idle"
        /\ UNCHANGED <<tableVars, version, idx, found, committed>>
    BY <1>4 DEF Enter
  <2>3. RegistersOK'
    BY <2>1, <2>2 DEF RefineInv, RegistersOK, Cleaned, InCall, BodyLabels, SyncInv, SyncTypeOK
  <2>4. QED
    BY <1>1, <2>1, <2>2, <2>3, OutsideRefines DEF Labels, BodyLabels, InSection, RefineInv,
       RegistersOK
<1>5. ASSUME NEW c \in Clients, spin_lock(c)
      PROVE  RefineInv' /\ UNCHANGED Atomic!tableVars
  <2>1. /\ pc[c] = "spin" /\ pc' = [pc EXCEPT ![c] = "check"] /\ tenant_shm_lock = 0
        /\ UNCHANGED <<tableVars, version, call, idx, found, committed>>
    BY <1>5 DEF spin_lock
  <2>2. Table = committed /\ \A d \in Clients : ~InSection(d)
    BY <2>1 DEF RefineInv, SyncInv, QuiescentWhenFree, MutualExclusion
  <2>3. AtRest'
    BY <2>1, <2>2 DEF Table, AtRest, TenantsKept, CountsKept, ListsKept, tableVars, tenantVars,
       bindingVars
  <2>4. RegistersOK'
    BY <2>1 DEF RefineInv, RegistersOK, Cleaned, InCall, BodyLabels, SyncInv, SyncTypeOK
  <2>5. pc'[c] = "check" /\ \A d \in Clients \ {c} : pc'[d] \notin BodyLabels
    BY <2>1, <2>2 DEF RefineInv, SyncInv, SyncTypeOK, InSection
  <2>6. \A d \in Clients : OnWay(d)'
    <3>1. OnWay(c)'
      BY <2>3, <2>5 DEF OnWay, Progress
    <3>2. QED
      BY <2>5, <3>1, OffWay
  <2>7. QED
    BY <1>1, <2>1, <2>4, <2>6, TableFrame DEF RefineInv, OnWay
<1>6. ASSUME NEW c \in Clients, spin_unlock(c)
      PROVE  RefineInv' /\ [Atomic!TableNext]_(Atomic!tableVars)
  <2>1. /\ pc[c] = "unlock" /\ pc' = [pc EXCEPT ![c] = "load"] /\ committed' = Table
        /\ UNCHANGED <<tableVars, version, call, idx, found>>
    BY <1>1, <1>6 DEF spin_unlock, Commit
  <2>2. InSection(c)
    BY <2>1 DEF InSection, BodyLabels
  <2>3. call[c] \in Calls /\ OnWay(c) /\ Cleaned("unlock", idx[c], found[c]) /\ version # 0
    BY <2>1, <2>2, InBody
  <2>4. AtRest \/ Done(call[c])
    BY <2>1, <2>3 DEF OnWay, Progress
  <2>5. [Atomic!TableNext]_(Atomic!tableVars)
    <3>1. CASE AtRest
      BY <2>1, <3>1, TableFields DEF AtRest, TenantsKept, CountsKept, ListsKept,
         Atomic!tableVars, Atomic!tenantVars, Atomic!bindingVars
    <3>2. CASE Done(call[c])
      BY <2>1, <2>3, <3>2, CommitStep DEF RefineInv
    <3>3. QED
      BY <2>4, <3>1, <3>2
  <2>6. TableTypeOK'
    BY <2>1 DEF RefineInv, TableTypeOK, tableVars, tenantVars, bindingVars
  <2>7. Atomic!TableTypeOK'
    BY <2>1, TableFields, SameOperators
    DEF RefineInv, TableTypeOK, Atomic!TableTypeOK, Atomic!Mapping, Mapping, Atomic!Quota, Quota,
        Atomic!Usage, Usage, Atomic!Status, Status, Atomic!Resources, Resources,
        Atomic!Totalled, Totalled
  <2>8. Unstamped'
    BY <2>1, <2>3 DEF Unstamped
  <2>9. RegistersOK'
    BY <2>1, <2>3 DEF RefineInv, RegistersOK, Cleaned, InCall, BodyLabels, SyncInv, SyncTypeOK
  <2>10. \A d \in Clients : OnWay(d)'
    <3>1. \A d \in Clients : pc'[d] \notin BodyLabels
      BY <2>1, <2>2 DEF RefineInv, SyncInv, SyncTypeOK, MutualExclusion, InSection, BodyLabels
    <3>2. QED
      BY <3>1, OffWay
  <2>11. QED
    BY <1>1, <2>5, <2>6, <2>7, <2>8, <2>9, <2>10 DEF RefineInv, OnWay
<1>7. ASSUME NEW c \in Clients, LoadVersion(c) \/ StoreVersion(c)
      PROVE  RefineInv' /\ UNCHANGED Atomic!tableVars
  <2>1. /\ UNCHANGED <<tableVars, found, committed>>
        /\ pc[c] \in {"load", "store"}
        /\ version' = 0 => version = 0
    BY <1>7 DEF LoadVersion, StoreVersion, RefineInv, SyncInv, SyncTypeOK
  <2>2. CASE LoadVersion(c)
    <3>1. pc' = [pc EXCEPT ![c] = "store"] /\ UNCHANGED <<call, idx>> /\ pc[c] = "load"
      BY <2>2 DEF LoadVersion
    <3>2. RegistersOK'
      BY <2>1, <3>1 DEF RefineInv, RegistersOK, Cleaned, InCall, BodyLabels, SyncInv, SyncTypeOK
    <3>3. QED
      BY <1>1, <2>1, <3>1, <3>2, OutsideRefines DEF Labels, BodyLabels, InSection
  <2>3. CASE StoreVersion(c) /\ call[c].f = "get_info"
    <3>1. /\ pc' = [pc EXCEPT ![c] = "result"] /\ call' = [call EXCEPT ![c] = call[c]]
          /\ idx' = [idx EXCEPT ![c] = idx[c]] /\ pc[c] = "store"
      BY <2>3 DEF StoreVersion
    <3>2. UNCHANGED <<call, idx>>
      BY <3>1 DEF RefineInv, RegistersOK
    <3>3. RegistersOK'
      BY <2>1, <3>1, <3>2 DEF RefineInv, RegistersOK, Cleaned, InCall, BodyLabels, SyncInv,
         SyncTypeOK
    <3>4. QED
      BY <1>1, <2>1, <3>1, <3>2, <3>3, OutsideRefines DEF Labels, BodyLabels, InSection
  <2>4. CASE StoreVersion(c) /\ call[c].f # "get_info"
    <3>1. /\ pc' = [pc EXCEPT ![c] = "idle"] /\ call' = [call EXCEPT ![c] = NoCall]
          /\ idx' = [idx EXCEPT ![c] = 0] /\ pc[c] = "store"
      BY <2>4 DEF StoreVersion
    <3>2. RegistersOK'
      BY <2>1, <3>1 DEF RefineInv, RegistersOK, Cleaned, InCall, BodyLabels, SyncInv, SyncTypeOK
    <3>3. \A d \in Clients \ {c} : call'[d] = call[d] /\ idx'[d] = idx[d] /\ found'[d] = found[d]
      BY <2>1, <3>1 DEF RefineInv, RegistersOK
    <3>4. QED
      BY <1>1, <2>1, <3>1, <3>2, <3>3, OutsideRefines DEF Labels, BodyLabels, InSection
  <2>5. QED
    BY <1>7, <2>2, <2>3, <2>4
<1>8. ASSUME NEW c \in Clients, GetInfoResult(c) \/ GetInfoReturn(c)
      PROVE  RefineInv' /\ UNCHANGED Atomic!tableVars
  <2>1. CASE GetInfoResult(c)
    <3>1. PICK b \in BOOLEAN : found' = [found EXCEPT ![c] = b]
      BY <2>1 DEF GetInfoResult
    <3>2. /\ pc' = [pc EXCEPT ![c] = "returned"] /\ pc[c] = "result"
          /\ UNCHANGED <<tableVars, version, call, idx, committed>>
      BY <2>1 DEF GetInfoResult
    <3>3. RegistersOK'
      BY <3>1, <3>2 DEF RefineInv, RegistersOK, Cleaned, InCall, BodyLabels, SyncInv, SyncTypeOK
    <3>4. \A d \in Clients \ {c} : call'[d] = call[d] /\ idx'[d] = idx[d] /\ found'[d] = found[d]
      BY <3>1, <3>2 DEF RefineInv, RegistersOK
    <3>5. QED
      BY <1>1, <3>2, <3>3, <3>4, OutsideRefines DEF Labels, BodyLabels, InSection
  <2>2. CASE GetInfoReturn(c)
    <3>1. /\ pc' = [pc EXCEPT ![c] = "idle"] /\ call' = [call EXCEPT ![c] = NoCall]
          /\ found' = [found EXCEPT ![c] = FALSE] /\ idx' = [idx EXCEPT ![c] = 0]
          /\ UNCHANGED <<tableVars, version, committed>> /\ pc[c] = "returned"
      BY <2>2 DEF GetInfoReturn
    <3>2. RegistersOK'
      BY <3>1 DEF RefineInv, RegistersOK, Cleaned, InCall, BodyLabels, SyncInv, SyncTypeOK
    <3>3. \A d \in Clients \ {c} : call'[d] = call[d] /\ idx'[d] = idx[d] /\ found'[d] = found[d]
      BY <3>1 DEF RefineInv, RegistersOK
    <3>4. QED
      BY <1>1, <3>1, <3>2, <3>3, OutsideRefines DEF Labels, BodyLabels, InSection
  <2>3. QED
    BY <1>8, <2>1, <2>2
<1>9. ASSUME NEW c \in Clients, Crash(c)
      PROVE  RefineInv' /\ UNCHANGED Atomic!tableVars
  <2>1. /\ pc' = [pc EXCEPT ![c] = "dead"]
        /\ UNCHANGED <<tableVars, version, call, idx, found, committed>>
    BY <1>9 DEF Crash
  <2>2. RegistersOK'
    BY <2>1 DEF RefineInv, RegistersOK, Cleaned, InCall, BodyLabels, SyncInv, SyncTypeOK
  <2>3. \A d \in Clients : OnWay(d)'
    <3>1. pc'[c] \notin BodyLabels
      BY <2>1 DEF RefineInv, SyncInv, SyncTypeOK, BodyLabels
    <3>2. ASSUME NEW d \in Clients \ {c} PROVE OnWay(d)'
      BY <2>1, <3>2, WayFrame DEF OnWay, RefineInv, SyncInv, SyncTypeOK
    <3>3. QED
      BY <3>1, <3>2, OffWay
  <2>4. QED
    BY <1>1, <2>1, <2>2, <2>3, TableFrame DEF RefineInv, OnWay
<1>10. CASE UNCHANGED syncVars
  <2>1. UNCHANGED <<tableVars, version, pc, call, idx, found, committed>>
    BY <1>10 DEF syncVars, clientVars
  <2>2. RegistersOK'
    BY <2>1 DEF RefineInv, RegistersOK
  <2>3. ASSUME NEW d \in Clients PROVE OnWay(d)'
    BY <2>1, <2>3, WayFrame DEF OnWay, RefineInv
  <2>4. QED
    BY <1>1, <2>1, <2>2, <2>3, TableFrame DEF RefineInv, OnWay
<1>11. QED
  BY <1>1, <1>2, <1>3, <1>4, <1>5, <1>6, <1>7, <1>8, <1>9, <1>10, BodyRefines DEF SyncNext, Step

(* A call takes effect as a whole: the table between calls is the table of  *)
(* TenantShm, in which tenant_create, tenant_delete, tenant_bind_process    *)
(* and the others are one step each, for any number of clients, tenants and *)
(* slots, whatever calls overlap and whichever client dies where.  A call   *)
(* that dies half way has not happened.  It is followed for as long as one  *)
(* client alone has initialised the region.                                 *)
THEOREM CallsAreAtomic == SyncSpec => ImplementsTable
<1> DEFINE Safe == SyncTypeOK /\ (Sole => RefineInv)
<1>1. SyncInit => Safe /\ Atomic!TableInit
  <2> SUFFICES ASSUME SyncInit
               PROVE  Safe /\ Atomic!TableInit
    OBVIOUS
  <2>1. SyncInv
    BY DEF SyncInit, SyncInv, SyncTypeOK, StartOrder, MutualExclusion, QuiescentWhenFree,
       InSection, BodyLabels, Labels
  <2>2. AtRest /\ TableInit
    BY DEF SyncInit, Table, AtRest, TenantsKept, CountsKept, ListsKept
  <2>3. TableTypeOK
    BY <2>2, SizeAssumption DEF TableInit, TableTypeOK, Status, Quota, Usage, ZeroUsage, Mapping,
       EmptySlot, EmptyList, TenantIds, Slots
  <2>4. Atomic!TableTypeOK
    BY <2>2, <2>3, SameOperators
    DEF AtRest, TenantsKept, CountsKept, ListsKept,
        TableTypeOK, Atomic!TableTypeOK, Atomic!Mapping, Mapping, Atomic!Quota, Quota,
        Atomic!Usage, Usage, Atomic!Status, Status, Atomic!Resources, Resources,
        Atomic!Totalled, Totalled
  <2>5. RegistersOK /\ \A c \in Clients : OnWay(c)
    BY DEF SyncInit, RegistersOK, Cleaned, InCall, BodyLabels, OnWay, Progress
  <2>6. Atomic!TableInit
    BY <2>2, SameOperators
    DEF TableInit, Atomic!TableInit, AtRest, TenantsKept, CountsKept, ListsKept,
        Atomic!Resources, Resources
  <2>7. QED
    BY <2>1, <2>2, <2>3, <2>4, <2>5, <2>6 DEF RefineInv, SyncInv, Unstamped, OnWay
<1>2. Safe /\ [SyncNext]_syncVars => Safe' /\ [Atomic!TableNext]_(Atomic!tableVars)
  <2> SUFFICES ASSUME Safe, [SyncNext]_syncVars
               PROVE  Safe' /\ [Atomic!TableNext]_(Atomic!tableVars)
    OBVIOUS
  <2>1. SyncTypeOK' /\ (Sole' => Sole)
    BY TypeStep
  <2>2. CASE Sole'
    BY <2>1, <2>2, RefineStep
  <2>3. CASE ~Sole'
    <3>1. UNCHANGED committed
      BY <2>3, Frozen
    <3>2. QED
      BY <2>1, <2>3, <3>1 DEF Atomic!tableVars, Atomic!tenantVars, Atomic!bindingVars
  <2>4. QED
    BY <2>2, <2>3
<1>3. QED
  BY <1>1, <1>2, PTL DEF SyncSpec, ImplementsTable, Atomic!TableSpec
=============================================================================
