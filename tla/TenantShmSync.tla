---------------------------- MODULE TenantShmSync ----------------------------
(***************************************************************************)
(* The tenant table with its synchronisation: clients (hooked processes,   *)
(* the command line tool, the daemon) attach to the region, take the spin  *)
(* lock, scan and write the table a few fields at a time, release the lock *)
(* and only then add one to version.  It implements TenantShm, in which a  *)
(* call is one step.                                                       *)
(***************************************************************************)
EXTENDS TenantShm

CONSTANTS
    Clients,
    MayCrash,      \* whether a client may die at any point
    MaxCalls       \* bound: API calls made in a behaviour

ASSUME ClientAssumption ==
    /\ MayCrash \in BOOLEAN
    /\ MaxCalls \in Nat

(* An API call with arguments that pass the checks made before the lock.   *)
Calls ==
         [f : {"create"}, t : TenantIds \ {0}, q : QuotaArgs \cup {DefaultQuota}]
    \cup [f : {"delete"}, t : TenantIds \ {0}]
    \cup [f : {"set_status"}, t : TenantIds, s : StatusArgs]
    \cup [f : {"update_quota"}, t : TenantIds, q : QuotaArgs]
    \cup [f : {"update_usage"}, t : TenantIds, u : UsageArgs]
    \cup [f : {"bind"}, t : TenantIds, p : Pids]
    \cup [f : {"unbind"}, p : Pids]
    \cup [f : {"get_info"}, t : TenantIds]

NoCall == [f |-> "none"]

VARIABLES
    tenant_shm_lock, version,  \* words of the region
    pc, call,                  \* where each client is, and in which call
    idx, found,                \* its loop index or slot, and whether the scan found the pid
    reg,                       \* version as it loaded it; in get_info the copied status
    calls,                     \* API calls made so far
    committed,                 \* auxiliary: the table when the lock was last released
    inits                      \* auxiliary: clients that took the region for a new one

clientVars == <<pc, call, idx, found, reg>>
syncVars   == <<tableVars, tenant_shm_lock, version, clientVars, calls, committed, inits>>

Table == [status |-> status, quota |-> quota, usage |-> usage,
          process_count |-> process_count, processes |-> processes,
          pid_mappings |-> pid_mappings, active_tenant_count |-> active_tenant_count,
          total_process_count |-> total_process_count]

SyncInit ==
    /\ TableInit
    /\ tenant_shm_lock = 0
    /\ version = 0
    /\ pc = [c \in Clients |-> "detached"]
    /\ call = [c \in Clients |-> NoCall]
    /\ idx = [c \in Clients |-> 0]
    /\ found = [c \in Clients |-> FALSE]
    /\ reg = [c \in Clients |-> 0]
    /\ calls = 0
    /\ committed = Table
    /\ inits = 0

Goto(c, l) == pc' = [pc EXCEPT ![c] = l]
Inside     == UNCHANGED <<tenant_shm_lock, version, call, reg, calls, committed, inits>>

-----------------------------------------------------------------------------
(* At most one client has taken the region for a new one.  After a second   *)
(* has (both tested version before either stamped it, or the first died in  *)
(* between) the table may be cleared under a call, and what was committed   *)
(* is not followed any longer.                                              *)
Sole == inits <= 1
Commit(table) == committed' = IF Sole THEN table ELSE committed

(* tenant_shm_init: whoever reads version = 0 takes the region for a new    *)
(* one, clears all of it and stamps it.  No lock is held.                   *)
Attach(c) ==
    /\ pc[c] = "detached"
    /\ Goto(c, IF version = 0 THEN "wipe" ELSE "idle")
    /\ inits' = IF version = 0 THEN inits + 1 ELSE inits
    /\ UNCHANGED <<tableVars, tenant_shm_lock, version, call, idx, found, reg, calls, committed>>

Wipe(c) ==
    /\ pc[c] = "wipe"
    /\ status' = [t \in TenantIds |-> "INACTIVE"]
    /\ quota' = [t \in TenantIds |-> [r \in Resources |-> 0]]
    /\ usage' = [t \in TenantIds |-> ZeroUsage]
    /\ process_count' = [t \in TenantIds |-> 0]
    /\ processes' = [t \in TenantIds |-> EmptyList]
    /\ pid_mappings' = [i \in Slots |-> EmptySlot]
    /\ active_tenant_count' = 0
    /\ total_process_count' = 0
    /\ tenant_shm_lock' = 0
    /\ version' = 0
    /\ Commit(Table')
    /\ Goto(c, "stamp")
    /\ UNCHANGED <<call, idx, found, reg, calls, inits>>

Stamp(c) ==
    /\ pc[c] = "stamp"
    /\ version' = 1
    /\ Goto(c, "idle")
    /\ UNCHANGED <<tableVars, tenant_shm_lock, call, idx, found, reg, calls, committed, inits>>

-----------------------------------------------------------------------------
(* tenant_shm_lock, tenant_shm_unlock and what surrounds a call's body.     *)
Enter(c) ==
    /\ pc[c] = "idle"
    /\ calls < MaxCalls
    /\ calls' = calls + 1
    /\ \E o \in Calls : call' = [call EXCEPT ![c] = o]
    /\ Goto(c, "spin")
    /\ UNCHANGED <<tableVars, tenant_shm_lock, version, idx, found, reg, committed, inits>>

(* Variant: the lock is set without a test. *)
spin_lock_blind(c) ==
    /\ pc[c] = "spin"
    /\ tenant_shm_lock' = 1
    /\ Goto(c, "check")
    /\ UNCHANGED <<tableVars, version, call, idx, found, reg, calls, committed, inits>>

spin_lock(c) ==
    /\ pc[c] = "spin"
    /\ tenant_shm_lock = 0
    /\ tenant_shm_lock' = 1
    /\ Goto(c, "check")
    /\ UNCHANGED <<tableVars, version, call, idx, found, reg, calls, committed, inits>>

spin_unlock(c) ==
    /\ pc[c] = "unlock"
    /\ tenant_shm_lock' = 0
    /\ Commit(Table)
    /\ Goto(c, "load")
    /\ UNCHANGED <<tableVars, version, call, idx, found, reg, calls, inits>>

(* version++ of tenant_shm_unlock: a load and a store, after the release.   *)
LoadVersion(c) ==
    /\ pc[c] = "load"
    /\ Goto(c, "store")
    /\ reg' = [reg EXCEPT ![c] = version]
    /\ UNCHANGED <<tableVars, tenant_shm_lock, version, call, idx, found, calls, committed, inits>>

StoreVersion(c) ==
    /\ pc[c] = "store"
    /\ version' = reg[c] + 1
    /\ Goto(c, IF call[c].f = "get_info" THEN "result" ELSE "idle")
    /\ call' = [call EXCEPT ![c] = IF call[c].f = "get_info" THEN call[c] ELSE NoCall]
    /\ reg' = [reg EXCEPT ![c] = 0]
    /\ idx' = [idx EXCEPT ![c] = IF call[c].f = "get_info" THEN idx[c] ELSE 0]
    /\ UNCHANGED <<tableVars, tenant_shm_lock, found, calls, committed, inits>>

(* tenant_get_info decides its result from the status it reads now.         *)
GetInfoResult(c) ==
    /\ pc[c] = "result"
    /\ found' = [found EXCEPT ![c] = status[call[c].t] # "INACTIVE"]
    /\ Goto(c, "returned")
    /\ UNCHANGED <<tableVars, tenant_shm_lock, version, call, idx, reg, calls, committed, inits>>

GetInfoReturn(c) ==
    /\ pc[c] = "returned"
    /\ Goto(c, "idle")
    /\ call' = [call EXCEPT ![c] = NoCall]
    /\ found' = [found EXCEPT ![c] = FALSE]
    /\ idx' = [idx EXCEPT ![c] = 0]
    /\ UNCHANGED <<tableVars, tenant_shm_lock, version, reg, calls, committed, inits>>

-----------------------------------------------------------------------------
(* The bodies.  check is the test of the tenant's status that each makes.   *)
Admitted(o) ==
    CASE o.f = "create" -> status[o.t] = "INACTIVE"
      [] o.f \in {"delete", "set_status", "update_quota"} -> status[o.t] # "INACTIVE"
      [] o.f \in {"bind", "update_usage"} -> status[o.t] = "ACTIVE"
      [] OTHER -> TRUE

AfterCheck(f) ==
    CASE f = "create" -> "clear"
      [] f = "delete" -> "sweep"
      [] f \in {"bind", "unbind"} -> "scan"
      [] f = "get_info" -> "copy"
      [] OTHER -> "fill"

(* Variant: an early return keeps the lock. *)
Check_returns_locked(c) ==
    /\ pc[c] = "check"
    /\ Goto(c, IF Admitted(call[c]) THEN AfterCheck(call[c].f) ELSE "load")
    /\ Inside
    /\ UNCHANGED <<tableVars, idx, found>>

Check(c) ==
    /\ pc[c] = "check"
    /\ Goto(c, IF Admitted(call[c]) THEN AfterCheck(call[c].f) ELSE "unlock")
    /\ Inside
    /\ UNCHANGED <<tableVars, idx, found>>

(* memcpy of the record; of it only the status matters here. *)
CopyInfo(c) ==
    /\ pc[c] = "copy"
    /\ idx' = [idx EXCEPT ![c] = IF status[call[c].t] = "INACTIVE" THEN 0 ELSE 1]
    /\ Goto(c, "unlock")
    /\ Inside
    /\ UNCHANGED <<tableVars, found>>

(* tenant_create: memset, then the fields, then the counter. *)
ClearTenant(c) ==
    LET t == call[c].t IN
    /\ pc[c] = "clear"
    /\ usage' = [usage EXCEPT ![t] = ZeroUsage]
    /\ process_count' = [process_count EXCEPT ![t] = 0]
    /\ processes' = [processes EXCEPT ![t] = EmptyList]
    /\ Goto(c, "fill")
    /\ Inside
    /\ UNCHANGED <<status, quota, pid_mappings, active_tenant_count, total_process_count, idx, found>>

FillTenant(c) ==
    LET o == call[c] IN
    /\ pc[c] = "fill"
    /\ status' = [status EXCEPT ![o.t] = CASE o.f = "create" -> "ACTIVE"
                                           [] o.f = "set_status" -> o.s
                                           [] OTHER -> status[o.t]]
    /\ quota' = [quota EXCEPT ![o.t] = IF o.f \in {"create", "update_quota"} THEN o.q ELSE quota[o.t]]
    /\ usage' = [usage EXCEPT ![o.t] = IF o.f = "update_usage" THEN o.u ELSE usage[o.t]]
    /\ Goto(c, IF o.f = "create" THEN "tally" ELSE "unlock")
    /\ Inside
    /\ UNCHANGED <<bindingVars, active_tenant_count, idx, found>>

TallyTenant(c) ==
    /\ pc[c] = "tally" /\ call[c].f = "create"
    /\ active_tenant_count' = Wrap(active_tenant_count + 1)
    /\ Goto(c, "unlock")
    /\ Inside
    /\ UNCHANGED <<tenantVars, bindingVars, idx, found>>

(* tenant_delete: the loop over pid_mappings, one slot at a time.           *)
SweepSlot(c) ==
    LET hit == pid_mappings[idx[c]].tenant_id = call[c].t IN
    /\ pc[c] = "sweep"
    /\ pid_mappings' = [pid_mappings EXCEPT ![idx[c]] = IF hit THEN EmptySlot ELSE pid_mappings[idx[c]]]
    /\ total_process_count' = IF hit THEN Wrap(total_process_count - 1) ELSE total_process_count
    /\ IF idx[c] + 1 < MaxProcesses
       THEN idx' = [idx EXCEPT ![c] = idx[c] + 1] /\ UNCHANGED pc
       ELSE idx' = [idx EXCEPT ![c] = 0] /\ Goto(c, "retire")
    /\ Inside
    /\ UNCHANGED <<tenantVars, process_count, processes, active_tenant_count, found>>

RetireTenant(c) ==
    LET t == call[c].t IN
    /\ pc[c] = "retire"
    /\ status' = [status EXCEPT ![t] = "INACTIVE"]
    /\ process_count' = [process_count EXCEPT ![t] = 0]
    /\ active_tenant_count' = Wrap(active_tenant_count - 1)
    /\ Goto(c, "unlock")
    /\ Inside
    /\ UNCHANGED <<quota, usage, processes, pid_mappings, total_process_count, idx, found>>

(* Variant: bind stops at the first empty slot. *)
Scan_first_empty(c) ==
    /\ pc[c] = "scan"
    /\ \E i \in Slots : FirstSlot(i, 0) /\ idx' = [idx EXCEPT ![c] = i]
    /\ Goto(c, IF call[c].f = "bind" THEN "tally" ELSE "unlock")
    /\ Inside
    /\ UNCHANGED <<tableVars, found>>

(* The scans of bind and unbind: a slot that has the pid, or for bind the   *)
(* first empty one, or none.                                                *)
Scan(c) ==
    LET o == call[c] IN
    /\ pc[c] = "scan"
    /\ \/ /\ ~Unmapped(o.p)
          /\ \E i \in Slots : FirstSlot(i, o.p) /\ idx' = [idx EXCEPT ![c] = i]
          /\ found' = [found EXCEPT ![c] = TRUE]
          /\ Goto(c, IF o.f = "bind" THEN "map" ELSE "list")
       \/ /\ Unmapped(o.p) /\ o.f = "bind"
          /\ \E i \in Slots : FirstSlot(i, 0) /\ idx' = [idx EXCEPT ![c] = i]
          /\ Goto(c, "tally")
          /\ UNCHANGED found
       \/ /\ Unmapped(o.p) /\ (o.f = "bind" => Unmapped(0))
          /\ Goto(c, "unlock")
          /\ UNCHANGED <<idx, found>>
    /\ Inside
    /\ UNCHANGED tableVars

TallyProcess(c) ==
    LET t == call[c].t IN
    /\ pc[c] = "tally" /\ call[c].f = "bind"
    /\ process_count' = [process_count EXCEPT ![t] = Wrap(process_count[t] + 1)]
    /\ total_process_count' = Wrap(total_process_count + 1)
    /\ Goto(c, "map")
    /\ Inside
    /\ UNCHANGED <<tenantVars, processes, pid_mappings, active_tenant_count, idx, found>>

MapSlot(c) ==
    LET o == call[c] IN
    /\ pc[c] = "map"
    /\ pid_mappings' = [pid_mappings EXCEPT ![idx[c]] =
                          IF o.f = "bind" THEN [pid |-> o.p, tenant_id |-> o.t] ELSE EmptySlot]
    /\ total_process_count' = IF o.f = "unbind" THEN Less1(total_process_count) ELSE total_process_count
    /\ Goto(c, IF o.f = "bind" /\ ~found[c] THEN "list" ELSE "unlock")
    /\ idx' = [idx EXCEPT ![c] = 0]
    /\ found' = [found EXCEPT ![c] = FALSE]
    /\ Inside
    /\ UNCHANGED <<tenantVars, process_count, processes, active_tenant_count>>

ListProcess(c) ==
    LET o == call[c]
        t == IF o.f = "bind" THEN o.t ELSE pid_mappings[idx[c]].tenant_id IN
    /\ pc[c] = "list"
    /\ IF o.f = "bind" THEN ReplaceFirst(t, 0, o.p) ELSE ReplaceFirst(t, o.p, 0)
    /\ process_count' = [process_count EXCEPT ![t] =
                           IF o.f = "bind" THEN process_count[t] ELSE Less1(process_count[t])]
    /\ Goto(c, IF o.f = "bind" THEN "unlock" ELSE "map")
    /\ Inside
    /\ UNCHANGED <<tenantVars, pid_mappings, active_tenant_count, total_process_count, idx, found>>

(* A client that is killed stays where it is for ever; the lock with it.    *)
Crash(c) ==
    /\ MayCrash
    /\ pc[c] \notin {"detached", "dead"}
    /\ Goto(c, "dead")
    /\ UNCHANGED <<tableVars, tenant_shm_lock, version, call, idx, found, reg, calls, committed, inits>>

-----------------------------------------------------------------------------
Body(c) ==
    \/ Check(c) \/ CopyInfo(c)
    \/ ClearTenant(c) \/ FillTenant(c) \/ TallyTenant(c)
    \/ SweepSlot(c) \/ RetireTenant(c)
    \/ Scan(c) \/ TallyProcess(c) \/ MapSlot(c) \/ ListProcess(c)

(* What a client that is running does next; only Enter is its own choice.   *)
Step(c) ==
    \/ Attach(c) \/ Wipe(c) \/ Stamp(c)
    \/ spin_lock(c) \/ Body(c) \/ spin_unlock(c)
    \/ LoadVersion(c) \/ StoreVersion(c) \/ GetInfoResult(c) \/ GetInfoReturn(c)

SyncNext == \E c \in Clients : Step(c) \/ Enter(c) \/ Crash(c)

(* A thread that can run is eventually scheduled.  Nothing makes the race   *)
(* for the lock fair between threads.                                       *)
SyncSpec == SyncInit /\ [][SyncNext]_syncVars /\ \A c \in Clients : WF_syncVars(Step(c))

-----------------------------------------------------------------------------
BodyLabels == {"check", "copy", "clear", "fill", "tally", "sweep", "retire",
               "scan", "map", "list", "unlock"}
Labels == BodyLabels \cup {"detached", "wipe", "stamp", "idle", "spin", "load", "store",
                           "result", "returned", "dead"}
InSection(c) == pc[c] \in BodyLabels

(* The synchronisation state has the shape the code gives it. *)
SyncTypeOK ==
    /\ version \in Nat /\ inits \in Nat
    /\ reg \in [Clients -> Nat]
    /\ pc \in [Clients -> Labels]

(* spin_lock lets one client at a time into the body of an API call, and    *)
(* the lock word is set while anybody is in one.                            *)
MutualExclusion ==
    /\ \A c, d \in Clients : InSection(c) /\ InSection(d) => c = d
    /\ \A c \in Clients : InSection(c) => tenant_shm_lock = 1

(* While the lock is free the table is the one the last call left: nobody   *)
(* writes it outside the lock.                                              *)
QuiescentWhenFree == tenant_shm_lock = 0 => Table = committed

(* The section is sound: the lock excludes, and what it leaves is whole, as *)
(* long as one client alone initialised the region.                         *)
SectionSound == SyncTypeOK /\ (Sole => MutualExclusion /\ QuiescentWhenFree)

(* Every API call takes effect as a whole when it releases the lock: the    *)
(* table between calls behaves as the one-step table of TenantShm, scans,   *)
(* loops and several writes notwithstanding, as long as one client alone    *)
(* initialised the region.                                                  *)
Atomic == INSTANCE TenantShm WITH
    status <- committed.status, quota <- committed.quota, usage <- committed.usage,
    process_count <- committed.process_count, processes <- committed.processes,
    pid_mappings <- committed.pid_mappings,
    active_tenant_count <- committed.active_tenant_count,
    total_process_count <- committed.total_process_count
ImplementsTable == Atomic!TableSpec

(* As long as nobody is killed the lock becomes free again and again, so a  *)
(* waiter keeps getting its chance, even if the region is cleared under it. *)
LockKeepsBecomingFree == []<>(tenant_shm_lock = 0 \/ \E c \in Clients : pc[c] = "dead")
=============================================================================
