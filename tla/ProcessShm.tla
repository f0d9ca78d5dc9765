------------------------------ MODULE ProcessShm ------------------------------
(***************************************************************************)
(* The process statistics region (shm/shared_memory.c): slots that map a   *)
(* pid to its usage, under a spin lock for writers and without it for      *)
(* readers, and initialised by every client that finds the global counts   *)
(* at zero.  The fields of a record are plain memory: a writer stores and  *)
(* a reader loads them one at a time, in any order.                        *)
(***************************************************************************)
EXTENDS Naturals, FiniteSets

CONSTANTS
    MaxProcesses, Pids, Fields, Usages, Limits, DefaultLimits,
    Clients,        \* processes that attach: collector, policy tools, hooked applications
    MaxCalls        \* bound: calls made in a behaviour

VARIABLES
    process_pids, process_stats,    \* the slots
    global_stats, max_global,       \* the global record and limits
    shm_lock, version,
    pc, call,                       \* where each client is, and in which call
    slot, todo,                     \* its slot or loop index; fields it has yet to copy
    got,                            \* what a reader has copied so far
    calls,                          \* calls made so far
    committed,                      \* auxiliary: the region when the lock was last released
    inits,                          \* auxiliary: initialisations begun
    published                       \* auxiliary: what each process ever reported

regionVars == <<process_pids, process_stats, global_stats, max_global>>
clientVars == <<pc, call, slot, todo, got>>
procVars   == <<regionVars, shm_lock, version, clientVars, calls, committed, inits, published>>

Slots == 0..(MaxProcesses - 1)
Abstract == INSTANCE ProcessRecords WITH
    records <- committed.records, global <- committed.global,
    limits <- committed.limits, version <- committed.version
Zero     == Abstract!Zero
NoRecord == Abstract!NoRecord

ASSUME ProcAssumption ==
    /\ MaxProcesses \in Nat \ {0} /\ MaxCalls \in Nat
    /\ 0 \notin Pids
    /\ Fields # {}
    /\ Usages \subseteq Abstract!Usage /\ Limits \subseteq Abstract!Usage
    /\ DefaultLimits \in Abstract!Usage

Writes ==    [f : {"process"}, p : Pids, u : Usages]
        \cup [f : {"global"}, u : Usages]
        \cup [f : {"limits"}, u : Limits]
Reads  ==    [f : {"get_process"}, p : Pids] \cup [f : {"get_global"}]
NoCall == [f |-> "none"]

(* The slot of p, as a scan from the front finds it. *)
HasSlot(p) == \E i \in Slots : process_pids[i] = p
FirstSlot(i, p) == process_pids[i] = p /\ \A j \in 0..(i - 1) : process_pids[j] # p

Region == [records |-> [p \in Pids |-> IF HasSlot(p)
                                       THEN process_stats[CHOOSE i \in Slots : FirstSlot(i, p)]
                                       ELSE NoRecord],
           global |-> global_stats, limits |-> max_global, version |-> version]

ProcInit ==
    /\ process_pids = [i \in Slots |-> 0]
    /\ process_stats = [i \in Slots |-> Zero]
    /\ global_stats = Zero /\ max_global = Zero
    /\ shm_lock = 0 /\ version = 0
    /\ pc = [c \in Clients |-> "detached"]
    /\ call = [c \in Clients |-> NoCall]
    /\ slot = [c \in Clients |-> 0]
    /\ todo = [c \in Clients |-> {}]
    /\ got = [c \in Clients |-> Zero]
    /\ calls = 0
    /\ committed = Region
    /\ inits = 0
    /\ published = [p \in Pids |-> {}]

Goto(c, l) == pc' = [pc EXCEPT ![c] = l]

(* One client at most has taken the region for a new one.  Once another has *)
(* (both tested the counts before any were stored, or none were since), the *)
(* records may be cleared under their writers, and what was committed is    *)
(* not followed any longer.                                                 *)
Sole == inits <= 1
Commit(region) == committed' = IF Sole THEN region ELSE committed

-----------------------------------------------------------------------------
(* shm_init: without the lock, the global counts, slot by slot, the rest.   *)
Attach(c) ==
    /\ pc[c] = "detached"
    /\ Goto(c, IF global_stats = Zero THEN "clear" ELSE "idle")
    /\ inits' = IF global_stats = Zero THEN inits + 1 ELSE inits
    /\ UNCHANGED <<regionVars, shm_lock, version, call, slot, todo, got, calls, committed, published>>

ClearGlobal(c) ==
    /\ pc[c] = "clear"
    /\ global_stats' = Zero
    /\ Goto(c, "reset")
    /\ UNCHANGED <<process_pids, process_stats, max_global, shm_lock, version, call, slot, todo, got,
                   calls, committed, inits, published>>

ResetSlot(c) ==
    /\ pc[c] = "reset"
    /\ process_stats' = [process_stats EXCEPT ![slot[c]] = Zero]
    /\ process_pids' = [process_pids EXCEPT ![slot[c]] = 0]
    /\ IF slot[c] + 1 < MaxProcesses
       THEN slot' = [slot EXCEPT ![c] = slot[c] + 1] /\ UNCHANGED pc
       ELSE slot' = [slot EXCEPT ![c] = 0] /\ Goto(c, "stamp")
    /\ UNCHANGED <<global_stats, max_global, shm_lock, version, call, todo, got, calls, committed, inits,
                   published>>

Stamp(c) ==
    /\ pc[c] = "stamp"
    /\ max_global' = DefaultLimits
    /\ shm_lock' = 0
    /\ version' = 1
    /\ Goto(c, "idle")
    /\ UNCHANGED <<process_pids, process_stats, global_stats, call, slot, todo, got, calls, inits,
                   published>>
    /\ Commit(Region')

-----------------------------------------------------------------------------
(* shm_update_process_resources, shm_update_global_resources and            *)
(* shm_set_global_limits.                                                   *)
EnterWrite(c) ==
    /\ pc[c] = "idle" /\ calls < MaxCalls
    /\ calls' = calls + 1
    /\ \E w \in Writes : call' = [call EXCEPT ![c] = w]
    /\ Goto(c, "spin")
    /\ UNCHANGED <<regionVars, shm_lock, version, slot, todo, got, committed, inits, published>>

Lock(c) ==
    /\ pc[c] = "spin"
    /\ shm_lock = 0
    /\ shm_lock' = 1
    /\ Goto(c, IF call[c].f = "process" THEN "scan" ELSE "write")
    /\ todo' = [todo EXCEPT ![c] = Fields]
    /\ UNCHANGED <<regionVars, version, call, slot, got, calls, committed, inits, published>>

(* Variants of the scan: it prefers an empty slot to the process's own, or  *)
(* it evicts the first record when all slots are taken.                     *)
Scan_prefers_empty(c) ==
    LET p == call[c].p
        Take(q, l) == \E i \in Slots : FirstSlot(i, q) /\ slot' = [slot EXCEPT ![c] = i] /\ Goto(c, l)
    IN
    /\ pc[c] = "scan"
    /\ Take(0, "claim") \/ (~HasSlot(0) /\ Take(p, "write"))
    /\ UNCHANGED <<regionVars, shm_lock, version, call, todo, got, calls, committed, inits, published>>

Scan_evicts(c) ==
    LET p == call[c].p
        Take(q, l) == \E i \in Slots : FirstSlot(i, q) /\ slot' = [slot EXCEPT ![c] = i] /\ Goto(c, l)
    IN
    /\ pc[c] = "scan"
    /\ \/ Take(p, "write")
       \/ ~HasSlot(p) /\ Take(0, "claim")
       \/ ~HasSlot(p) /\ ~HasSlot(0) /\ Goto(c, "claim") /\ UNCHANGED slot
    /\ UNCHANGED <<regionVars, shm_lock, version, call, todo, got, calls, committed, inits, published>>

(* Variant: the failure returns without releasing the lock. *)
Scan_keeps_lock(c) ==
    LET p == call[c].p
        Take(q, l) == \E i \in Slots : FirstSlot(i, q) /\ slot' = [slot EXCEPT ![c] = i] /\ Goto(c, l)
    IN
    /\ pc[c] = "scan"
    /\ \/ Take(p, "write") /\ UNCHANGED <<call, todo>>
       \/ ~HasSlot(p) /\ Take(0, "claim") /\ UNCHANGED <<call, todo>>
       \/ /\ ~HasSlot(p) /\ ~HasSlot(0)
          /\ Goto(c, "idle")
          /\ todo' = [todo EXCEPT ![c] = {}]
          /\ call' = [call EXCEPT ![c] = NoCall]
          /\ UNCHANGED slot
    /\ UNCHANGED <<regionVars, shm_lock, version, got, calls, committed, inits, published>>

(* The entry of the process, else the first empty one, else failure.        *)
Scan(c) ==
    LET p == call[c].p
        Take(q, l) == \E i \in Slots : FirstSlot(i, q) /\ slot' = [slot EXCEPT ![c] = i] /\ Goto(c, l)
    IN
    /\ pc[c] = "scan"
    /\ \/ Take(p, "write") /\ UNCHANGED todo
       \/ ~HasSlot(p) /\ Take(0, "claim") /\ UNCHANGED todo
       \/ /\ ~HasSlot(p) /\ ~HasSlot(0)
          /\ Goto(c, "unlock")
          /\ todo' = [todo EXCEPT ![c] = {}]
          /\ UNCHANGED slot
    /\ UNCHANGED <<regionVars, shm_lock, version, call, got, calls, committed, inits, published>>

Claim(c) ==
    /\ pc[c] = "claim"
    /\ process_pids' = [process_pids EXCEPT ![slot[c]] = call[c].p]
    /\ Goto(c, "write")
    /\ UNCHANGED <<process_stats, global_stats, max_global, shm_lock, version, call, slot, todo, got,
                   calls, committed, inits, published>>

(* Variant: only part of the record is stored. *)
WriteField_one(c) ==
    LET o == call[c]
        Store(v, f) == [v EXCEPT ![f] = o.u[f]] IN
    /\ pc[c] = "write"
    /\ \E f \in todo[c] :
         /\ todo' = [todo EXCEPT ![c] = {}]
         /\ process_stats' = [process_stats EXCEPT ![slot[c]] = IF o.f = "process" THEN Store(@, f) ELSE @]
         /\ global_stats' = IF o.f = "global" THEN Store(global_stats, f) ELSE global_stats
         /\ max_global' = IF o.f = "limits" THEN Store(max_global, f) ELSE max_global
         /\ Goto(c, IF o.f = "limits" THEN "unlock" ELSE "bump")
    /\ published' = IF o.f = "process" THEN [published EXCEPT ![o.p] = @ \cup {o.u}] ELSE published
    /\ UNCHANGED <<process_pids, shm_lock, version, call, slot, got, calls, committed, inits>>

WriteField(c) ==
    LET o == call[c]
        Store(v, f) == [v EXCEPT ![f] = o.u[f]] IN
    /\ pc[c] = "write"
    /\ \E f \in todo[c] :
         /\ todo' = [todo EXCEPT ![c] = @ \ {f}]
         /\ process_stats' = [process_stats EXCEPT ![slot[c]] = IF o.f = "process" THEN Store(@, f) ELSE @]
         /\ global_stats' = IF o.f = "global" THEN Store(global_stats, f) ELSE global_stats
         /\ max_global' = IF o.f = "limits" THEN Store(max_global, f) ELSE max_global
         /\ Goto(c, IF todo'[c] # {} THEN "write" ELSE IF o.f = "limits" THEN "unlock" ELSE "bump")
    /\ published' = IF o.f = "process" THEN [published EXCEPT ![o.p] = @ \cup {o.u}] ELSE published
    /\ UNCHANGED <<process_pids, shm_lock, version, call, slot, got, calls, committed, inits>>

Bump(c) ==
    /\ pc[c] = "bump"
    /\ version' = version + 1
    /\ Goto(c, "unlock")
    /\ UNCHANGED <<regionVars, shm_lock, call, slot, todo, got, calls, committed, inits, published>>

Unlock(c) ==
    /\ pc[c] = "unlock"
    /\ shm_lock' = 0
    /\ Commit(Region)
    /\ call' = [call EXCEPT ![c] = NoCall]
    /\ slot' = [slot EXCEPT ![c] = 0]
    /\ Goto(c, "idle")
    /\ UNCHANGED <<regionVars, version, todo, got, calls, inits, published>>

-----------------------------------------------------------------------------
(* shm_get_process_resources and shm_get_global_resources take no lock.     *)
EnterRead(c) ==
    /\ pc[c] = "idle" /\ calls < MaxCalls
    /\ calls' = calls + 1
    /\ \E r \in Reads :
         /\ call' = [call EXCEPT ![c] = r]
         /\ Goto(c, IF r.f = "get_process" THEN "find" ELSE "read")
         /\ todo' = [todo EXCEPT ![c] = IF r.f = "get_process" THEN {} ELSE Fields]
    /\ UNCHANGED <<regionVars, shm_lock, version, slot, got, committed, inits, published>>

Find(c) ==
    LET p == call[c].p IN
    /\ pc[c] = "find"
    /\ \/ /\ \E i \in Slots : FirstSlot(i, p) /\ slot' = [slot EXCEPT ![c] = i]
          /\ Goto(c, "read")
          /\ todo' = [todo EXCEPT ![c] = Fields]
       \/ ~HasSlot(p) /\ Goto(c, "done") /\ UNCHANGED <<slot, todo>>
    /\ UNCHANGED <<regionVars, shm_lock, version, call, got, calls, committed, inits, published>>

ReadField(c) ==
    LET from == IF call[c].f = "get_process" THEN process_stats[slot[c]] ELSE global_stats IN
    /\ pc[c] = "read"
    /\ \E f \in todo[c] :
         /\ got' = [got EXCEPT ![c][f] = from[f]]
         /\ todo' = [todo EXCEPT ![c] = @ \ {f}]
    /\ Goto(c, IF todo'[c] = {} THEN "done" ELSE "read")
    /\ UNCHANGED <<regionVars, shm_lock, version, call, slot, calls, committed, inits, published>>

ReturnRead(c) ==
    /\ pc[c] = "done"
    /\ got' = [got EXCEPT ![c] = Zero]
    /\ call' = [call EXCEPT ![c] = NoCall]
    /\ slot' = [slot EXCEPT ![c] = 0]
    /\ Goto(c, "idle")
    /\ UNCHANGED <<regionVars, shm_lock, version, todo, calls, committed, inits, published>>

-----------------------------------------------------------------------------
Step(c) ==
    \/ Attach(c) \/ ClearGlobal(c) \/ ResetSlot(c) \/ Stamp(c)
    \/ EnterWrite(c) \/ Lock(c) \/ Scan(c) \/ Claim(c) \/ WriteField(c) \/ Bump(c) \/ Unlock(c)
    \/ EnterRead(c) \/ Find(c) \/ ReadField(c) \/ ReturnRead(c)

ProcNext == \E c \in Clients : Step(c)
ProcSpec == ProcInit /\ [][ProcNext]_procVars

-----------------------------------------------------------------------------
SectionLabels == {"scan", "claim", "write", "bump", "unlock"}
Labels == SectionLabels \cup {"detached", "clear", "reset", "stamp", "idle", "spin", "find", "read", "done"}

(* The writers' lock lets one of them at a time change the region.          *)
OneWriter ==
    \A c, d \in Clients : pc[c] \in SectionLabels /\ pc[d] \in SectionLabels => c = d

(* The region and its clients have the shape the code gives them.           *)
ProcTypeOK ==
    /\ process_pids \in [Slots -> Pids \cup {0}]
    /\ process_stats \in [Slots -> Abstract!Usage]
    /\ global_stats \in Abstract!Usage /\ max_global \in Abstract!Usage
    /\ shm_lock \in {0, 1} /\ version \in Nat
    /\ pc \in [Clients -> Labels]
    /\ call \in [Clients -> Writes \cup Reads \cup {NoCall}]
    /\ slot \in [Clients -> Slots]
    /\ todo \in [Clients -> SUBSET Fields]
    /\ inits \in Nat
    /\ got \in [Clients -> Abstract!Usage]

(* One writer at a time is inside the lock and a process has at most one    *)
(* slot, so a scan that stops at the first finds its record, as long as one *)
(* client alone initialised the region.                                     *)
OneSlotPerProcess ==
    /\ ProcTypeOK
    /\ Sole =>
        /\ OneWriter
        /\ \A i, j \in Slots : process_pids[i] = process_pids[j] /\ process_pids[i] # 0 => i = j

(* With its scans and field-wise stores the region is the set of whole      *)
(* records of ProcessRecords, as long as one client alone initialised it.   *)
ImplementsRecords == Abstract!RecordsSpec

(* A reader that found the slot of a process and loads its fields without   *)
(* the lock may mix two reports of that process, but never sees a count of  *)
(* another one: a slot is never given to somebody else, unless a second     *)
(* client cleared the region.                                               *)
ReadsOwnRecord ==
    Sole => \A c \in Clients : pc[c] = "done" /\ call[c].f = "get_process" =>
        \A f \in Fields : got[c][f] \in {0} \cup {u[f] : u \in published[call[c].p]}
=============================================================================
