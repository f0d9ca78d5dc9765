-------------------------- MODULE ProcessShm_proofs --------------------------
(***************************************************************************)
(* Proofs about the process statistics region and the collector that fills *)
(* it, for any number of slots, processes, fields and clients.  The         *)
(* invariant holds as long as one client alone has initialised the region   *)
(* (Sole): a second one clears what the first one's callers have written    *)
(* since.  Types, and that what was committed is not followed any longer,   *)
(* hold beyond that.                                                        *)
(***************************************************************************)
EXTENDS ShmCollector, FiniteSetTheorems, TLAPS

Starting == {"clear", "reset", "stamp"}         \* inside shm_init's initialisation
Outside == Starting \cup {"detached"}           \* not past shm_init yet
Pristine ==
    /\ process_pids = [i \in Slots |-> 0] /\ process_stats = [i \in Slots |-> Zero]
    /\ global_stats = Zero /\ max_global = Zero /\ shm_lock = 0
    /\ published = [p \in Pids |-> {}]

(* Until the version is set the region is zero and nobody is past shm_init; *)
(* one client clears it, before that.                                       *)
ResetAlone ==
    /\ version = 0 => Pristine /\ \A c \in Clients : pc[c] \in Outside
    /\ \A c \in Clients : pc[c] \in Starting => version = 0
    /\ \A c, d \in Clients : pc[c] \in Starting /\ pc[d] \in Starting => c = d
    /\ inits = 0 => version = 0 /\ \A c \in Clients : pc[c] \notin Starting

(* The lock word tells whether somebody is inside. *)
LockTells == shm_lock = 0 => \A c \in Clients : pc[c] \notin SectionLabels

(* What a field of p's record may hold: zero, or what p ever reported in it. *)
Possible(p, f) == {0} \cup {u[f] : u \in published[p]}

(* A slot belongs to one process for good and holds what that one reported. *)
SlotsOwned ==
    /\ \A i, j \in Slots : process_pids[i] = process_pids[j] /\ process_pids[i] # 0 => i = j
    /\ \A i \in Slots : process_pids[i] = 0 => process_stats[i] = Zero
    /\ \A i \in Slots : process_pids[i] # 0 =>
         \A f \in Fields : process_stats[i][f] \in Possible(process_pids[i], f)

(* A writer claims a slot that is free for a process that has none, and     *)
(* stores into the slot of its process.                                     *)
WriterOK(c) ==
    /\ pc[c] \in SectionLabels \cup {"spin"} => call[c] \in Writes
    /\ pc[c] \in {"scan", "claim"} => call[c].f = "process"
    /\ pc[c] = "claim" => process_pids[slot[c]] = 0 /\ ~HasSlot(call[c].p)
    /\ pc[c] = "write" /\ call[c].f = "process" => process_pids[slot[c]] = call[c].p

(* A reader loads from the slot of the process it asks for. *)
ReaderOK(c) ==
    /\ pc[c] \in {"find", "read", "done"} => call[c] \in Reads
    /\ pc[c] = "find" => call[c].f = "get_process"
    /\ pc[c] = "read" /\ call[c].f = "get_process" => process_pids[slot[c]] = call[c].p
    /\ pc[c] \in {"read", "done"} /\ call[c].f = "get_process" =>
         \A f \in Fields : got[c][f] \in Possible(call[c].p, f)
    /\ pc[c] \notin {"read", "done"} => got[c] = Zero

Typed == ProcTypeOK /\ OneWriter

RegionInv ==
    /\ Typed /\ published \in [Pids -> SUBSET Usages]
    /\ ResetAlone /\ LockTells /\ SlotsOwned
    /\ \A c \in Clients : WriterOK(c) /\ ReaderOK(c)

(* The kernel counts what callers might have passed. *)
KernelTyped ==
    kernel \in [global : Usages \cup {NoRecord}, process : [Pids -> Usages \cup {NoRecord}]]

(* Where the collector is in the region. *)
CollectorAt ==
    /\ cpc \in {"down", "init", "open", "loop", "global", "next", "lookup", "sleep", "exit"}
    /\ cpc # "down" => deployed
    /\ deployed /\ cpc = "down" => pc[Service] = "detached"
    /\ cpc = "init" => pc[Service] \in Outside \cup {"idle"}
    /\ cpc \in {"open", "next"} => pc[Service] \in SectionLabels \cup {"spin", "idle"}
    /\ cpc \in {"loop", "global", "lookup", "sleep", "exit"} => pc[Service] = "idle"
    /\ deployed => \A c \in Clients \ {Service} : call[c].f # "global"
    /\ KernelTyped

CollectorInv == RegionInv /\ CollectorAt

-----------------------------------------------------------------------------
(* What the two kinds of call carry. *)
LEMMA CallFields ==
    /\ \A w \in Writes :
         /\ w.f \in {"process", "global", "limits"}
         /\ w.f = "process" => w.p \in Pids /\ w.u \in Usages
         /\ w.f = "global" => w.u \in Usages
         /\ w.f = "limits" => w.u \in Limits
    /\ \A r \in Reads :
         /\ r.f \in {"get_process", "get_global"}
         /\ r.f = "get_process" => r.p \in Pids
  BY DEF Writes, Reads

LEMMA ZeroUsage == Zero \in Abstract!Usage /\ \A f \in Fields : Zero[f] = 0
  BY DEF Zero, Abstract!Zero, Abstract!Usage

LEMMA ProcInitInv == ProcInit => RegionInv
<1> SUFFICES ASSUME ProcInit PROVE RegionInv
  OBVIOUS
<1>1. 0 \in Slots
  BY ProcAssumption DEF Slots
<1>2. Typed
  BY <1>1, ZeroUsage DEF ProcInit, Typed, ProcTypeOK, OneWriter, SectionLabels, Labels
<1>3. published \in [Pids -> SUBSET Usages]
  BY DEF ProcInit
<1>4. ResetAlone /\ LockTells
  BY DEF Starting, ProcInit, ResetAlone, Pristine, Outside, LockTells, SectionLabels
<1>5. SlotsOwned
  BY DEF ProcInit, SlotsOwned
<1>6. \A c \in Clients : WriterOK(c) /\ ReaderOK(c)
  BY DEF ProcInit, WriterOK, ReaderOK, SectionLabels
<1>7. QED
  BY <1>2, <1>3, <1>4, <1>5, <1>6 DEF RegionInv

(* A client that a step leaves where it is, in a region whose slots keep    *)
(* their owners and whose processes have reported no less.                  *)
LEMMA ClientFrame ==
    ASSUME RegionInv, NEW d \in Clients,
           pc'[d] = pc[d], call'[d] = call[d], slot'[d] = slot[d], got'[d] = got[d],
           \A i \in Slots : process_pids[i] # 0 => process_pids'[i] = process_pids[i],
           \A p \in Pids : published[p] \subseteq published'[p],
           process_pids' = process_pids \/ pc[d] \notin SectionLabels
    PROVE  WriterOK(d)' /\ ReaderOK(d)'
<1>1. WriterOK(d) /\ ReaderOK(d) /\ slot[d] \in Slots
  BY DEF RegionInv, Typed, ProcTypeOK
<1>2. WriterOK(d)'
  <2>1. CASE process_pids' = process_pids
    BY <1>1, <2>1 DEF WriterOK, HasSlot
  <2>2. CASE pc[d] \notin SectionLabels
    BY <1>1, <2>2 DEF WriterOK, SectionLabels
  <2>3. QED
    BY <2>1, <2>2
<1>3. ReaderOK(d)'
  <2>1. pc[d] \in {"read", "done"} /\ call[d].f = "get_process" => call[d].p \in Pids
    BY <1>1, CallFields DEF ReaderOK
  <2>2. pc[d] = "read" /\ call[d].f = "get_process" => process_pids'[slot[d]] = call[d].p
    BY <1>1, <2>1, ProcAssumption DEF ReaderOK
  <2>3. \A p \in Pids, f \in Fields : Possible(p, f) \subseteq Possible(p, f)'
    BY DEF Possible
  <2>4. QED
    BY <1>1, <2>1, <2>2, <2>3 DEF ReaderOK
<1>4. QED
  BY <1>2, <1>3

(* A step of c that leaves the region alone: its lock is for others as it   *)
(* was, and only c has moved.                                               *)
LEMMA QuietRegion ==
    ASSUME RegionInv, NEW c \in Clients,
           UNCHANGED <<regionVars, shm_lock, version, inits, published>>,
           \A d \in Clients \ {c} : pc'[d] = pc[d] /\ call'[d] = call[d] /\ slot'[d] = slot[d]
                                    /\ got'[d] = got[d],
           pc'[c] \in SectionLabels => pc[c] \in SectionLabels,
           pc'[c] \in Starting => pc[c] \in Starting,
           version = 0 => pc'[c] \in Outside,
           Typed', WriterOK(c)', ReaderOK(c)'
    PROVE  RegionInv'
<1>1. SlotsOwned'
  BY DEF RegionInv, SlotsOwned, Possible, regionVars
<1>2. ResetAlone'
  BY DEF Starting, RegionInv, ResetAlone, Pristine, regionVars
<1>3. LockTells'
  BY DEF RegionInv, LockTells
<1>4. \A d \in Clients \ {c} : WriterOK(d)' /\ ReaderOK(d)'
  BY ClientFrame DEF regionVars
<1>5. QED
  BY <1>1, <1>2, <1>3, <1>4 DEF RegionInv

-----------------------------------------------------------------------------
(* shm_init.  The first client to find the region new clears it, before     *)
(* anybody else is past shm_init.                                           *)
LEMMA AttachInv ==
    ASSUME RegionInv, NEW c \in Clients, Attach(c), Sole'
    PROVE  RegionInv'
<1> USE DEF Attach, Goto
<1>1. Typed'
  BY DEF RegionInv, Typed, ProcTypeOK, OneWriter, SectionLabels, Labels, regionVars
<1>2. version = 0 => global_stats = Zero
  BY DEF Starting, RegionInv, ResetAlone, Pristine
<1>3. ResetAlone'
  <2>1. inits \in Nat /\ pc \in [Clients -> Labels]
    BY DEF RegionInv, Typed, ProcTypeOK
  <2>2. UNCHANGED <<process_pids, process_stats, global_stats, max_global, shm_lock, version, published>>
    BY DEF regionVars
  <2>3. CASE global_stats = Zero
    <3>1. inits = 0 /\ inits' = 1
      BY <2>1, <2>3 DEF Sole
    <3>2. QED
      BY <2>1, <2>2, <2>3, <3>1 DEF RegionInv, ResetAlone, Pristine, Starting, Outside
  <2>4. CASE global_stats # Zero
    BY <1>2, <2>1, <2>2, <2>4 DEF RegionInv, ResetAlone, Pristine, Starting, Outside
  <2>5. QED
    BY <2>3, <2>4
<1>4. LockTells' /\ SlotsOwned'
  BY DEF RegionInv, LockTells, SlotsOwned, Possible, regionVars, SectionLabels, Typed, ProcTypeOK
<1>5. \A d \in Clients \ {c} : WriterOK(d)' /\ ReaderOK(d)'
  BY ClientFrame DEF regionVars, RegionInv, Typed, ProcTypeOK
<1>6. WriterOK(c)' /\ ReaderOK(c)'
  BY DEF WriterOK, ReaderOK, SectionLabels, RegionInv, Typed, ProcTypeOK
<1>7. QED
  BY <1>1, <1>3, <1>4, <1>5, <1>6 DEF RegionInv

LEMMA ClearGlobalInv ==
    ASSUME RegionInv, NEW c \in Clients, ClearGlobal(c)
    PROVE  RegionInv' /\ UNCHANGED global_stats
<1> USE DEF ClearGlobal, Goto
<1>1. version = 0 /\ Pristine
  BY DEF RegionInv, ResetAlone, Starting
<1>2. UNCHANGED global_stats
  BY <1>1 DEF Pristine
<1>3. Typed'
  BY <1>2 DEF RegionInv, Typed, ProcTypeOK, OneWriter, SectionLabels, Labels
<1>4. WriterOK(c)' /\ ReaderOK(c)'
  BY DEF WriterOK, ReaderOK, SectionLabels, RegionInv, Typed, ProcTypeOK
<1>5. QED
  BY <1>1, <1>2, <1>3, <1>4, QuietRegion
     DEF RegionInv, Typed, ProcTypeOK, SectionLabels, Starting, Outside, regionVars

LEMMA ResetSlotInv ==
    ASSUME RegionInv, NEW c \in Clients, ResetSlot(c)
    PROVE  RegionInv' /\ UNCHANGED <<process_pids, process_stats>>
<1> USE DEF ResetSlot, Goto
<1>1. version = 0 /\ Pristine
  BY DEF RegionInv, ResetAlone, Starting
<1>2. UNCHANGED <<process_pids, process_stats>>
  BY <1>1 DEF Pristine
<1>3. slot' \in [Clients -> Slots]
  <2>1. slot \in [Clients -> Slots] /\ slot[c] \in Slots
    BY DEF RegionInv, Typed, ProcTypeOK
  <2>2. 0 \in Slots /\ (slot[c] + 1 < MaxProcesses => slot[c] + 1 \in Slots)
    BY <2>1, ProcAssumption DEF Slots
  <2>3. PICK i \in Slots : slot' = [slot EXCEPT ![c] = i]
    BY <2>2
  <2>4. QED
    BY <2>1, <2>3
<1>4. Typed'
  BY <1>2, <1>3 DEF RegionInv, Typed, ProcTypeOK, OneWriter, SectionLabels, Labels
<1>5. ResetAlone'
  <2>1. pc[c] \in Starting /\ pc'[c] \in Starting /\ \A d \in Clients \ {c} : pc'[d] = pc[d]
    BY DEF RegionInv, Typed, ProcTypeOK, Starting
  <2>2. UNCHANGED <<global_stats, max_global, shm_lock, published, version, inits>>
    OBVIOUS
  <2>3. Pristine'
    BY <1>1, <1>2, <2>2 DEF Pristine
  <2>4. QED
    BY <1>1, <2>1, <2>2, <2>3 DEF RegionInv, ResetAlone, Starting, Outside
<1>6. LockTells' /\ SlotsOwned'
  BY <1>2 DEF RegionInv, LockTells, SlotsOwned, Possible, SectionLabels, Typed, ProcTypeOK
<1>7. \A d \in Clients \ {c} : WriterOK(d)' /\ ReaderOK(d)'
  BY <1>2, ClientFrame DEF RegionInv, Typed, ProcTypeOK
<1>8. WriterOK(c)' /\ ReaderOK(c)'
  BY DEF WriterOK, ReaderOK, SectionLabels, RegionInv, Typed, ProcTypeOK
<1>9. QED
  BY <1>2, <1>4, <1>5, <1>6, <1>7, <1>8 DEF RegionInv

LEMMA StampInv ==
    ASSUME RegionInv, NEW c \in Clients, Stamp(c)
    PROVE  RegionInv'
<1> USE DEF Stamp, Goto
<1>1. version = 0 /\ inits # 0 /\ \A d \in Clients : pc[d] \in Outside
  BY DEF RegionInv, ResetAlone, Starting
<1>2. \A d \in Clients \ {c} : pc[d] = "detached"
  BY <1>1 DEF RegionInv, ResetAlone, Starting, Outside
<1>3. Typed'
  BY ProcAssumption DEF RegionInv, Typed, ProcTypeOK, OneWriter, SectionLabels, Labels
<1>4. ResetAlone' /\ LockTells'
  BY <1>1, <1>2 DEF RegionInv, ResetAlone, Starting, LockTells, SectionLabels, Typed, ProcTypeOK
<1>5. SlotsOwned'
  BY DEF RegionInv, SlotsOwned, Possible
<1>6. \A d \in Clients \ {c} : WriterOK(d)' /\ ReaderOK(d)'
  BY ClientFrame DEF RegionInv, Typed, ProcTypeOK
<1>7. WriterOK(c)' /\ ReaderOK(c)'
  BY DEF WriterOK, ReaderOK, SectionLabels, RegionInv, Typed, ProcTypeOK
<1>8. QED
  BY <1>3, <1>4, <1>5, <1>6, <1>7 DEF RegionInv

-----------------------------------------------------------------------------
(* A call begins: no client of the region notices. *)
LEMMA BeginsWrite ==
    ASSUME RegionInv, NEW c \in Clients, NEW w \in Writes, pc[c] = "idle",
           call' = [call EXCEPT ![c] = w], Goto(c, "spin"),
           UNCHANGED <<regionVars, shm_lock, version, slot, todo, got, inits, published>>
    PROVE  RegionInv'
<1> USE DEF Goto
<1>1. Typed'
  BY DEF RegionInv, Typed, ProcTypeOK, OneWriter, SectionLabels, Labels, regionVars
<1>2. WriterOK(c)' /\ ReaderOK(c)'
  BY DEF RegionInv, Typed, ProcTypeOK, WriterOK, ReaderOK, SectionLabels
<1>3. version # 0
  BY DEF RegionInv, ResetAlone, Starting, Outside
<1>4. QED
  BY <1>1, <1>2, <1>3, QuietRegion DEF Starting, RegionInv, Typed, ProcTypeOK, SectionLabels

LEMMA EnterReadInv ==
    ASSUME RegionInv, NEW c \in Clients, EnterRead(c)
    PROVE  RegionInv'
<1> USE DEF EnterRead, Goto
<1>1. Typed'
  BY DEF RegionInv, Typed, ProcTypeOK, OneWriter, SectionLabels, Labels, regionVars
<1>2. got[c] = Zero
  BY DEF RegionInv, ReaderOK
<1>3. PICK r \in Reads :
        /\ call' = [call EXCEPT ![c] = r]
        /\ pc' = [pc EXCEPT ![c] = IF r.f = "get_process" THEN "find" ELSE "read"]
  OBVIOUS
<1>4. r.f \in {"get_process", "get_global"}
  BY CallFields
<1>5. WriterOK(c)' /\ ReaderOK(c)'
  BY <1>2, <1>3, <1>4 DEF RegionInv, Typed, ProcTypeOK, WriterOK, ReaderOK, SectionLabels
<1>6. version # 0
  BY DEF RegionInv, ResetAlone, Starting, Outside
<1>7. QED
  BY <1>1, <1>3, <1>5, <1>6, QuietRegion DEF Starting, RegionInv, Typed, ProcTypeOK, SectionLabels

LEMMA FindInv ==
    ASSUME RegionInv, NEW c \in Clients, Find(c)
    PROVE  RegionInv'
<1> USE DEF Find, Goto
<1>1. Typed'
  BY DEF RegionInv, Typed, ProcTypeOK, OneWriter, SectionLabels, Labels, regionVars
<1>2. got[c] = Zero /\ call[c] \in Reads /\ call[c].f = "get_process"
  BY DEF RegionInv, ReaderOK
<1>3. \A f \in Fields : got[c][f] \in Possible(call[c].p, f)'
  BY <1>2, ZeroUsage DEF Possible
<1>4. WriterOK(c)' /\ ReaderOK(c)'
  BY <1>2, <1>3 DEF RegionInv, Typed, ProcTypeOK, WriterOK, ReaderOK, SectionLabels, FirstSlot, regionVars
<1>5. version # 0
  BY DEF RegionInv, ResetAlone, Starting, Outside
<1>6. QED
  BY <1>1, <1>4, <1>5, QuietRegion DEF Starting, RegionInv, Typed, ProcTypeOK, SectionLabels

LEMMA ReadFieldInv ==
    ASSUME RegionInv, NEW c \in Clients, ReadField(c)
    PROVE  RegionInv'
<1> DEFINE from == IF call[c].f = "get_process" THEN process_stats[slot[c]] ELSE global_stats
<1>1. PICK f \in todo[c] :
        /\ got' = [got EXCEPT ![c][f] = from[f]]
        /\ todo' = [todo EXCEPT ![c] = @ \ {f}]
        /\ pc[c] = "read" /\ pc' = [pc EXCEPT ![c] = IF todo'[c] = {} THEN "done" ELSE "read"]
        /\ UNCHANGED <<regionVars, shm_lock, version, call, slot, inits, published>>
  BY DEF ReadField, Goto
<1>2. f \in Fields /\ slot[c] \in Slots /\ from[f] \in Nat
  BY DEF RegionInv, Typed, ProcTypeOK, Abstract!Usage
<1>3. got' \in [Clients -> Abstract!Usage]
  BY <1>1, <1>2 DEF RegionInv, Typed, ProcTypeOK, Abstract!Usage
<1>4. Typed'
  BY <1>1, <1>3 DEF RegionInv, Typed, ProcTypeOK, OneWriter, SectionLabels, Labels, regionVars
<1>5. call[c].f = "get_process" => from[f] \in Possible(call[c].p, f)
  <2>1. SUFFICES ASSUME call[c].f = "get_process"
                 PROVE  process_stats[slot[c]][f] \in Possible(call[c].p, f)
    OBVIOUS
  <2>2. process_pids[slot[c]] = call[c].p /\ call[c].p \in Pids
    BY <1>1, <2>1, CallFields DEF RegionInv, ReaderOK
  <2>3. QED
    BY <1>2, <2>2, ProcAssumption DEF RegionInv, SlotsOwned
<1>6. ReaderOK(c)'
  <2>1. \A g \in Fields : got'[c][g] = IF g = f THEN from[f] ELSE got[c][g]
    BY <1>1, <1>2 DEF RegionInv, Typed, ProcTypeOK, Abstract!Usage
  <2>2. ReaderOK(c)
    BY DEF RegionInv
  <2>3. ASSUME call[c].f = "get_process", NEW g \in Fields
        PROVE  got'[c][g] \in Possible(call[c].p, g)
    BY <1>1, <1>5, <2>1, <2>2, <2>3 DEF ReaderOK
  <2>4. pc'[c] \in {"read", "done"}
    BY <1>1 DEF RegionInv, Typed, ProcTypeOK
  <2>5. QED
    BY <1>1, <2>2, <2>3, <2>4 DEF ReaderOK, Possible, regionVars
<1>7. WriterOK(c)'
  BY <1>1 DEF RegionInv, Typed, ProcTypeOK, WriterOK, SectionLabels
<1>8. version # 0
  BY <1>1 DEF RegionInv, ResetAlone, Starting, Outside
<1>9. QED
  BY <1>1, <1>4, <1>6, <1>7, <1>8, QuietRegion DEF Starting, RegionInv, Typed, ProcTypeOK, SectionLabels

LEMMA ReturnReadInv ==
    ASSUME RegionInv, NEW c \in Clients, ReturnRead(c)
    PROVE  RegionInv'
<1> USE DEF ReturnRead, Goto
<1>1. Typed'
  BY ZeroUsage, ProcAssumption DEF RegionInv, Typed, ProcTypeOK, OneWriter, SectionLabels, Labels, regionVars, Slots
<1>2. WriterOK(c)' /\ ReaderOK(c)'
  BY DEF RegionInv, Typed, ProcTypeOK, WriterOK, ReaderOK, SectionLabels
<1>3. version # 0
  BY DEF RegionInv, ResetAlone, Starting, Outside
<1>4. QED
  BY <1>1, <1>2, <1>3, QuietRegion DEF Starting, RegionInv, Typed, ProcTypeOK, SectionLabels

-----------------------------------------------------------------------------
(* Inside the lock. *)
LEMMA LockInv ==
    ASSUME RegionInv, NEW c \in Clients, Lock(c)
    PROVE  RegionInv'
<1> USE DEF Lock, Goto
<1>1. \A d \in Clients : pc[d] \notin SectionLabels
  BY DEF RegionInv, LockTells
<1>2. pc'[c] \in {"scan", "write"} /\ \A d \in Clients \ {c} : pc'[d] = pc[d]
  BY DEF RegionInv, Typed, ProcTypeOK
<1>3. Typed'
  <2>1. OneWriter'
    BY <1>1, <1>2 DEF OneWriter
  <2>2. QED
    BY <2>1 DEF RegionInv, Typed, ProcTypeOK, SectionLabels, Labels, regionVars
<1>4. version # 0
  BY DEF RegionInv, ResetAlone, Starting, Outside
<1>5. ResetAlone' /\ LockTells'
  BY <1>2, <1>4 DEF Starting, RegionInv, ResetAlone, LockTells
<1>6. SlotsOwned'
  BY DEF RegionInv, SlotsOwned, Possible, regionVars
<1>7. \A d \in Clients \ {c} : WriterOK(d)' /\ ReaderOK(d)'
  BY ClientFrame DEF RegionInv, Typed, ProcTypeOK, regionVars
<1>8. WriterOK(c)' /\ ReaderOK(c)'
  <2>1. WriterOK(c) /\ ReaderOK(c) /\ (pc'[c] = "write" => call[c].f # "process")
    BY DEF RegionInv, Typed, ProcTypeOK
  <2>2. pc'[c] = "scan" => call[c].f = "process"
    BY DEF RegionInv, Typed, ProcTypeOK
  <2>3. QED
    BY <1>2, <2>1, <2>2 DEF WriterOK, ReaderOK, SectionLabels
<1>9. QED
  BY <1>3, <1>5, <1>6, <1>7, <1>8 DEF RegionInv

LEMMA ScanInv ==
    ASSUME RegionInv, NEW c \in Clients, Scan(c)
    PROVE  RegionInv'
<1> DEFINE p == call[c].p
<1>1. PICK i \in Slots :
        /\ pc[c] = "scan" /\ slot' = [slot EXCEPT ![c] = i]
        /\ \/ pc' = [pc EXCEPT ![c] = "write"] /\ process_pids[i] = p
           \/ pc' = [pc EXCEPT ![c] = "claim"] /\ process_pids[i] = 0 /\ ~HasSlot(p)
           \/ pc' = [pc EXCEPT ![c] = "unlock"]
  BY DEF Scan, Goto, FirstSlot, RegionInv, Typed, ProcTypeOK
<1>2. todo' \in [Clients -> SUBSET Fields] /\ UNCHANGED <<regionVars, shm_lock, version, call, got, inits,
                                                         published>>
  BY DEF Scan, RegionInv, Typed, ProcTypeOK
<1>3. pc'[c] \in SectionLabels /\ \A d \in Clients \ {c} : pc'[d] = pc[d] /\ slot'[d] = slot[d]
  BY <1>1 DEF RegionInv, Typed, ProcTypeOK, SectionLabels
<1>4. Typed'
  <2>1. OneWriter'
    BY <1>1, <1>3 DEF RegionInv, Typed, ProcTypeOK, OneWriter, SectionLabels
  <2>2. pc' \in [Clients -> Labels] /\ slot' \in [Clients -> Slots]
    BY <1>1 DEF RegionInv, Typed, ProcTypeOK, Labels, SectionLabels
  <2>3. QED
    BY <1>2, <2>1, <2>2 DEF RegionInv, Typed, ProcTypeOK, regionVars
<1>5. WriterOK(c)'
  BY <1>1, <1>2 DEF RegionInv, Typed, ProcTypeOK, WriterOK, SectionLabels, HasSlot, regionVars
<1>6. ReaderOK(c)'
  BY <1>1, <1>2 DEF RegionInv, Typed, ProcTypeOK, ReaderOK
<1>7. version # 0
  BY <1>1 DEF RegionInv, ResetAlone, Starting, Outside
<1>8. QED
  BY <1>1, <1>2, <1>3, <1>4, <1>5, <1>6, <1>7, QuietRegion DEF Starting, SectionLabels

(* The slot was free, and stays the only one of its process. *)
LEMMA ClaimInv ==
    ASSUME RegionInv, NEW c \in Clients, Claim(c)
    PROVE  RegionInv' /\ process_pids[slot[c]] = 0
<1> DEFINE p == call[c].p
<1>1. /\ pc[c] = "claim" /\ pc' = [pc EXCEPT ![c] = "write"]
      /\ process_pids' = [process_pids EXCEPT ![slot[c]] = p]
      /\ UNCHANGED <<process_stats, global_stats, max_global, shm_lock, version, call, slot, todo,
                     got, inits, published>>
  BY DEF Claim, Goto
<1>2. slot[c] \in Slots /\ p \in Pids /\ p # 0 /\ process_pids[slot[c]] = 0 /\ ~HasSlot(p)
  BY <1>1, CallFields, ProcAssumption DEF RegionInv, Typed, ProcTypeOK, WriterOK, SectionLabels
<1> HIDE DEF p
<1>3. Typed'
  BY <1>1, <1>2 DEF RegionInv, Typed, ProcTypeOK, OneWriter, SectionLabels, Labels
<1>4. version # 0 /\ shm_lock # 0
  BY <1>1 DEF Starting, RegionInv, ResetAlone, LockTells, Outside, SectionLabels
<1>5. ResetAlone' /\ LockTells'
  BY <1>1, <1>4 DEF Starting, RegionInv, ResetAlone, LockTells, Typed, ProcTypeOK
<1>6. SlotsOwned'
  <2>1. \A i \in Slots : process_pids'[i] = IF i = slot[c] THEN p ELSE process_pids[i]
    BY <1>1, <1>2 DEF RegionInv, Typed, ProcTypeOK
  <2>2. \A i \in Slots : process_pids[i] # p
    BY <1>2 DEF HasSlot
  <2>3. process_stats[slot[c]] = Zero
    BY <1>2 DEF RegionInv, SlotsOwned
  <2>4. \A f \in Fields : Zero[f] \in Possible(p, f)
    BY ZeroUsage DEF Possible
  <2>5. QED
    BY <1>1, <1>2, <2>1, <2>2, <2>3, <2>4 DEF RegionInv, SlotsOwned, Possible
<1>7. \A d \in Clients \ {c} : WriterOK(d)' /\ ReaderOK(d)'
  <2>1. \A d \in Clients \ {c} : pc[d] \notin SectionLabels
    BY <1>1 DEF RegionInv, Typed, ProcTypeOK, OneWriter, SectionLabels
  <2>2. QED
    BY <1>1, <1>2, <2>1, ClientFrame DEF RegionInv, Typed, ProcTypeOK
<1>8. WriterOK(c)' /\ ReaderOK(c)'
  BY <1>1, <1>2 DEF RegionInv, Typed, ProcTypeOK, WriterOK, ReaderOK, SectionLabels, p
<1>9. QED
  BY <1>1, <1>2, <1>3, <1>5, <1>6, <1>7, <1>8 DEF RegionInv

(* One field is stored, into the slot of the process that reports it. *)
LEMMA WriteFieldInv ==
    ASSUME RegionInv, NEW c \in Clients, WriteField(c)
    PROVE  RegionInv' /\ UNCHANGED process_pids
<1> DEFINE o == call[c]
           i == slot[c]
           Put(v, f) == [v EXCEPT ![f] = o.u[f]]
<1>1. PICK f \in todo[c] :
        /\ pc[c] = "write" /\ todo' = [todo EXCEPT ![c] = @ \ {f}]
        /\ process_stats' = [process_stats EXCEPT ![i] = IF o.f = "process" THEN Put(@, f) ELSE @]
        /\ global_stats' = IF o.f = "global" THEN Put(global_stats, f) ELSE global_stats
        /\ max_global' = IF o.f = "limits" THEN Put(max_global, f) ELSE max_global
        /\ pc' = [pc EXCEPT ![c] = IF todo'[c] # {} THEN "write"
                                   ELSE IF o.f = "limits" THEN "unlock" ELSE "bump"]
        /\ published' = IF o.f = "process" THEN [published EXCEPT ![o.p] = @ \cup {o.u}] ELSE published
        /\ UNCHANGED <<process_pids, shm_lock, version, call, slot, got, inits>>
  BY DEF WriteField, Goto
<1>2. /\ o \in Writes /\ o.f \in {"process", "global", "limits"}
      /\ o.u \in Abstract!Usage /\ i \in Slots /\ f \in Fields
  BY <1>1, CallFields, ProcAssumption DEF RegionInv, Typed, ProcTypeOK, WriterOK, SectionLabels
<1>3. o.f = "process" => o.p \in Pids /\ o.u \in Usages /\ process_pids[i] = o.p /\ o.p # 0
  BY <1>1, <1>2, CallFields, ProcAssumption DEF RegionInv, WriterOK
<1>4. \A v \in Abstract!Usage : Put(v, f) \in Abstract!Usage
  BY <1>2 DEF Abstract!Usage
<1>5. pc'[c] \in {"write", "unlock", "bump"} /\ \A d \in Clients \ {c} : pc'[d] = pc[d]
  BY <1>1 DEF RegionInv, Typed, ProcTypeOK
<1>6. published' \in [Pids -> SUBSET Usages] /\ \A p \in Pids : published[p] \subseteq published'[p]
  BY <1>1, <1>2, <1>3 DEF RegionInv
<1>7. Typed'
  <2>1. process_stats' \in [Slots -> Abstract!Usage]
    BY <1>1, <1>2, <1>4 DEF RegionInv, Typed, ProcTypeOK
  <2>2. global_stats' \in Abstract!Usage /\ max_global' \in Abstract!Usage
    BY <1>1, <1>4 DEF RegionInv, Typed, ProcTypeOK
  <2>3. OneWriter'
    BY <1>1, <1>5 DEF RegionInv, Typed, ProcTypeOK, OneWriter, SectionLabels
  <2>4. pc' \in [Clients -> Labels]
    BY <1>1, <1>5 DEF RegionInv, Typed, ProcTypeOK, Labels, SectionLabels
  <2>5. todo' \in [Clients -> SUBSET Fields]
    BY <1>1 DEF RegionInv, Typed, ProcTypeOK
  <2>6. QED
    BY <1>1, <2>1, <2>2, <2>3, <2>4, <2>5 DEF RegionInv, Typed, ProcTypeOK
<1>8. version # 0 /\ shm_lock # 0
  BY <1>1 DEF Starting, RegionInv, ResetAlone, LockTells, Outside, SectionLabels
<1>9. ResetAlone' /\ LockTells'
  BY <1>1, <1>5, <1>8 DEF Starting, RegionInv, ResetAlone, LockTells
<1>10. SlotsOwned'
  <2>1. \A j \in Slots : j # i \/ o.f # "process" => process_stats'[j] = process_stats[j]
    BY <1>1, <1>2 DEF RegionInv, Typed, ProcTypeOK
  <2>2. o.f = "process" => \A g \in Fields :
          process_stats'[i][g] = IF g = f THEN o.u[f] ELSE process_stats[i][g]
    BY <1>1, <1>2 DEF RegionInv, Typed, ProcTypeOK, Abstract!Usage
  <2>3. \A p \in Pids, g \in Fields : Possible(p, g) \subseteq Possible(p, g)'
    BY <1>6 DEF Possible
  <2>4. o.f = "process" => o.u[f] \in Possible(o.p, f)'
    BY <1>1, <1>2, <1>3 DEF Possible, RegionInv
  <2>5. ASSUME NEW j \in Slots, process_pids[j] # 0, NEW g \in Fields
        PROVE  process_stats'[j][g] \in Possible(process_pids[j], g)'
    <3>1. process_pids[j] \in Pids /\ process_stats[j][g] \in Possible(process_pids[j], g)
      BY <2>5 DEF RegionInv, Typed, ProcTypeOK, SlotsOwned
    <3>2. process_stats[j][g] \in Possible(process_pids[j], g)'
      BY <1>1, <2>3, <3>1 DEF Possible
    <3>3. CASE j = i /\ o.f = "process" /\ g = f
      BY <1>1, <1>3, <2>2, <2>4, <3>3 DEF Possible
    <3>4. QED
      BY <2>1, <2>2, <3>2, <3>3
  <2>6. ASSUME NEW j \in Slots, process_pids[j] = 0 PROVE process_stats'[j] = Zero
    BY <1>3, <2>1, <2>6 DEF RegionInv, SlotsOwned
  <2>7. QED
    BY <1>1, <2>5, <2>6 DEF RegionInv, SlotsOwned, Possible
<1>11. \A d \in Clients \ {c} : WriterOK(d)' /\ ReaderOK(d)'
  BY <1>1, <1>5, <1>6, ClientFrame
<1>12. WriterOK(c)' /\ ReaderOK(c)'
  BY <1>1, <1>2, <1>3, <1>5 DEF RegionInv, WriterOK, ReaderOK, SectionLabels
<1>13. QED
  BY <1>1, <1>6, <1>7, <1>9, <1>10, <1>11, <1>12 DEF RegionInv

LEMMA BumpInv ==
    ASSUME RegionInv, NEW c \in Clients, Bump(c)
    PROVE  RegionInv'
<1> USE DEF Bump, Goto
<1>1. version # 0 /\ version \in Nat /\ shm_lock # 0
  BY DEF Starting, RegionInv, ResetAlone, LockTells, Outside, SectionLabels, Typed, ProcTypeOK
<1>2. version' # 0 /\ version' \in Nat
  BY <1>1
<1>3. Typed'
  BY <1>2 DEF RegionInv, Typed, ProcTypeOK, OneWriter, SectionLabels, Labels, regionVars
<1>4. ResetAlone' /\ LockTells'
  BY <1>1, <1>2 DEF Starting, RegionInv, ResetAlone, LockTells, Typed, ProcTypeOK
<1>5. SlotsOwned'
  BY DEF RegionInv, SlotsOwned, Possible, regionVars
<1>6. \A d \in Clients \ {c} : WriterOK(d)' /\ ReaderOK(d)'
  BY ClientFrame DEF regionVars, RegionInv, Typed, ProcTypeOK
<1>7. WriterOK(c)' /\ ReaderOK(c)'
  BY DEF RegionInv, Typed, ProcTypeOK, WriterOK, ReaderOK, SectionLabels
<1>8. QED
  BY <1>3, <1>4, <1>5, <1>6, <1>7 DEF RegionInv

LEMMA UnlockInv ==
    ASSUME RegionInv, NEW c \in Clients, Unlock(c)
    PROVE  RegionInv'
<1> USE DEF Unlock, Goto
<1>1. version # 0
  BY DEF RegionInv, ResetAlone, Starting, Outside
<1>2. Typed'
  BY ProcAssumption DEF RegionInv, Typed, ProcTypeOK, OneWriter, SectionLabels, Labels, regionVars, Slots
<1>3. ResetAlone'
  BY <1>1 DEF Starting, RegionInv, ResetAlone, Typed, ProcTypeOK
<1>4. LockTells'
  BY DEF RegionInv, LockTells, Typed, ProcTypeOK, OneWriter, SectionLabels
<1>5. SlotsOwned'
  BY DEF RegionInv, SlotsOwned, Possible, regionVars
<1>6. \A d \in Clients \ {c} : WriterOK(d)' /\ ReaderOK(d)'
  BY ClientFrame DEF regionVars, RegionInv, Typed, ProcTypeOK
<1>7. WriterOK(c)' /\ ReaderOK(c)'
  BY DEF RegionInv, Typed, ProcTypeOK, WriterOK, ReaderOK, SectionLabels
<1>8. QED
  BY <1>2, <1>3, <1>4, <1>5, <1>6, <1>7 DEF RegionInv

(* Every step of a client keeps the invariant.                              *)
LEMMA StepInv ==
    ASSUME RegionInv, NEW c \in Clients, Step(c), Sole'
    PROVE  RegionInv'
<1>1. CASE Attach(c)
  BY <1>1, AttachInv
<1>2. CASE ClearGlobal(c) \/ ResetSlot(c) \/ Stamp(c)
  BY <1>2, ClearGlobalInv, ResetSlotInv, StampInv
<1>3. CASE EnterWrite(c)
  BY <1>3, BeginsWrite DEF EnterWrite
<1>4. CASE Lock(c) \/ Scan(c) \/ Claim(c)
  BY <1>4, LockInv, ScanInv, ClaimInv
<1>5. CASE WriteField(c) \/ Bump(c) \/ Unlock(c)
  BY <1>5, WriteFieldInv, BumpInv, UnlockInv
<1>6. CASE EnterRead(c) \/ Find(c) \/ ReadField(c) \/ ReturnRead(c)
  BY <1>6, EnterReadInv, FindInv, ReadFieldInv, ReturnReadInv
<1>7. QED
  BY <1>1, <1>2, <1>3, <1>4, <1>5, <1>6 DEF Step

-----------------------------------------------------------------------------
(* The collector as a client. *)

LEMMA ServiceIsClient == Service \in Clients
  BY ServiceAssumption

(* A step that leaves the region and where its clients are alone. *)
LEMMA SameRegion ==
    ASSUME RegionInv, UNCHANGED procVars
    PROVE  RegionInv'
<1>1. UNCHANGED <<process_pids, process_stats, global_stats, max_global, shm_lock, version, pc, call,
                  slot, todo, got, inits, published>>
  BY DEF procVars, regionVars, clientVars
<1>2. Typed'
  BY <1>1 DEF RegionInv, Typed, ProcTypeOK, OneWriter
<1>3. SlotsOwned'
  BY <1>1 DEF RegionInv, SlotsOwned, Possible
<1>4. ResetAlone' /\ LockTells'
  BY <1>1 DEF RegionInv, ResetAlone, LockTells, Pristine
<1>5. \A d \in Clients : WriterOK(d)' /\ ReaderOK(d)'
  BY <1>1, ClientFrame
<1>6. QED
  BY <1>1, <1>2, <1>3, <1>4, <1>5 DEF RegionInv

(* The collector leaves the region: it was idle. *)
LEMMA DetachInv ==
    ASSUME RegionInv, NEW c \in Clients, pc[c] = "idle", Goto(c, "detached"),
           UNCHANGED <<regionVars, shm_lock, version, call, slot, todo, got, inits, published>>
    PROVE  RegionInv'
<1> USE DEF Goto
<1>1. Typed'
  BY DEF RegionInv, Typed, ProcTypeOK, OneWriter, SectionLabels, Labels, regionVars
<1>2. WriterOK(c)' /\ ReaderOK(c)'
  BY DEF RegionInv, Typed, ProcTypeOK, WriterOK, ReaderOK, SectionLabels
<1>3. QED
  BY <1>1, <1>2, QuietRegion DEF RegionInv, Typed, ProcTypeOK, SectionLabels, Starting, Outside

(* A step of the region's code moves one client, and never out of it. *)
LEMMA StepMoves ==
    ASSUME RegionInv, NEW c \in Clients, Step(c)
    PROVE  /\ \A d \in Clients \ {c} : pc'[d] = pc[d] /\ call'[d] = call[d]
           /\ pc'[c] # "detached"
           /\ pc[c] # "idle" => call'[c] = call[c] \/ call'[c] = NoCall
           /\ global_stats' = global_stats \/ (WriteField(c) /\ call[c].f = "global")
<1>1. /\ pc \in [Clients -> Labels] /\ call \in [Clients -> Writes \cup Reads \cup {NoCall}]
  BY DEF RegionInv, Typed, ProcTypeOK
<1>2. CASE Attach(c) \/ ClearGlobal(c) \/ ResetSlot(c) \/ Stamp(c)
  BY <1>1, <1>2, ClearGlobalInv DEF Attach, ClearGlobal, ResetSlot, Stamp, Goto, regionVars
<1>3. CASE EnterWrite(c) \/ EnterRead(c)
  BY <1>1, <1>3 DEF EnterWrite, EnterRead, Goto, regionVars
<1>4. CASE Lock(c) \/ Scan(c) \/ Claim(c)
  BY <1>1, <1>4 DEF Lock, Scan, Claim, Goto, regionVars
<1>5. CASE WriteField(c)
  BY <1>1, <1>5 DEF WriteField, Goto
<1>6. CASE Bump(c)
  BY <1>1, <1>6 DEF Bump, Goto, regionVars
<1>7. CASE Unlock(c) \/ Find(c) \/ ReadField(c) \/ ReturnRead(c)
  BY <1>1, <1>7 DEF Unlock, Find, ReadField, ReturnRead, Goto, regionVars
<1>8. QED
  BY <1>2, <1>3, <1>4, <1>5, <1>6, <1>7 DEF Step

(* Every step of the collector, the kernel and the clients keeps the        *)
(* invariant, as long as nobody else initialises the region.                *)
LEMMA OtherStepInv ==
    ASSUME CollectorInv, Sole', NEW c \in Clients, OtherStep(c)
    PROVE  CollectorInv'
<1>1. /\ RegionInv /\ CollectorAt /\ Step(c) /\ (c # Service \/ ~deployed)
      /\ UNCHANGED <<deployed, cpc, kernel>>
      /\ deployed /\ pc[c] = "idle" => call'[c].f # "global"
  BY DEF CollectorInv, OtherStep, serviceVars, boundVars
<1>2. RegionInv'
  BY <1>1, StepInv
<1>3. CollectorAt'
  <2>1. deployed => pc'[Service] = pc[Service]
    BY <1>1, ServiceIsClient, StepMoves
  <2>2. deployed => \A d \in Clients \ {Service} : call'[d].f # "global"
    BY <1>1, StepMoves DEF CollectorAt, KernelTyped, NoCall
  <2>3. QED
    BY <1>1, <2>1, <2>2 DEF CollectorAt, KernelTyped
<1>4. QED
  BY <1>2, <1>3 DEF CollectorInv

LEMMA InRegionInv ==
    ASSUME CollectorInv, Sole', InRegion
    PROVE  CollectorInv'
<1>1. /\ RegionInv /\ CollectorAt /\ Step(Service) /\ deployed /\ Service \in Clients
      /\ UNCHANGED <<deployed, cpc, kernel>>
  BY ServiceIsClient DEF CollectorInv, InRegion, Step, serviceVars
<1>2. RegionInv'
  BY <1>1, StepInv
<1>3. CollectorAt'
  <2>1. \A d \in Clients \ {Service} : call'[d] = call[d]
    BY <1>1, StepMoves
  <2>2. /\ cpc = "init" => pc'[Service] \in Outside \cup {"idle"}
        /\ cpc # "init" => pc'[Service] \in SectionLabels \cup {"spin", "idle"}
    <3>1. pc \in [Clients -> Labels]
      BY <1>1 DEF RegionInv, Typed, ProcTypeOK
    <3>2. CASE cpc = "init" /\ (Attach(Service) \/ ClearGlobal(Service) \/ ResetSlot(Service)
                               \/ Stamp(Service))
      BY <1>1, <3>1, <3>2 DEF Attach, ClearGlobal, ResetSlot, Stamp, Goto, Starting, Outside
    <3>3. CASE \/ Lock(Service) \/ Scan(Service) \/ Claim(Service) \/ WriteField(Service)
               \/ Bump(Service) \/ Unlock(Service)
      <4>1. pc[Service] \in SectionLabels \cup {"spin"}
        BY <3>3 DEF Lock, Scan, Claim, WriteField, Bump, Unlock, SectionLabels
      <4>2. cpc # "init"
        BY <1>1, <4>1 DEF CollectorAt, KernelTyped, SectionLabels, Starting, Outside
      <4>3. pc'[Service] \in SectionLabels \cup {"spin", "idle"}
        BY <1>1, <3>1, <3>3 DEF Lock, Scan, Claim, WriteField, Bump, Unlock, Goto, SectionLabels
      <4>4. QED
        BY <4>2, <4>3
    <3>4. QED
      BY <3>2, <3>3 DEF InRegion
  <2>3. pc[Service] # "idle" /\ (deployed /\ cpc = "down" => pc[Service] # "detached")
    BY <1>1 DEF InRegion, Attach, ClearGlobal, ResetSlot, Stamp, Lock, Scan, Claim, WriteField, Bump, Unlock,
       CollectorAt
  <2>4. QED
    BY <1>1, <2>1, <2>2, <2>3 DEF CollectorAt, KernelTyped
<1>4. QED
  BY <1>2, <1>3 DEF CollectorInv

(* The collector begins a call of the region. *)
LEMMA BeginInv ==
    ASSUME CollectorInv, NEW w \in Writes, pc[Service] = "idle", Begin(w),
           UNCHANGED <<deployed, kernel>>, deployed, cpc' \in {"open", "next"}
    PROVE  CollectorInv'
<1>1. RegionInv'
  BY ServiceIsClient, BeginsWrite DEF CollectorInv, Begin
<1>2. pc' = [pc EXCEPT ![Service] = "spin"] /\ call' = [call EXCEPT ![Service] = w]
  BY DEF Begin, Goto
<1>3. pc \in [Clients -> Labels] /\ call \in [Clients -> Writes \cup Reads \cup {NoCall}]
  BY DEF CollectorInv, RegionInv, Typed, ProcTypeOK
<1>4. CollectorAt'
  BY <1>2, <1>3, ServiceIsClient DEF CollectorInv, CollectorAt, KernelTyped, SectionLabels
<1>5. QED
  BY <1>1, <1>4 DEF CollectorInv

(* A step of the collector that does not touch the region. *)
LEMMA ElsewhereInv ==
    ASSUME CollectorInv, UNCHANGED procVars, CollectorAt'
    PROVE  CollectorInv'
  BY SameRegion DEF CollectorInv

(* The collector is gone from the region. *)
LEMMA LeaveInv ==
    ASSUME CollectorInv, pc[Service] = "idle", deployed, cpc' = "down",
           Goto(Service, "detached"), UNCHANGED <<deployed, kernel>>,
           UNCHANGED <<regionVars, shm_lock, version, call, slot, todo, got, inits, published>>
    PROVE  CollectorInv'
<1>1. RegionInv'
  BY ServiceIsClient, DetachInv DEF CollectorInv
<1>2. pc \in [Clients -> Labels] /\ UNCHANGED global_stats
  BY DEF CollectorInv, RegionInv, Typed, ProcTypeOK, regionVars
<1>3. CollectorAt'
  BY <1>2, ServiceIsClient DEF CollectorInv, CollectorAt, KernelTyped, Goto
<1>4. QED
  BY <1>1, <1>3 DEF CollectorInv

LEMMA ServiceStepInv ==
    ASSUME CollectorInv, Sole', ServiceStep
    PROVE  CollectorInv'
<1>a. CollectorAt
  BY DEF CollectorInv
<1>1. CASE PublishLimits
  <2>1. [f |-> "limits", u |-> ServiceLimits] \in Writes
    BY ServiceAssumption DEF Writes
  <2>2. QED
    BY <1>1, <1>a, <2>1, BeginInv DEF PublishLimits, GoTo, CollectorAt, KernelTyped
<1>2. CASE OpenMaps
  <2>1. CASE GoTo("down") /\ Goto(Service, "detached")
    BY <1>2, <1>a, <2>1, LeaveInv DEF OpenMaps, GoTo, CollectorAt, KernelTyped
  <2>2. CASE GoTo("loop") /\ UNCHANGED pc
    <3>1. UNCHANGED <<procVars, deployed, kernel>> /\ cpc' = "loop" /\ pc[Service] = "idle"
      BY <1>2, <2>2 DEF OpenMaps, GoTo, procVars, clientVars, regionVars
    <3>2. CollectorAt'
      BY <1>2, <1>a, <3>1 DEF OpenMaps, CollectorAt, KernelTyped, procVars, clientVars
    <3>3. QED
      BY <3>1, <3>2, ElsewhereInv
  <2>3. QED
    BY <1>2, <2>1, <2>2 DEF OpenMaps
<1>3. CASE Loop \/ NextKey \/ Sleep
  <2>1. UNCHANGED <<procVars, deployed, kernel>> /\ UNCHANGED <<pc, call>>
    BY <1>3 DEF Loop, NextKey, Sleep, procVars, clientVars
  <2>2. CollectorAt'
    BY <1>3, <1>a, <2>1 DEF Loop, NextKey, Sleep, GoTo, CollectorAt, KernelTyped
  <2>3. QED
    BY <2>1, <2>2, ElsewhereInv
<1>4. CASE CopyGlobal
  <2>1. CASE "global" \in mapped /\ kernel.global # NoRecord
    <3>1. [f |-> "global", u |-> kernel.global] \in Writes
      BY <1>a, <2>1 DEF Writes, CollectorAt, KernelTyped
    <3>2. QED
      BY <1>4, <1>a, <2>1, <3>1, BeginInv DEF CopyGlobal, GoTo, CollectorAt, KernelTyped
  <2>2. CASE UNCHANGED procVars
    <3>1. UNCHANGED <<deployed, kernel>> /\ UNCHANGED <<pc, call>>
      BY <1>4, <2>2 DEF CopyGlobal, procVars, clientVars
    <3>2. CollectorAt'
      BY <1>4, <1>a, <3>1 DEF CopyGlobal, GoTo, CollectorAt, KernelTyped
    <3>3. QED
      BY <2>2, <3>2, ElsewhereInv
  <2>3. QED
    BY <1>4, <2>1, <2>2 DEF CopyGlobal
<1>5. CASE CopyProcess
  <2>1. CASE key \in InMap
    <3>1. [f |-> "process", p |-> key, u |-> kernel.process[key]] \in Writes
      BY <1>a, <2>1 DEF Writes, CollectorAt, KernelTyped, InMap
    <3>2. QED
      BY <1>5, <1>a, <2>1, <3>1, BeginInv DEF CopyProcess, GoTo, CollectorAt, KernelTyped
  <2>2. CASE UNCHANGED procVars
    <3>1. UNCHANGED <<deployed, kernel>> /\ UNCHANGED <<pc, call>>
      BY <1>5, <2>2 DEF CopyProcess, procVars, clientVars
    <3>2. CollectorAt'
      BY <1>5, <1>a, <3>1 DEF CopyProcess, GoTo, CollectorAt, KernelTyped
    <3>3. QED
      BY <2>2, <3>2, ElsewhereInv
  <2>3. QED
    BY <1>5, <2>1, <2>2 DEF CopyProcess
<1>6. CASE cleanup_service
  BY <1>6, <1>a, LeaveInv DEF cleanup_service, GoTo, CollectorAt, KernelTyped
<1>7. CASE InRegion
  BY <1>7, InRegionInv
<1>8. QED
  BY <1>1, <1>2, <1>3, <1>4, <1>5, <1>6, <1>7 DEF ServiceStep

LEMMA KernelTypedStep ==
    ASSUME KernelTyped, [CollectorNext]_collectorVars
    PROVE  KernelTyped'
<1>1. CASE KernelCounts
  BY <1>1, ServiceAssumption DEF KernelCounts, KernelTyped
<1>2. CASE UNCHANGED kernel
  BY <1>2 DEF KernelTyped
<1>3. KernelCounts \/ UNCHANGED kernel
  BY DEF CollectorNext, Start, signal_handler, ServiceStep, OtherStep, PublishLimits, OpenMaps, Loop,
     CopyGlobal, NextKey, CopyProcess, Sleep, cleanup_service, InRegion, serviceVars, collectorVars
<1>4. QED
  BY <1>1, <1>2, <1>3

LEMMA CollectorStep ==
    ASSUME CollectorInv, Sole', [CollectorNext]_collectorVars
    PROVE  CollectorInv'
<1>a. CollectorAt
  BY DEF CollectorInv
<1>1. CASE Start
  <2>1. UNCHANGED <<procVars, deployed, kernel>> /\ UNCHANGED <<pc, call>>
    BY <1>1 DEF Start, procVars, clientVars
  <2>2. CollectorAt'
    BY <1>1, <1>a, <2>1 DEF Start, GoTo, CollectorAt, KernelTyped, Starting, Outside
  <2>3. QED
    BY <2>1, <2>2, ElsewhereInv
<1>2. CASE signal_handler \/ UNCHANGED collectorVars
  <2>1. UNCHANGED <<procVars, deployed, kernel, cpc>> /\ UNCHANGED <<pc, call>>
    BY <1>2 DEF signal_handler, collectorVars, serviceVars, procVars, clientVars
  <2>2. CollectorAt'
    BY <1>a, <2>1 DEF CollectorAt, KernelTyped
  <2>3. QED
    BY <2>1, <2>2, ElsewhereInv
<1>3. CASE KernelCounts
  <2>1. UNCHANGED <<procVars, deployed, cpc>> /\ UNCHANGED <<pc, call>>
    BY <1>3 DEF KernelCounts, procVars, clientVars
  <2>2. KernelTyped'
    BY <1>a, KernelTypedStep DEF CollectorAt
  <2>3. CollectorAt'
    BY <1>a, <2>1, <2>2 DEF CollectorAt, KernelTyped
  <2>4. QED
    BY <2>1, <2>3, ElsewhereInv
<1>4. CASE ServiceStep
  BY <1>4, ServiceStepInv
<1>5. CASE \E c \in Clients : OtherStep(c)
  BY <1>5, OtherStepInv
<1>6. QED
  BY <1>1, <1>2, <1>3, <1>4, <1>5 DEF CollectorNext

LEMMA CollectorInitInv == CollectorInit => CollectorInv
<1> SUFFICES ASSUME CollectorInit PROVE CollectorInv
  OBVIOUS
<1>1. RegionInv
  BY ProcInitInv DEF CollectorInit
<1>2. CollectorAt
  BY ServiceAssumption DEF CollectorInit, CollectorAt, KernelTyped, ProcInit, NoCall
<1>3. QED
  BY <1>1, <1>2 DEF CollectorInv

-----------------------------------------------------------------------------
(* However often the region is initialised, its types hold, and what was    *)
(* committed is not followed once a second client initialises it.           *)
CallsTyped ==
    \A c \in Clients :
        /\ pc[c] \in SectionLabels \cup {"spin"} => call[c] \in Writes
        /\ pc[c] \in {"scan", "claim"} => call[c].f = "process"
BaseInv == ProcTypeOK /\ CallsTyped

LEMMA StepBase ==
    ASSUME BaseInv, NEW c \in Clients, Step(c)
    PROVE  BaseInv'
<1> USE DEF Goto, regionVars
<1>a. 0 \in Slots
  BY ProcAssumption DEF Slots
<1>b. /\ process_pids \in [Slots -> Pids \cup {0}] /\ process_stats \in [Slots -> Abstract!Usage]
      /\ global_stats \in Abstract!Usage /\ max_global \in Abstract!Usage
      /\ shm_lock \in {0, 1} /\ version \in Nat /\ inits \in Nat
      /\ pc \in [Clients -> Labels] /\ call \in [Clients -> Writes \cup Reads \cup {NoCall}]
      /\ slot \in [Clients -> Slots] /\ todo \in [Clients -> SUBSET Fields]
      /\ got \in [Clients -> Abstract!Usage] /\ CallsTyped
  BY DEF BaseInv, ProcTypeOK
<1>1. CASE Attach(c) \/ ClearGlobal(c)
  BY <1>b, <1>1, ZeroUsage DEF BaseInv, ProcTypeOK, CallsTyped, Attach, ClearGlobal, Labels, SectionLabels
<1>2. CASE ResetSlot(c)
  <2>1. slot[c] + 1 < MaxProcesses => slot[c] + 1 \in Slots
    BY <1>b, ProcAssumption DEF Slots
  <2>2. PICK i \in Slots, l \in {"reset", "stamp"} :
          slot' = [slot EXCEPT ![c] = i] /\ pc' = [pc EXCEPT ![c] = l]
    BY <1>a, <1>b, <1>2, <2>1 DEF ResetSlot
  <2>3. QED
    BY <1>b, <1>2, <2>2, ZeroUsage DEF BaseInv, ProcTypeOK, CallsTyped, ResetSlot, Labels, SectionLabels
<1>3. CASE Stamp(c)
  BY <1>b, <1>3, ProcAssumption DEF BaseInv, ProcTypeOK, CallsTyped, Stamp, Labels, SectionLabels
<1>4. CASE EnterWrite(c) \/ EnterRead(c)
  <2>1. CASE EnterWrite(c)
    BY <1>b, <2>1 DEF BaseInv, ProcTypeOK, CallsTyped, EnterWrite, Labels, SectionLabels
  <2>2. CASE EnterRead(c)
    BY <1>b, <2>2 DEF BaseInv, ProcTypeOK, CallsTyped, EnterRead, Labels, SectionLabels
  <2>3. QED
    BY <1>4, <2>1, <2>2
<1>5. CASE Lock(c) \/ Scan(c)
  <2>1. call[c] \in Writes
    BY <1>b, <1>5 DEF CallsTyped, Lock, Scan, SectionLabels
  <2>2. CASE Lock(c)
    BY <1>b, <2>1, <2>2 DEF BaseInv, ProcTypeOK, CallsTyped, Lock, Labels, SectionLabels
  <2>3. CASE Scan(c)
    <3>1. PICK l \in {"write", "claim", "unlock"}, i \in Slots, t \in SUBSET Fields :
            pc' = [pc EXCEPT ![c] = l] /\ slot' = [slot EXCEPT ![c] = i] /\ todo' = [todo EXCEPT ![c] = t]
      <4>1. slot = [slot EXCEPT ![c] = slot[c]] /\ todo = [todo EXCEPT ![c] = todo[c]]
        BY <1>b
      <4>2. slot[c] \in Slots /\ todo[c] \in SUBSET Fields /\ {} \in SUBSET Fields
        BY <1>b
      <4>3. PICK l \in {"write", "claim", "unlock"} : pc' = [pc EXCEPT ![c] = l]
        BY <2>3 DEF Scan
      <4>4. \E i \in Slots : slot' = [slot EXCEPT ![c] = i]
        BY <2>3, <4>1, <4>2 DEF Scan
      <4>5. \E t \in SUBSET Fields : todo' = [todo EXCEPT ![c] = t]
        BY <2>3, <4>1, <4>2 DEF Scan
      <4>6. QED
        BY <4>3, <4>4, <4>5
    <3>2. UNCHANGED <<process_pids, process_stats, global_stats, max_global, shm_lock, version, call, got, inits>>
          /\ call[c].f = "process"
      BY <1>b, <2>3 DEF Scan, CallsTyped
    <3>3. QED
      BY <1>b, <2>1, <3>1, <3>2 DEF BaseInv, ProcTypeOK, CallsTyped, Labels, SectionLabels
  <2>4. QED
    BY <1>5, <2>2, <2>3
<1>6. CASE Claim(c)
  <2>1. call[c] \in Writes /\ call[c].f = "process" /\ call[c].p \in Pids
    BY <1>b, <1>6, CallFields DEF CallsTyped, Claim, SectionLabels
  <2>2. QED
    BY <1>b, <1>6, <2>1 DEF BaseInv, ProcTypeOK, CallsTyped, Claim, Labels, SectionLabels
<1>7. CASE WriteField(c)
  <2>1. call[c] \in Writes /\ call[c].u \in Abstract!Usage
    BY <1>b, <1>7, CallFields, ProcAssumption DEF CallsTyped, WriteField, SectionLabels
  <2>2. PICK f \in todo[c] :
          /\ todo' = [todo EXCEPT ![c] = @ \ {f}]
          /\ process_stats' = [process_stats EXCEPT ![slot[c]] =
               IF call[c].f = "process" THEN [@ EXCEPT ![f] = call[c].u[f]] ELSE @]
          /\ global_stats' = IF call[c].f = "global" THEN [global_stats EXCEPT ![f] = call[c].u[f]]
                             ELSE global_stats
          /\ max_global' = IF call[c].f = "limits" THEN [max_global EXCEPT ![f] = call[c].u[f]]
                           ELSE max_global
          /\ pc' = [pc EXCEPT ![c] = IF todo'[c] # {} THEN "write"
                                     ELSE IF call[c].f = "limits" THEN "unlock" ELSE "bump"]
          /\ UNCHANGED <<process_pids, shm_lock, version, call, slot, got, inits>>
    BY <1>7 DEF WriteField
  <2>3. f \in Fields /\ call[c].u[f] \in Nat
    BY <1>b, <2>1 DEF Abstract!Usage
  <2>4. \A v \in Abstract!Usage : [v EXCEPT ![f] = call[c].u[f]] \in Abstract!Usage
    BY <2>3 DEF Abstract!Usage
  <2>5. process_stats' \in [Slots -> Abstract!Usage] /\ global_stats' \in Abstract!Usage
        /\ max_global' \in Abstract!Usage
    BY <1>b, <2>2, <2>4
  <2>6. pc' \in [Clients -> Labels] /\ todo' \in [Clients -> SUBSET Fields]
    BY <1>b, <2>2 DEF Labels, SectionLabels
  <2>7. CallsTyped'
    BY <1>b, <2>1, <2>2 DEF CallsTyped, SectionLabels
  <2>8. QED
    BY <1>b, <2>2, <2>5, <2>6, <2>7 DEF BaseInv, ProcTypeOK
<1>8. CASE Bump(c)
  BY <1>b, <1>8 DEF BaseInv, ProcTypeOK, CallsTyped, Bump, Labels, SectionLabels
<1>9. CASE Unlock(c)
  BY <1>a, <1>b, <1>9 DEF BaseInv, ProcTypeOK, CallsTyped, Unlock, Labels, SectionLabels
<1>10. CASE Find(c)
  <2>1. PICK l \in {"read", "done"} : pc' = [pc EXCEPT ![c] = l]
    BY <1>10 DEF Find
  <2>2. slot' \in [Clients -> Slots] /\ todo' \in [Clients -> SUBSET Fields]
    BY <1>b, <1>10 DEF Find
  <2>3. QED
    BY <1>b, <1>10, <2>1, <2>2 DEF BaseInv, ProcTypeOK, CallsTyped, Find, Labels, SectionLabels
<1>11. CASE ReadField(c)
  <2> DEFINE from == IF call[c].f = "get_process" THEN process_stats[slot[c]] ELSE global_stats
  <2>1. PICK f \in todo[c] :
          /\ got' = [got EXCEPT ![c][f] = from[f]]
          /\ todo' = [todo EXCEPT ![c] = @ \ {f}]
          /\ pc' = [pc EXCEPT ![c] = IF todo'[c] = {} THEN "done" ELSE "read"]
          /\ UNCHANGED <<process_pids, process_stats, global_stats, max_global, shm_lock, version, call,
                         slot, inits>>
    BY <1>11 DEF ReadField
  <2>2. f \in Fields /\ from[f] \in Nat
    BY <1>b DEF Abstract!Usage
  <2>3. got' \in [Clients -> Abstract!Usage]
    BY <1>b, <2>1, <2>2 DEF Abstract!Usage
  <2>4. QED
    BY <1>b, <2>1, <2>3 DEF BaseInv, ProcTypeOK, CallsTyped, Labels, SectionLabels
<1>12. CASE ReturnRead(c)
  BY <1>a, <1>b, <1>12, ZeroUsage DEF BaseInv, ProcTypeOK, CallsTyped, ReturnRead, Labels, SectionLabels
<1>13. QED
  BY <1>1, <1>2, <1>3, <1>4, <1>5, <1>6, <1>7, <1>8, <1>9, <1>10, <1>11, <1>12 DEF Step

(* What the collector does beside the region's functions: it begins a call, *)
(* leaves, or moves nothing of the region.                                  *)
LEMMA ServiceBase ==
    ASSUME KernelTyped, ServiceStep
    PROVE  \/ Step(Service)
           \/ \E w \in Writes : Begin(w)
           \/ /\ UNCHANGED <<regionVars, shm_lock, version, call, slot, todo, got, calls, committed, inits,
                             published>>
              /\ UNCHANGED pc \/ Goto(Service, "detached")
<1>1. CASE PublishLimits
  BY <1>1, ServiceAssumption DEF PublishLimits, Writes
<1>2. CASE CopyGlobal
  BY <1>2 DEF CopyGlobal, KernelTyped, Writes, procVars, clientVars
<1>3. CASE CopyProcess
  BY <1>3 DEF CopyProcess, KernelTyped, Writes, InMap, procVars, clientVars
<1>4. CASE OpenMaps \/ cleanup_service
  BY <1>4 DEF OpenMaps, cleanup_service
<1>5. CASE Loop \/ NextKey \/ Sleep
  BY <1>5 DEF Loop, NextKey, Sleep, procVars, clientVars
<1>6. CASE InRegion
  BY <1>6 DEF InRegion, Step
<1>7. QED
  BY <1>1, <1>2, <1>3, <1>4, <1>5, <1>6 DEF ServiceStep

LEMMA CollectorBase ==
    ASSUME KernelTyped, [CollectorNext]_collectorVars
    PROVE  \/ \E c \in Clients : Step(c)
           \/ \E w \in Writes : Begin(w)
           \/ /\ UNCHANGED <<regionVars, shm_lock, version, call, slot, todo, got, calls, committed, inits,
                             published>>
              /\ UNCHANGED pc \/ Goto(Service, "detached")
<1>1. CASE ServiceStep
  BY <1>1, ServiceBase, ServiceIsClient
<1>2. CASE \E c \in Clients : OtherStep(c)
  BY <1>2 DEF OtherStep
<1>3. CASE Start \/ signal_handler \/ KernelCounts \/ UNCHANGED collectorVars
  BY <1>3 DEF Start, signal_handler, KernelCounts, collectorVars, procVars, clientVars
<1>4. QED
  BY <1>1, <1>2, <1>3 DEF CollectorNext

LEMMA BaseStep ==
    ASSUME BaseInv, KernelTyped, [CollectorNext]_collectorVars
    PROVE  BaseInv'
<1>1. CASE \E c \in Clients : Step(c)
  BY <1>1, StepBase
<1>2. CASE \E w \in Writes : Begin(w)
  BY <1>2, ServiceIsClient
     DEF Begin, Goto, regionVars, BaseInv, ProcTypeOK, CallsTyped, Labels, SectionLabels
<1>3. CASE /\ UNCHANGED <<regionVars, shm_lock, version, call, slot, todo, got, calls, committed, inits,
                          published>>
           /\ UNCHANGED pc \/ Goto(Service, "detached")
  BY <1>3, ServiceIsClient DEF Goto, regionVars, BaseInv, ProcTypeOK, CallsTyped, Labels, SectionLabels
<1>4. QED
  BY <1>1, <1>2, <1>3, CollectorBase

(* The count of initialisations never goes back, and beyond the first       *)
(* nothing is committed.                                                    *)
LEMMA InitsCount ==
    ASSUME BaseInv, KernelTyped, [CollectorNext]_collectorVars
    PROVE  /\ Sole' => Sole
           /\ ~Sole => UNCHANGED committed
           /\ ~Sole' => UNCHANGED committed
<1>1. inits \in Nat
  BY DEF BaseInv, ProcTypeOK
<1>2. CASE \E c \in Clients : Step(c)
  <2>1. PICK c \in Clients : Step(c)
    BY <1>2
  <2>2. CASE Attach(c)
    BY <1>1, <2>2 DEF Attach, Sole
  <2>3. CASE Stamp(c) \/ Unlock(c)
    BY <1>1, <2>3 DEF Stamp, Unlock, Commit, Sole
  <2>4. CASE ~Attach(c) /\ ~Stamp(c) /\ ~Unlock(c)
    BY <2>1, <2>4 DEF Step, ClearGlobal, ResetSlot, EnterWrite, Lock, Scan, Claim, WriteField, Bump,
       EnterRead, Find, ReadField, ReturnRead, Sole
  <2>5. QED
    BY <2>2, <2>3, <2>4
<1>3. CASE \E w \in Writes : Begin(w)
  BY <1>3 DEF Begin, Sole
<1>4. CASE UNCHANGED <<committed, inits>>
  BY <1>4 DEF Sole
<1>5. QED
  BY <1>2, <1>3, <1>4, CollectorBase

Safe == BaseInv /\ KernelTyped /\ (Sole => CollectorInv)

LEMMA SafeHolds ==
    /\ CollectorInit => Safe
    /\ Safe /\ [CollectorNext]_collectorVars => Safe'
<1>1. ASSUME CollectorInv PROVE BaseInv /\ KernelTyped
  BY <1>1 DEF CollectorInv, CollectorAt, KernelTyped, RegionInv, Typed, WriterOK, BaseInv, CallsTyped
<1>2. ASSUME CollectorInit PROVE Safe
  BY <1>1, <1>2, CollectorInitInv DEF Safe
<1>3. ASSUME Safe, [CollectorNext]_collectorVars PROVE Safe'
  BY <1>3, BaseStep, KernelTypedStep, InitsCount, CollectorStep DEF Safe
<1>4. QED
  BY <1>2, <1>3

(* A process has one slot and one writer is inside the lock, whatever the   *)
(* collector, its restarts and the other clients do, until a second client  *)
(* initialises the region.                                                  *)
THEOREM SlotsCorrect == CollectorSpec => []OneSlotPerProcess
<1>1. Safe => OneSlotPerProcess
  BY DEF Safe, BaseInv, CollectorInv, RegionInv, Typed, SlotsOwned, OneSlotPerProcess
<1>2. QED
  BY <1>1, SafeHolds, PTL DEF CollectorSpec

(* A reader without the lock never sees a count of another process, until a *)
(* second client initialises the region.                                    *)
THEOREM ReadsCorrect == CollectorSpec => []ReadsOwnRecord
<1>1. Safe => ReadsOwnRecord
  BY DEF Safe, CollectorInv, RegionInv, ReaderOK, ReadsOwnRecord, Possible
<1>2. QED
  BY <1>1, SafeHolds, PTL DEF CollectorSpec

-----------------------------------------------------------------------------
(* The refinement.  The record that committed has of p is the one in the    *)
(* slot of p.                                                               *)
Agrees(p) ==
    /\ ~HasSlot(p) => committed.records[p] = NoRecord
    /\ \A i \in Slots : process_pids[i] = p => committed.records[p] = process_stats[i]

RecordsAgree == \A p \in Pids : Agrees(p)

(* Nothing has been written since the lock was released. *)
Committed ==
    /\ RecordsAgree
    /\ committed.global = global_stats
    /\ committed.limits = max_global
    /\ committed.version = version

Room(p) == p \in Abstract!Reported \/ Cardinality(Abstract!Reported) < MaxProcesses

(* The fields done of the record v are those of the call's record u. *)
Stored(v, u, done) == \A f \in done : v[f] = u[f]

(* What the writer of a process, at label l, with slot i and the fields g   *)
(* still to store, has written of the record u of p.                        *)
WritesProcess(l, i, g, p, u) ==
    /\ committed.global = global_stats /\ committed.limits = max_global
    /\ \A q \in Pids \ {p} : Agrees(q)
    /\ process_pids[i] = p /\ Room(p)
    /\ Stored(process_stats[i], u, IF l = "write" THEN Fields \ g ELSE Fields)
    /\ version = IF l = "unlock" THEN committed.version + 1 ELSE committed.version

WritesGlobal(l, g, u) ==
    /\ RecordsAgree /\ committed.limits = max_global
    /\ Stored(global_stats, u, IF l = "write" THEN Fields \ g ELSE Fields)
    /\ version = IF l = "unlock" THEN committed.version + 1 ELSE committed.version

WritesLimits(l, g, u) ==
    /\ RecordsAgree /\ committed.global = global_stats /\ committed.version = version
    /\ Stored(max_global, u, IF l = "write" THEN Fields \ g ELSE Fields)

(* How far a writer inside the lock has come. *)
Writing(l, o, i, g) ==
    /\ l \in {"scan", "claim"} => Committed /\ g = Fields
    /\ l = "claim" => Room(o.p)
    /\ l = "bump" => o.f # "limits"
    /\ l \in {"write", "bump", "unlock"} =>
         \/ l = "unlock" /\ Committed
         \/ o.f = "process" /\ WritesProcess(l, i, g, o.p, o.u)
         \/ o.f = "global" /\ WritesGlobal(l, g, o.u)
         \/ o.f = "limits" /\ WritesLimits(l, g, o.u)

RecordsInv ==
    /\ committed.records \in [Pids -> Abstract!Usage \cup {NoRecord}]
    /\ shm_lock = 0 => Committed
    /\ \A c \in Clients : Writing(pc[c], call[c], slot[c], todo[c])

WroteSoFar(c) == Writing(pc[c], call[c], slot[c], todo[c])

LEMMA NoRecordApart == \A u \in Abstract!Usage : u # NoRecord
<1> SUFFICES ASSUME NEW u \in Abstract!Usage PROVE u # NoRecord
  OBVIOUS
<1>1. DOMAIN u = Fields /\ DOMAIN NoRecord = {}
  BY DEF Abstract!Usage, NoRecord, Abstract!NoRecord
<1>2. QED
  BY <1>1, ProcAssumption

LEMMA SameCardinality == \A S : Abstract!Cardinality(S) = Cardinality(S)
  BY DEF Abstract!Cardinality, Cardinality

(* A scan for a process that has a slot finds that slot: Region is what the *)
(* slots hold.                                                              *)
LEMMA RegionRecords ==
    ASSUME RegionInv
    PROVE  /\ Region.records \in [Pids -> Abstract!Usage \cup {NoRecord}]
           /\ \A p \in Pids : ~HasSlot(p) => Region.records[p] = NoRecord
           /\ \A p \in Pids : \A i \in Slots :
                process_pids[i] = p => Region.records[p] = process_stats[i]
           /\ Region.global = global_stats /\ Region.limits = max_global
           /\ Region.version = version
<1> DEFINE R == [p \in Pids |-> IF HasSlot(p)
                                THEN process_stats[CHOOSE i \in Slots : FirstSlot(i, p)]
                                ELSE NoRecord]
<1>1. /\ Region.records = R /\ Region.global = global_stats /\ Region.limits = max_global
      /\ Region.version = version
  BY DEF Region
<1>2. \A p \in Pids : ~HasSlot(p) => R[p] = NoRecord
  OBVIOUS
<1>3. ASSUME NEW p \in Pids, NEW i \in Slots, process_pids[i] = p
      PROVE  R[p] = process_stats[i]
  <2>1. \A j \in Slots : process_pids[j] = p => j = i
    BY <1>3, ProcAssumption DEF RegionInv, SlotsOwned
  <2>2. FirstSlot(i, p)
    <3>1. \A j \in 0..(i - 1) : j \in Slots /\ j # i
      BY ProcAssumption DEF Slots
    <3>2. QED
      BY <1>3, <2>1, <3>1 DEF FirstSlot
  <2>3. PICK k : k = CHOOSE j \in Slots : FirstSlot(j, p)
    OBVIOUS
  <2>4. k \in Slots /\ FirstSlot(k, p)
    BY <2>2, <2>3
  <2>5. k = i
    BY <2>1, <2>4 DEF FirstSlot
  <2>6. QED
    BY <1>3, <2>3, <2>5 DEF HasSlot
<1>4. R \in [Pids -> Abstract!Usage \cup {NoRecord}]
  <2>1. ASSUME NEW p \in Pids PROVE R[p] \in Abstract!Usage \cup {NoRecord}
    <3>1. CASE HasSlot(p)
      <4>1. PICK i \in Slots : process_pids[i] = p
        BY <3>1 DEF HasSlot
      <4>2. R[p] = process_stats[i]
        BY <1>3, <4>1
      <4>3. QED
        BY <4>2 DEF RegionInv, Typed, ProcTypeOK
    <3>2. QED
      BY <1>2, <3>1
  <2> HIDE DEF R
  <2>2. R = [p \in Pids |-> R[p]]
    BY DEF R
  <2>3. QED
    BY <2>1, <2>2
<1> HIDE DEF R
<1>5. QED
  BY <1>1, <1>2, <1>3, <1>4

(* Releasing the lock commits the region. *)
LEMMA CommitRegion ==
    ASSUME RegionInv, committed' = Region,
           UNCHANGED <<process_pids, process_stats, global_stats, max_global, version>>
    PROVE  /\ committed'.records \in [Pids -> Abstract!Usage \cup {NoRecord}]
           /\ Committed'
  BY RegionRecords DEF Committed, RecordsAgree, Agrees, HasSlot

(* An empty slot leaves room for one more record. *)
LEMMA RoomLeft ==
    ASSUME RegionInv, RecordsInv, RecordsAgree, NEW e \in Slots, process_pids[e] = 0
    PROVE  Cardinality(Abstract!Reported) < MaxProcesses
<1> DEFINE S == Abstract!Reported
           at == [q \in S |-> CHOOSE i \in Slots : process_pids[i] = q]
<1>1. ASSUME NEW q \in S
      PROVE  at[q] \in Slots \ {e} /\ process_pids[at[q]] = q
  <2>1. q \in Pids /\ HasSlot(q)
    BY <1>1 DEF Abstract!Reported, RecordsAgree, Agrees, NoRecord
  <2>2. PICK k : k = CHOOSE i \in Slots : process_pids[i] = q
    OBVIOUS
  <2>3. k \in Slots /\ process_pids[k] = q
    BY <2>1, <2>2 DEF HasSlot
  <2>4. k # e
    BY <2>1, <2>3, ProcAssumption
  <2>5. QED
    BY <1>1, <2>2, <2>3, <2>4
<1>2. IsFiniteSet(Slots) /\ Cardinality(Slots) = MaxProcesses
  BY ProcAssumption, FS_Interval DEF Slots
<1>3. IsFiniteSet(Slots \ {e}) /\ Cardinality(Slots \ {e}) = MaxProcesses - 1
  BY <1>2, FS_RemoveElement
<1>4. at \in Injection(S, Slots \ {e})
  <2>1. at \in [S -> Slots \ {e}]
    BY <1>1
  <2>2. \A x, y \in S : at[x] = at[y] => x = y
    BY <1>1
  <2>3. QED
    BY <2>1, <2>2 DEF Injection, IsInjective
<1> HIDE DEF at, S
<1>5. IsFiniteSet(S) /\ Cardinality(S) <= MaxProcesses - 1
  BY <1>3, <1>4, FS_Injection
<1>6. QED
  BY <1>5, FS_CardinalityType, ProcAssumption DEF S

(* Clients outside the lock have written nothing. *)
LEMMA IdleWrote ==
    ASSUME NEW d \in Clients, pc'[d] \notin SectionLabels
    PROVE  WroteSoFar(d)'
  BY DEF WroteSoFar, Writing, SectionLabels

(* A client that a step neither moves nor writes under. *)
LEMMA WroteFrame ==
    ASSUME NEW d \in Clients, WroteSoFar(d),
           UNCHANGED <<process_pids, process_stats, global_stats, max_global, version, committed>>,
           pc'[d] = pc[d], call'[d] = call[d], slot'[d] = slot[d], todo'[d] = todo[d]
    PROVE  WroteSoFar(d)'
<1>1. RecordsAgree' <=> RecordsAgree
  BY DEF RecordsAgree, Agrees, HasSlot
<1>2. Committed' <=> Committed
  BY <1>1 DEF Committed
<1>3. /\ \A p : Agrees(p)' <=> Agrees(p)
      /\ \A p : Room(p)' <=> Room(p)
  BY DEF Agrees, HasSlot, Room, Abstract!Reported
<1>4. PICK l, o, i, g : l = pc[d] /\ o = call[d] /\ i = slot[d] /\ g = todo[d]
  OBVIOUS
<1>5. WritesProcess(l, i, g, o.p, o.u)' <=> WritesProcess(l, i, g, o.p, o.u)
  BY <1>3 DEF WritesProcess, Stored
<1>6. /\ WritesGlobal(l, g, o.u)' <=> WritesGlobal(l, g, o.u)
      /\ WritesLimits(l, g, o.u)' <=> WritesLimits(l, g, o.u)
  BY <1>1 DEF WritesGlobal, WritesLimits, Stored
<1>7. Writing(l, o, i, g)
  BY <1>4 DEF WroteSoFar
<1>8. Writing(l, o, i, g)'
  BY <1>2, <1>3, <1>5, <1>6, <1>7 DEF Writing
<1>9. QED
  BY <1>4, <1>8 DEF WroteSoFar

(* A step that leaves the region, the lock and the writers alone. *)
LEMMA QuietRecords ==
    ASSUME RecordsInv, UNCHANGED <<regionVars, shm_lock, version, committed>>,
           \A d \in Clients : pc'[d] \in SectionLabels =>
             pc'[d] = pc[d] /\ call'[d] = call[d] /\ slot'[d] = slot[d] /\ todo'[d] = todo[d]
    PROVE  RecordsInv' /\ UNCHANGED Abstract!recordsVars
<1>1. UNCHANGED <<process_pids, process_stats, global_stats, max_global, version, committed>>
  BY DEF regionVars
<1>2. ASSUME NEW d \in Clients PROVE WroteSoFar(d)'
  <2>1. CASE pc'[d] \in SectionLabels
    BY <1>1, <2>1, WroteFrame DEF RecordsInv, WroteSoFar
  <2>2. CASE pc'[d] \notin SectionLabels
    BY <2>2, IdleWrote
  <2>3. QED
    BY <2>1, <2>2
<1>3. Committed' <=> Committed
  BY <1>1 DEF Committed, RecordsAgree, Agrees, HasSlot
<1>4. QED
  BY <1>1, <1>2, <1>3 DEF RecordsInv, WroteSoFar, Abstract!recordsVars

(* Only the writer matters for a step that it takes inside the lock. *)
LEMMA WriterRecords ==
    ASSUME RegionInv, RegionInv', RecordsInv, NEW c \in Clients,
           pc'[c] \in SectionLabels, shm_lock' # 0, UNCHANGED committed, WroteSoFar(c)'
    PROVE  RecordsInv' /\ UNCHANGED Abstract!recordsVars
<1>1. ASSUME NEW d \in Clients \ {c} PROVE WroteSoFar(d)'
  <2>1. pc'[d] \notin SectionLabels
    BY <1>1 DEF RegionInv, Typed, ProcTypeOK, OneWriter
  <2>2. QED
    BY <1>1, <2>1, IdleWrote
<1>2. QED
  BY <1>1 DEF RecordsInv, WroteSoFar, Abstract!recordsVars

LEMMA LockRecords ==
    ASSUME RegionInv, RegionInv', RecordsInv, NEW c \in Clients, Lock(c)
    PROVE  RecordsInv' /\ UNCHANGED Abstract!recordsVars
<1>1. PICK o \in Writes : o = call[c]
  BY DEF Lock, RegionInv, WriterOK
<1>2. PICK l : l = IF o.f = "process" THEN "scan" ELSE "write"
  OBVIOUS
<1>3. /\ pc'[c] = l /\ call'[c] = o /\ todo'[c] = Fields /\ shm_lock = 0 /\ shm_lock' # 0
      /\ UNCHANGED <<process_pids, process_stats, global_stats, max_global, version, committed>>
  BY <1>1, <1>2 DEF Lock, Goto, regionVars, RegionInv, Typed, ProcTypeOK
<1>4. Committed /\ Committed'
  BY <1>3 DEF RecordsInv, Committed, RecordsAgree, Agrees, HasSlot
<1>5. l = "write" => WritesGlobal("write", Fields, o.u)' /\ WritesLimits("write", Fields, o.u)'
  BY <1>4 DEF Committed, WritesGlobal, WritesLimits, Stored
<1>6. WroteSoFar(c)'
  BY <1>1, <1>2, <1>3, <1>4, <1>5, CallFields DEF WroteSoFar, Writing
<1>7. QED
  BY <1>2, <1>3, <1>6, WriterRecords DEF SectionLabels

LEMMA ScanRecords ==
    ASSUME RegionInv, RegionInv', RecordsInv, NEW c \in Clients, Scan(c)
    PROVE  RecordsInv' /\ UNCHANGED Abstract!recordsVars
<1>1. PICK o \in Writes : o = call[c] /\ o.f = "process" /\ o.p \in Pids
  BY CallFields DEF Scan, RegionInv, WriterOK, SectionLabels
<1>2. /\ pc[c] = "scan" /\ call'[c] = o /\ shm_lock' # 0
      /\ UNCHANGED <<process_pids, process_stats, global_stats, max_global, version, committed>>
  BY <1>1 DEF Scan, regionVars, RegionInv, LockTells, SectionLabels
<1>3. Committed /\ todo[c] = Fields
  BY <1>2 DEF RecordsInv, Writing
<1>4. Committed' /\ \A p : Room(p)' <=> Room(p)
  BY <1>2, <1>3 DEF Committed, RecordsAgree, Agrees, HasSlot, Room, Abstract!Reported
<1>5. ASSUME NEW i \in Slots, FirstSlot(i, o.p), slot' = [slot EXCEPT ![c] = i],
             Goto(c, "write"), UNCHANGED todo
      PROVE  pc'[c] = "write" /\ WroteSoFar(c)'
  <2>1. pc'[c] = "write" /\ slot'[c] = i /\ process_pids[i] = o.p
    BY <1>5 DEF Goto, RegionInv, Typed, ProcTypeOK, FirstSlot
  <2>2. Room(o.p)'
    <3>1. committed.records[o.p] = process_stats[i] /\ process_stats[i] \in Abstract!Usage
      BY <1>1, <1>3, <2>1 DEF Committed, RecordsAgree, Agrees, RegionInv, Typed, ProcTypeOK
    <3>2. QED
      BY <1>1, <1>4, <3>1, NoRecordApart DEF Room, Abstract!Reported, NoRecord
  <2>3. todo'[c] = Fields
    BY <1>3, <1>5
  <2>4. WritesProcess("write", i, Fields, o.p, o.u)'
    BY <1>2, <1>4, <2>1, <2>2 DEF WritesProcess, Stored, Committed, RecordsAgree
  <2>5. QED
    BY <1>1, <1>2, <2>1, <2>3, <2>4 DEF WroteSoFar, Writing
<1>6. ASSUME NEW i \in Slots, FirstSlot(i, 0), Goto(c, "claim"), UNCHANGED todo
      PROVE  pc'[c] = "claim" /\ WroteSoFar(c)'
  <2>1. pc'[c] = "claim" /\ process_pids[i] = 0
    BY <1>6 DEF Goto, RegionInv, Typed, ProcTypeOK, FirstSlot
  <2>2. Room(o.p)'
    BY <1>3, <1>4, <2>1, RoomLeft DEF Room, Committed
  <2>3. QED
    BY <1>2, <1>3, <1>4, <1>6, <2>1, <2>2 DEF WroteSoFar, Writing
<1>7. ASSUME Goto(c, "unlock")
      PROVE  pc'[c] = "unlock" /\ WroteSoFar(c)'
  <2>1. pc'[c] = "unlock"
    BY <1>7 DEF Goto, RegionInv, Typed, ProcTypeOK
  <2>2. QED
    BY <1>4, <2>1 DEF WroteSoFar, Writing
<1>8. pc'[c] \in SectionLabels /\ WroteSoFar(c)'
  BY <1>1, <1>5, <1>6, <1>7 DEF Scan, SectionLabels
<1>9. QED
  BY <1>2, <1>8, WriterRecords

LEMMA ClaimRecords ==
    ASSUME RegionInv, RegionInv', RecordsInv, NEW c \in Clients, Claim(c)
    PROVE  RecordsInv' /\ UNCHANGED Abstract!recordsVars
<1>1. PICK o \in Writes : o = call[c] /\ o.f = "process" /\ o.p \in Pids
  BY CallFields DEF Claim, RegionInv, WriterOK, SectionLabels
<1>2. PICK i \in Slots : i = slot[c]
  BY DEF RegionInv, Typed, ProcTypeOK
<1>3. /\ pc[c] = "claim" /\ pc'[c] = "write" /\ call'[c] = o /\ slot'[c] = i /\ shm_lock' # 0
      /\ process_pids' = [process_pids EXCEPT ![i] = o.p]
      /\ UNCHANGED <<process_stats, global_stats, max_global, version, committed, todo>>
  BY <1>1, <1>2 DEF Claim, Goto, RegionInv, Typed, ProcTypeOK, LockTells, SectionLabels
<1>4. Committed /\ Room(o.p) /\ todo[c] = Fields
  BY <1>1, <1>3 DEF RecordsInv, Writing
<1>5. process_pids[i] = 0 /\ process_pids \in [Slots -> Pids \cup {0}]
  BY <1>2, <1>3 DEF RegionInv, WriterOK, Typed, ProcTypeOK
<1>6. ASSUME NEW q \in Pids \ {o.p} PROVE Agrees(q)'
  <2>1. Agrees(q) /\ q # 0
    BY <1>4, <1>6, ProcAssumption DEF Committed, RecordsAgree
  <2>2. \A j \in Slots : process_pids'[j] = q <=> process_pids[j] = q
    BY <1>3, <1>5, <2>1
  <2>3. QED
    BY <1>3, <2>1, <2>2 DEF Agrees, HasSlot
<1>7. Room(o.p)' /\ process_pids'[i] = o.p
  BY <1>3, <1>4, <1>5 DEF Room, Abstract!Reported
<1>8. WritesProcess("write", i, Fields, o.p, o.u)'
  BY <1>3, <1>4, <1>6, <1>7 DEF WritesProcess, Stored, Committed
<1>9. WroteSoFar(c)'
  BY <1>1, <1>3, <1>4, <1>8 DEF WroteSoFar, Writing
<1>10. QED
  BY <1>3, <1>9, WriterRecords DEF SectionLabels

(* One field more, and where the writer is after it. *)
LEMMA StoredNext ==
    ASSUME NEW v \in Abstract!Usage, NEW u, NEW g \in SUBSET Fields, NEW f \in g,
           Stored(v, u, Fields \ g)
    PROVE  /\ Stored([v EXCEPT ![f] = u[f]], u, Fields \ (g \ {f}))
           /\ g \ {f} = {} => Stored([v EXCEPT ![f] = u[f]], u, Fields)
<1>1. Stored([v EXCEPT ![f] = u[f]], u, Fields \ (g \ {f}))
  BY DEF Stored, Abstract!Usage
<1>2. g \ {f} = {} => Fields \ (g \ {f}) = Fields
  OBVIOUS
<1>3. QED
  BY <1>1, <1>2

LEMMA WriteFieldRecords ==
    ASSUME RegionInv, RegionInv', RecordsInv, NEW c \in Clients, WriteField(c)
    PROVE  RecordsInv' /\ UNCHANGED Abstract!recordsVars
<1>1. PICK o \in Writes : o = call[c]
  BY DEF WriteField, RegionInv, WriterOK, SectionLabels
<1>2. PICK i \in Slots : i = slot[c]
  BY DEF RegionInv, Typed, ProcTypeOK
<1>3. PICK g \in SUBSET Fields : g = todo[c]
  BY DEF RegionInv, Typed, ProcTypeOK
<1>4. PICK f \in g :
         /\ todo' = [todo EXCEPT ![c] = @ \ {f}]
         /\ process_stats' = [process_stats EXCEPT ![i] =
                                IF o.f = "process" THEN [@ EXCEPT ![f] = o.u[f]] ELSE @]
         /\ global_stats' = IF o.f = "global" THEN [global_stats EXCEPT ![f] = o.u[f]]
                                              ELSE global_stats
         /\ max_global' = IF o.f = "limits" THEN [max_global EXCEPT ![f] = o.u[f]] ELSE max_global
         /\ Goto(c, IF todo'[c] # {} THEN "write" ELSE IF o.f = "limits" THEN "unlock" ELSE "bump")
  BY <1>1, <1>2, <1>3 DEF WriteField
<1>5. PICK h : h = g \ {f}
  OBVIOUS
<1>6. PICK l : l = IF h # {} THEN "write" ELSE IF o.f = "limits" THEN "unlock" ELSE "bump"
  OBVIOUS
<1>7. /\ todo'[c] = h /\ pc'[c] = l /\ pc[c] = "write" /\ call'[c] = o /\ slot'[c] = i
      /\ shm_lock' # 0
      /\ UNCHANGED <<process_pids, version, committed>>
  <2>1. todo'[c] = h
    BY <1>3, <1>4, <1>5 DEF RegionInv, Typed, ProcTypeOK
  <2>2. pc'[c] = l
    BY <1>4, <1>6, <2>1 DEF Goto, RegionInv, Typed, ProcTypeOK
  <2>3. QED
    BY <1>1, <1>2, <2>1, <2>2 DEF WriteField, RegionInv, LockTells, SectionLabels
<1>8. /\ process_stats \in [Slots -> Abstract!Usage]
      /\ global_stats \in Abstract!Usage /\ max_global \in Abstract!Usage
  BY DEF RegionInv, Typed, ProcTypeOK
<1>9. Writing("write", o, i, g)
  BY <1>1, <1>2, <1>3, <1>7 DEF RecordsInv
<1>10. \A p : Room(p)' <=> Room(p)
  BY <1>7 DEF Room, Abstract!Reported
<1>11. CASE o.f = "process"
  <2>1. WritesProcess("write", i, g, o.p, o.u)
    BY <1>9, <1>11 DEF Writing
  <2>2. /\ process_stats' = [process_stats EXCEPT ![i] = [process_stats[i] EXCEPT ![f] = o.u[f]]]
        /\ UNCHANGED <<global_stats, max_global>>
    BY <1>4, <1>11
  <2>3. process_stats'[i] = [process_stats[i] EXCEPT ![f] = o.u[f]]
        /\ \A j \in Slots \ {i} : process_stats'[j] = process_stats[j]
    BY <1>8, <2>2
  <2>4. ASSUME NEW q \in Pids \ {o.p} PROVE Agrees(q)'
    <3>1. Agrees(q) /\ \A j \in Slots : process_pids[j] = q => j # i
      BY <2>1, <2>4 DEF WritesProcess
    <3>2. QED
      BY <1>7, <2>3, <3>1 DEF Agrees, HasSlot
  <2>5. Stored(process_stats'[i], o.u, IF l = "write" THEN Fields \ h ELSE Fields)
    BY <1>5, <1>6, <1>8, <2>1, <2>3, StoredNext DEF WritesProcess
  <2>6. l \in {"write", "bump"}
    BY <1>6, <1>11
  <2>7. WritesProcess(l, i, h, o.p, o.u)'
    BY <1>7, <1>10, <2>1, <2>2, <2>4, <2>5, <2>6 DEF WritesProcess, Stored
  <2>8. WroteSoFar(c)'
    BY <1>7, <1>11, <2>6, <2>7 DEF WroteSoFar, Writing
  <2>9. QED
    BY <1>7, <2>6, <2>8, WriterRecords DEF SectionLabels
<1>12. CASE o.f = "global"
  <2>1. WritesGlobal("write", g, o.u)
    BY <1>9, <1>12 DEF Writing
  <2>2. /\ global_stats' = [global_stats EXCEPT ![f] = o.u[f]]
        /\ UNCHANGED <<process_stats, max_global>>
    BY <1>4, <1>8, <1>12
  <2>3. Stored(global_stats', o.u, IF l = "write" THEN Fields \ h ELSE Fields)
    BY <1>5, <1>6, <1>8, <2>1, <2>2, StoredNext DEF WritesGlobal
  <2>4. l \in {"write", "bump"}
    BY <1>6, <1>12
  <2>5. RecordsAgree'
    BY <1>7, <2>1, <2>2 DEF WritesGlobal, RecordsAgree, Agrees, HasSlot
  <2>6. WritesGlobal(l, h, o.u)'
    BY <1>7, <2>1, <2>2, <2>3, <2>4, <2>5 DEF WritesGlobal, Stored
  <2>7. WroteSoFar(c)'
    BY <1>7, <1>12, <2>4, <2>6 DEF WroteSoFar, Writing
  <2>8. QED
    BY <1>7, <2>4, <2>7, WriterRecords DEF SectionLabels
<1>13. CASE o.f = "limits"
  <2>1. WritesLimits("write", g, o.u)
    BY <1>9, <1>13 DEF Writing
  <2>2. /\ max_global' = [max_global EXCEPT ![f] = o.u[f]]
        /\ UNCHANGED <<process_stats, global_stats>>
    BY <1>4, <1>8, <1>13
  <2>3. Stored(max_global', o.u, IF l = "write" THEN Fields \ h ELSE Fields)
    BY <1>5, <1>6, <1>8, <2>1, <2>2, StoredNext DEF WritesLimits
  <2>4. l \in {"write", "unlock"}
    BY <1>6, <1>13
  <2>5. RecordsAgree'
    BY <1>7, <2>1, <2>2 DEF WritesLimits, RecordsAgree, Agrees, HasSlot
  <2>6. WritesLimits(l, h, o.u)'
    BY <1>7, <2>1, <2>2, <2>3, <2>4, <2>5 DEF WritesLimits, Stored
  <2>7. WroteSoFar(c)'
    BY <1>7, <1>13, <2>4, <2>6 DEF WroteSoFar, Writing
  <2>8. QED
    BY <1>7, <2>4, <2>7, WriterRecords DEF SectionLabels
<1>14. QED
  BY <1>11, <1>12, <1>13, CallFields

LEMMA BumpRecords ==
    ASSUME RegionInv, RegionInv', RecordsInv, NEW c \in Clients, Bump(c)
    PROVE  RecordsInv' /\ UNCHANGED Abstract!recordsVars
<1>1. PICK o \in Writes : o = call[c]
  BY DEF Bump, RegionInv, WriterOK, SectionLabels
<1>2. PICK i, g : i = slot[c] /\ g = todo[c]
  OBVIOUS
<1>3. /\ pc[c] = "bump" /\ pc'[c] = "unlock" /\ call'[c] = o /\ slot'[c] = i /\ todo'[c] = g
      /\ shm_lock' # 0 /\ version' = version + 1
      /\ UNCHANGED <<process_pids, process_stats, global_stats, max_global, committed>>
  BY <1>1, <1>2 DEF Bump, Goto, regionVars, RegionInv, Typed, ProcTypeOK, LockTells, SectionLabels
<1>4. Writing("bump", o, i, g)
  BY <1>1, <1>2, <1>3 DEF RecordsInv
<1>5. RecordsAgree' <=> RecordsAgree
  BY <1>3 DEF RecordsAgree, Agrees, HasSlot
<1>6. CASE o.f = "process"
  <2>1. WritesProcess("bump", i, g, o.p, o.u)
    BY <1>4, <1>6 DEF Writing
  <2>2. (\A p : Agrees(p)' <=> Agrees(p)) /\ (\A p : Room(p)' <=> Room(p))
    BY <1>3 DEF Agrees, HasSlot, Room, Abstract!Reported
  <2>3. WritesProcess("unlock", i, g, o.p, o.u)'
    BY <1>3, <2>1, <2>2 DEF WritesProcess, Stored
  <2>4. WroteSoFar(c)'
    BY <1>3, <1>6, <2>3 DEF WroteSoFar, Writing
  <2>5. QED
    BY <1>3, <2>4, WriterRecords DEF SectionLabels
<1>7. CASE o.f = "global"
  <2>1. WritesGlobal("bump", g, o.u)
    BY <1>4, <1>7 DEF Writing
  <2>2. WritesGlobal("unlock", g, o.u)'
    BY <1>3, <1>5, <2>1 DEF WritesGlobal, Stored
  <2>3. WroteSoFar(c)'
    BY <1>3, <1>7, <2>2 DEF WroteSoFar, Writing
  <2>4. QED
    BY <1>3, <2>3, WriterRecords DEF SectionLabels
<1>8. QED
  BY <1>4, <1>6, <1>7, CallFields DEF Writing

(* Releasing the lock is the one step that ProcessRecords makes of the      *)
(* call, or none when the table was full.                                   *)
LEMMA UnlockRecords ==
    ASSUME RegionInv, RegionInv', RecordsInv, NEW c \in Clients, Unlock(c), Sole
    PROVE  RecordsInv' /\ [Abstract!RecordsNext]_(Abstract!recordsVars)
<1>1. PICK o \in Writes : o = call[c]
  BY DEF Unlock, RegionInv, WriterOK, SectionLabels
<1>2. PICK i \in Slots : i = slot[c]
  BY DEF RegionInv, Typed, ProcTypeOK
<1>3. PICK g : g = todo[c]
  OBVIOUS
<1>4. /\ pc[c] = "unlock" /\ pc' = [pc EXCEPT ![c] = "idle"]
      /\ committed' = Region
      /\ UNCHANGED <<process_pids, process_stats, global_stats, max_global, version>>
  BY DEF Unlock, Commit, Goto, regionVars
<1>5. Writing("unlock", o, i, g)
  BY <1>1, <1>2, <1>3, <1>4 DEF RecordsInv
<1>6. committed'.records \in [Pids -> Abstract!Usage \cup {NoRecord}] /\ Committed'
  BY <1>4, CommitRegion
<1>7. RecordsInv'
  <2>1. ASSUME NEW d \in Clients PROVE WroteSoFar(d)'
    <3>1. pc'[d] \notin SectionLabels
      BY <1>4, <2>1 DEF RegionInv, Typed, ProcTypeOK, OneWriter, SectionLabels
    <3>2. QED
      BY <3>1, IdleWrote
  <2>2. QED
    BY <1>6, <2>1 DEF RecordsInv, WroteSoFar
<1>8. /\ committed'.global = global_stats /\ committed'.limits = max_global
      /\ committed'.version = version
  BY <1>4, <1>6 DEF Committed
<1>9. committed.records \in [Pids -> Abstract!Usage \cup {NoRecord}]
  BY DEF RecordsInv
<1>10. ASSUME NEW p \in Pids, Agrees(p)
       PROVE  committed'.records[p] = committed.records[p]
  <2>1. Agrees(p)' /\ (HasSlot(p)' <=> HasSlot(p))
    BY <1>4, <1>6 DEF Committed, RecordsAgree, HasSlot
  <2>2. CASE HasSlot(p)
    BY <1>4, <1>10, <2>1, <2>2 DEF Agrees, HasSlot
  <2>3. CASE ~HasSlot(p)
    BY <1>10, <2>1, <2>3 DEF Agrees
  <2>4. QED
    BY <2>2, <2>3
<1>11. RecordsAgree => committed'.records = committed.records
  BY <1>6, <1>9, <1>10 DEF RecordsAgree
<1>12. \A v, u \in Abstract!Usage : Stored(v, u, Fields) => v = u
  BY DEF Stored, Abstract!Usage
<1>13. CASE Committed
  BY <1>7, <1>8, <1>11, <1>13 DEF Committed, Abstract!recordsVars
<1>14. CASE o.f = "process" /\ WritesProcess("unlock", i, g, o.p, o.u)
  <2>1. o.p \in Pids /\ o.u \in Usages /\ o.u \in Abstract!Usage
    BY <1>14, CallFields, ProcAssumption
  <2>2. committed'.records[o.p] = process_stats[i] /\ process_stats[i] \in Abstract!Usage
    BY <1>4, <1>6, <1>14, <2>1
    DEF WritesProcess, Committed, RecordsAgree, Agrees, RegionInv, Typed, ProcTypeOK
  <2>3. process_stats[i] = o.u
    BY <1>12, <1>14, <2>1, <2>2 DEF WritesProcess
  <2>4. \A q \in Pids \ {o.p} : committed'.records[q] = committed.records[q]
    BY <1>10, <1>14 DEF WritesProcess
  <2>5. committed'.records = [committed.records EXCEPT ![o.p] = o.u]
    BY <1>6, <1>9, <2>1, <2>2, <2>3, <2>4
  <2>6. /\ o.p \in Abstract!Reported \/ Abstract!Cardinality(Abstract!Reported) < MaxProcesses
        /\ committed'.version = committed.version + 1
        /\ UNCHANGED <<committed.global, committed.limits>>
    BY <1>8, <1>14, SameCardinality DEF WritesProcess, Room
  <2>7. Abstract!PutProcess(o.p, o.u)
    BY <2>5, <2>6 DEF Abstract!PutProcess
  <2>8. QED
    BY <1>7, <2>1, <2>7 DEF Abstract!RecordsNext
<1>15. CASE o.f = "global" /\ WritesGlobal("unlock", g, o.u)
  <2>1. o.u \in Usages /\ o.u \in Abstract!Usage /\ global_stats \in Abstract!Usage
    BY <1>15, CallFields, ProcAssumption DEF RegionInv, Typed, ProcTypeOK
  <2>2. global_stats = o.u
    BY <1>12, <1>15, <2>1 DEF WritesGlobal
  <2>3. Abstract!PutGlobal(o.u)
    BY <1>8, <1>11, <1>15, <2>2 DEF WritesGlobal, Abstract!PutGlobal
  <2>4. QED
    BY <1>7, <2>1, <2>3 DEF Abstract!RecordsNext
<1>16. CASE o.f = "limits" /\ WritesLimits("unlock", g, o.u)
  <2>1. o.u \in Limits /\ o.u \in Abstract!Usage /\ max_global \in Abstract!Usage
    BY <1>16, CallFields, ProcAssumption DEF RegionInv, Typed, ProcTypeOK
  <2>2. max_global = o.u
    BY <1>12, <1>16, <2>1 DEF WritesLimits
  <2>3. Abstract!SetLimits(o.u)
    BY <1>8, <1>11, <1>16, <2>2 DEF WritesLimits, Abstract!SetLimits
  <2>4. QED
    BY <1>7, <2>1, <2>3 DEF Abstract!RecordsNext
<1>17. QED
  BY <1>5, <1>13, <1>14, <1>15, <1>16 DEF Writing

LEMMA StampRecords ==
    ASSUME RegionInv, RegionInv', RecordsInv, NEW c \in Clients, Stamp(c), Sole'
    PROVE  RecordsInv' /\ [Abstract!RecordsNext]_(Abstract!recordsVars)
<1>1. version = 0 /\ Pristine /\ \A d \in Clients : pc[d] \in Outside
  BY DEF Stamp, RegionInv, ResetAlone, Starting
<1>2. /\ pc' = [pc EXCEPT ![c] = "idle"] /\ max_global' = DefaultLimits /\ version' = 1
      /\ UNCHANGED <<process_pids, process_stats, global_stats>>
      /\ committed' = Region'
  BY DEF Stamp, Goto, Commit, Sole
<1>3. Committed
  BY <1>1 DEF Pristine, RecordsInv
<1>4. \A p \in Pids : ~HasSlot(p) /\ ~HasSlot(p)'
  BY <1>1, <1>2, ProcAssumption DEF Pristine, HasSlot
<1>5. /\ committed'.records = [p \in Pids |-> NoRecord]
      /\ committed'.global = global_stats' /\ committed'.limits = DefaultLimits
      /\ committed'.version = 1
  BY <1>2, <1>4 DEF Region
<1>6. Committed'
  BY <1>2, <1>4, <1>5 DEF Committed, RecordsAgree, Agrees, HasSlot
<1>7. RecordsInv'
  <2>1. ASSUME NEW d \in Clients PROVE WroteSoFar(d)'
    <3>1. pc'[d] \notin SectionLabels
      BY <1>1, <1>2, <2>1 DEF Starting, Outside, SectionLabels, RegionInv, Typed, ProcTypeOK
    <3>2. QED
      BY <3>1, IdleWrote
  <2>2. QED
    BY <1>5, <1>6, <2>1 DEF RecordsInv, WroteSoFar
<1>8. committed.records = [p \in Pids |-> NoRecord]
  <2>1. \A p \in Pids : committed.records[p] = NoRecord
    BY <1>3, <1>4 DEF Committed, RecordsAgree, Agrees
  <2>2. QED
    BY <2>1 DEF RecordsInv
<1>9. Abstract!Initialise
  BY <1>1, <1>2, <1>3, <1>5, <1>8 DEF Committed, Abstract!Initialise
<1>10. QED
  BY <1>7, <1>9 DEF Abstract!RecordsNext

(* Every step of a client in the region. *)
LEMMA StepRecords ==
    ASSUME RegionInv, RegionInv', RecordsInv, NEW c \in Clients, Step(c), Sole'
    PROVE  RecordsInv' /\ [Abstract!RecordsNext]_(Abstract!recordsVars)
<1>1. CASE Attach(c) \/ EnterWrite(c)
  BY <1>1, QuietRecords DEF Attach, EnterWrite, Goto, SectionLabels, RegionInv, Typed, ProcTypeOK
<1>2. CASE ClearGlobal(c) \/ ResetSlot(c)
  <2>1. UNCHANGED <<regionVars, shm_lock, version, committed, call, todo>>
    BY <1>2, ClearGlobalInv, ResetSlotInv DEF ClearGlobal, ResetSlot, regionVars
  <2>2. ASSUME NEW d \in Clients, pc'[d] \in SectionLabels
        PROVE  d # c /\ pc'[d] = pc[d] /\ slot'[d] = slot[d]
    <3>1. d # c
      BY <1>2, <2>2 DEF ClearGlobal, ResetSlot, Goto, SectionLabels, RegionInv, Typed, ProcTypeOK
    <3>2. QED
      BY <1>2, <2>2, <3>1 DEF ClearGlobal, ResetSlot, Goto, RegionInv, Typed, ProcTypeOK
  <2>3. QED
    BY <2>1, <2>2, QuietRecords
<1>3. CASE Stamp(c) \/ Unlock(c)
  BY <1>3, StampRecords, UnlockRecords DEF Unlock, Sole
<1>4. CASE Lock(c) \/ Scan(c) \/ Claim(c) \/ WriteField(c) \/ Bump(c)
  BY <1>4, LockRecords, ScanRecords, ClaimRecords, WriteFieldRecords, BumpRecords
<1>5. CASE EnterRead(c) \/ Find(c) \/ ReadField(c) \/ ReturnRead(c)
  <2>1. UNCHANGED <<regionVars, shm_lock, version, committed>>
    BY <1>5 DEF EnterRead, Find, ReadField, ReturnRead
  <2>2. pc[c] \in {"idle", "find", "read", "done"}
        /\ \E l \in {"idle", "find", "read", "done"} : pc' = [pc EXCEPT ![c] = l]
    BY <1>5 DEF EnterRead, Find, ReadField, ReturnRead, Goto
  <2>3. \A d \in Clients \ {c} : call'[d] = call[d] /\ slot'[d] = slot[d] /\ todo'[d] = todo[d]
    <3>1. call \in [Clients -> Writes \cup Reads \cup {NoCall}] /\ slot \in [Clients -> Slots]
          /\ todo \in [Clients -> SUBSET Fields]
      BY DEF RegionInv, Typed, ProcTypeOK
    <3>2. CASE EnterRead(c)
      BY <3>1, <3>2 DEF EnterRead
    <3>3. CASE Find(c) \/ ReadField(c) \/ ReturnRead(c)
      BY <3>1, <3>3 DEF Find, ReadField, ReturnRead
    <3>4. QED
      BY <1>5, <3>2, <3>3
  <2>4. \A d \in Clients : pc'[d] \in SectionLabels => d # c /\ pc'[d] = pc[d]
    BY <2>2 DEF SectionLabels, RegionInv, Typed, ProcTypeOK
  <2>5. QED
    BY <2>1, <2>3, <2>4, QuietRecords
<1>6. QED
  BY <1>1, <1>2, <1>3, <1>4, <1>5 DEF Step

(* The collector begins a call or leaves: it writes nothing yet. *)
LEMMA MoveRecords ==
    ASSUME RegionInv, RecordsInv, NEW l \in {"spin", "detached"}, Goto(Service, l),
           \A d \in Clients \ {Service} : call'[d] = call[d],
           UNCHANGED <<regionVars, shm_lock, version, committed, slot, todo>>
    PROVE  RecordsInv' /\ UNCHANGED Abstract!recordsVars
<1>1. ASSUME NEW d \in Clients, pc'[d] \in SectionLabels
      PROVE  d # Service /\ pc'[d] = pc[d]
  BY <1>1, ServiceIsClient DEF Goto, SectionLabels, RegionInv, Typed, ProcTypeOK
<1>2. QED
  BY <1>1, QuietRecords

LEMMA BeginRecords ==
    ASSUME RegionInv, RecordsInv, NEW o, Begin(o)
    PROVE  RecordsInv' /\ UNCHANGED Abstract!recordsVars
<1>1. \A d \in Clients \ {Service} : call'[d] = call[d]
  BY DEF Begin, RegionInv, Typed, ProcTypeOK
<1>2. QED
  BY <1>1, MoveRecords DEF Begin

(* A step that is not one of the region's. *)
LEMMA SameRecords ==
    ASSUME RecordsInv, UNCHANGED procVars
    PROVE  RecordsInv' /\ UNCHANGED Abstract!recordsVars
<1>1. UNCHANGED <<regionVars, shm_lock, version, committed, pc, call, slot, todo>>
  BY DEF procVars, clientVars
<1>2. QED
  BY <1>1, QuietRecords

LEMMA RecordsStep ==
    ASSUME CollectorInv, Sole', RecordsInv, [CollectorNext]_collectorVars
    PROVE  RecordsInv' /\ [Abstract!RecordsNext]_(Abstract!recordsVars)
<1>a. RegionInv /\ RegionInv'
  BY CollectorStep DEF CollectorInv
<1>1. CASE Start \/ signal_handler \/ KernelCounts \/ Loop \/ NextKey \/ Sleep
           \/ UNCHANGED collectorVars
  <2>1. UNCHANGED procVars
    BY <1>1 DEF Start, signal_handler, KernelCounts, Loop, NextKey, Sleep, collectorVars
  <2>2. QED
    BY <2>1, SameRecords
<1>2. CASE PublishLimits
  BY <1>2, <1>a, BeginRecords DEF PublishLimits
<1>3. CASE CopyGlobal
  <2>1. Begin([f |-> "global", u |-> kernel.global]) \/ UNCHANGED procVars
    BY <1>3 DEF CopyGlobal
  <2>2. QED
    BY <1>a, <2>1, BeginRecords, SameRecords
<1>4. CASE CopyProcess
  <2>1. Begin([f |-> "process", p |-> key, u |-> kernel.process[key]]) \/ UNCHANGED procVars
    BY <1>4 DEF CopyProcess
  <2>2. QED
    BY <1>a, <2>1, BeginRecords, SameRecords
<1>5. CASE OpenMaps \/ cleanup_service
  <2>1. UNCHANGED <<regionVars, shm_lock, version, call, slot, todo, got, calls, committed, inits, published>>
    BY <1>5 DEF OpenMaps, cleanup_service
  <2>2. UNCHANGED pc \/ Goto(Service, "detached")
    BY <1>5 DEF OpenMaps, cleanup_service
  <2>3. CASE UNCHANGED pc
    BY <2>1, <2>3, SameRecords DEF procVars, clientVars
  <2>4. CASE Goto(Service, "detached")
    BY <1>a, <2>1, <2>4, MoveRecords
  <2>5. QED
    BY <2>2, <2>3, <2>4
<1>6. CASE InRegion
  <2>1. Step(Service)
    BY <1>6 DEF InRegion, Step
  <2>2. QED
    BY <1>a, <2>1, ServiceIsClient, StepRecords
<1>7. CASE \E c \in Clients : OtherStep(c)
  <2>1. PICK c \in Clients : Step(c)
    BY <1>7 DEF OtherStep
  <2>2. QED
    BY <1>a, <2>1, StepRecords
<1>8. QED
  BY <1>1, <1>2, <1>3, <1>4, <1>5, <1>6, <1>7 DEF CollectorNext, ServiceStep

(* A new region holds no records. *)
LEMMA RecordsInitInv == CollectorInit => RecordsInv /\ Abstract!RecordsInit
<1> SUFFICES ASSUME CollectorInit PROVE RecordsInv /\ Abstract!RecordsInit
  OBVIOUS
<1>1. ProcInit
  BY DEF CollectorInit
<1>2. \A p \in Pids : ~HasSlot(p)
  BY <1>1, ProcAssumption DEF ProcInit, HasSlot
<1>3. /\ committed.records = [p \in Pids |-> NoRecord]
      /\ committed.global = Zero /\ committed.limits = Zero /\ committed.version = 0
  BY <1>1, <1>2 DEF ProcInit, Region
<1>4. Committed
  BY <1>1, <1>2, <1>3 DEF ProcInit, Committed, RecordsAgree, Agrees, HasSlot
<1>5. \A c \in Clients : Writing(pc[c], call[c], slot[c], todo[c])
  BY <1>1 DEF ProcInit, Writing
<1>6. RecordsInv
  BY <1>3, <1>4, <1>5 DEF RecordsInv
<1>7. Abstract!RecordsInit
  BY <1>3 DEF Abstract!RecordsInit, Zero, NoRecord
<1>8. QED
  BY <1>6, <1>7

(* Whatever the collector and the other clients do, scanning the slots and  *)
(* storing the fields of a record one at a time, between two releases of    *)
(* the lock a whole record is replaced, or nothing: the region implements   *)
(* ProcessRecords.                                                          *)
THEOREM RecordsAreWhole == CollectorSpec => ImplementsRecords
<1> DEFINE IInv == Safe /\ (Sole => RecordsInv)
<1>1. IInv /\ [CollectorNext]_collectorVars => IInv' /\ [Abstract!RecordsNext]_(Abstract!recordsVars)
  <2> SUFFICES ASSUME IInv, [CollectorNext]_collectorVars
               PROVE  IInv' /\ [Abstract!RecordsNext]_(Abstract!recordsVars)
    OBVIOUS
  <2>1. Safe' /\ (Sole' => Sole) /\ (~Sole' => UNCHANGED committed)
    BY SafeHolds, InitsCount DEF Safe
  <2>2. CASE Sole'
    BY <2>1, <2>2, RecordsStep DEF Safe
  <2>3. CASE ~Sole'
    <3>1. UNCHANGED Abstract!recordsVars
      BY <2>1, <2>3 DEF Abstract!recordsVars
    <3>2. QED
      BY <2>1, <2>3, <3>1
  <2>4. QED
    BY <2>2, <2>3
<1>2. CollectorInit => IInv /\ Abstract!RecordsInit
  BY SafeHolds, RecordsInitInv
<1>3. QED
  BY <1>1, <1>2, PTL DEF CollectorSpec, ImplementsRecords, Abstract!RecordsSpec

-----------------------------------------------------------------------------
(* A round.  Where the collector stands when it is in none. *)
BetweenRounds ==
    /\ ~InRound => key = 0 /\ visited = {}
    /\ cpc = "global" => key = 0 /\ visited = {}

(* What the round remembers of the maps, and of the others. *)
RoundSeen ==
    /\ visited \subseteq Pids /\ key \in Pids \cup {0}
    /\ seen \in [global : SUBSET (Usages \cup {NoRecord}), process : [Pids -> SUBSET Usages]]
    /\ kernel.global \in seen.global
    /\ \A p \in Pids : kernel.process[p] \in seen.process[p] \cup {NoRecord}
    /\ throughout \subseteq InMap
    /\ Reporting(call) \subseteq own

(* The call that the collector is in carries what the round has seen, and   *)
(* when it is about to release the lock it has stored that, or found no     *)
(* slot.                                                                    *)
InCall == pc[Service] # "idle"
Copying(p) == InCall /\ call[Service].f = "process" /\ call[Service].p = p
SlotsHold(p, S) == \A i \in Slots : process_pids[i] = p => process_stats[i] \in S

RoundCall ==
    InCall =>
      LET o == call[Service] IN
      /\ o.f = "process" => /\ o.u \in seen.process[o.p]
                            /\ pc[Service] = "unlock" => SlotsHold(o.p, {o.u})
      /\ o.f = "global" => /\ o.u \in seen.global
                           /\ pc[Service] = "unlock" => global_stats = o.u

CopiedGlobal ==
    cpc # "global" /\ "global" \in mapped /\ NoRecord \notin seen.global =>
        global_stats \in seen.global \/ (InCall /\ call[Service].f = "global")

(* Processes that stayed in the map and were not copied lie ahead. *)
Ahead ==
    /\ cpc = "next" => \A q \in throughout \ visited : key # 0 => Place(q) > Place(key)
    /\ cpc = "lookup" => key \in Pids /\ \A q \in throughout \ visited : Place(q) >= Place(key)
    /\ cpc = "sleep" /\ "process" \in mapped => throughout \subseteq visited

CopiedRecords ==
    \A p \in visited \ own : Copying(p) \/ SlotsHold(p, seen.process[p])

RoundInv ==
    /\ BetweenRounds
    /\ InRound => RoundSeen /\ RoundCall /\ CopiedGlobal /\ Ahead /\ CopiedRecords

LEMMA PlaceOf == \A p \in Pids : Place(p) \in Nat /\ KeyOrder[Place(p)] = p
<1> SUFFICES ASSUME NEW p \in Pids PROVE Place(p) \in Nat /\ KeyOrder[Place(p)] = p
  OBVIOUS
<1>1. PICK k : k = CHOOSE i \in DOMAIN KeyOrder : KeyOrder[i] = p
  OBVIOUS
<1>2. k \in DOMAIN KeyOrder /\ KeyOrder[k] = p
  BY <1>1, KeyOrderAssumption
<1>3. k \in Nat
  BY <1>2, KeyOrderAssumption
<1>4. QED
  BY <1>1, <1>2, <1>3 DEF Place

LEMMA LeastNumber ==
    ASSUME NEW T, T \subseteq Nat, T # {}
    PROVE  \E x \in T : \A y \in T : x <= y
<1>1. PICK R : R = OpToRel(<, Nat)
  OBVIOUS
<1>2. IsWellFoundedOn(R, Nat)
  BY <1>1, NatLessThanWellFounded, Zenon
<1>3. R = {n \in Nat \X Nat : n[1] < n[2]}
  BY <1>1, Zenon DEF OpToRel
<1>4. \A x, y \in Nat : x < y => <<x, y>> \in R
  BY <1>3
<1>5. PICK x \in T : \A y \in T : ~(<<y, x>> \in R)
  BY <1>2, WFMin
<1>6. \A y \in T : x \in Nat /\ y \in Nat /\ ~(y < x)
  BY <1>4, <1>5
<1>7. QED
  BY <1>6

(* The walk finds a first key where there is one. *)
LEMMA FirstKey ==
    ASSUME NEW S \in SUBSET Pids, S # {}
    PROVE  \E p \in S : \A q \in S : Place(p) <= Place(q)
<1>1. PICK T : T = {Place(p) : p \in S}
  OBVIOUS
<1>2. T \subseteq Nat /\ T # {}
  BY <1>1, PlaceOf
<1>3. PICK x \in T : \A y \in T : x <= y
  BY <1>2, LeastNumber
<1>4. QED
  BY <1>1, <1>3

(* The key that the walk yields, and when it yields none. *)
LEMMA NextKeyAhead ==
    ASSUME NEW p \in bpf_map_get_next_key(key), key \in Pids \cup {0}
    PROVE  /\ p \in InMap
           /\ \A q \in InMap : (key \in InMap => Place(q) > Place(key)) => Place(q) >= Place(p)
<1>1. p \in InMap /\ InMap \subseteq Pids
  BY DEF bpf_map_get_next_key, InMap
<1>2. ASSUME NEW q \in InMap, key \in InMap => Place(q) > Place(key)
      PROVE  Place(q) >= Place(p)
  BY <1>1, <1>2, PlaceOf DEF bpf_map_get_next_key
<1>3. QED
  BY <1>1, <1>2

LEMMA NoKeyLeft ==
    ASSUME bpf_map_get_next_key(key) = {}
    PROVE  \A q \in InMap : key \in InMap /\ ~(Place(q) > Place(key))
<1> SUFFICES ASSUME NEW q \in InMap, key \in InMap => Place(q) > Place(key) PROVE FALSE
  OBVIOUS
<1> DEFINE after == {p \in InMap : key \in InMap => Place(p) > Place(key)}
<1>1. after \in SUBSET Pids /\ q \in after
  BY DEF InMap
<1> HIDE DEF after
<1>2. PICK p \in after : \A r \in after : Place(p) <= Place(r)
  BY <1>1, FirstKey
<1>3. p \in bpf_map_get_next_key(key)
  BY <1>2 DEF bpf_map_get_next_key, after
<1>4. QED
  BY <1>3

(* A step of a client in the region leaves the records of the processes     *)
(* that it does not report on alone.                                        *)
LEMMA StepSlots ==
    ASSUME RegionInv, NEW c \in Clients, Step(c), NEW p \in Pids,
           ~(pc[c] \in SectionLabels /\ call[c].f = "process" /\ call[c].p = p),
           NEW S, SlotsHold(p, S)
    PROVE  SlotsHold(p, S)'
<1> SUFFICES ASSUME NEW i \in Slots, process_pids'[i] = p
             PROVE  process_pids[i] = p /\ process_stats'[i] = process_stats[i]
  BY DEF SlotsHold
<1>1. process_pids \in [Slots -> Pids \cup {0}] /\ process_stats \in [Slots -> Abstract!Usage]
      /\ slot[c] \in Slots
  BY DEF RegionInv, Typed, ProcTypeOK
<1>2. CASE ClearGlobal(c) \/ ResetSlot(c)
  BY <1>2, ClearGlobalInv, ResetSlotInv DEF ClearGlobal, ResetSlot, regionVars
<1>3. CASE Claim(c)
  <2>1. call[c].f = "process" /\ call[c].p # p
    BY <1>3 DEF Claim, RegionInv, WriterOK, SectionLabels
  <2>2. QED
    BY <1>1, <1>3, <2>1 DEF Claim
<1>4. CASE WriteField(c)
  <2>1. call[c].f = "process" => process_pids[slot[c]] # p
    BY <1>4 DEF WriteField, RegionInv, WriterOK, SectionLabels
  <2>2. i # slot[c] => process_stats'[i] = process_stats[i]
    BY <1>1, <1>4 DEF WriteField
  <2>3. call[c].f # "process" => process_stats'[i] = process_stats[i]
    BY <1>1, <1>4 DEF WriteField
  <2>4. UNCHANGED process_pids
    BY <1>4 DEF WriteField
  <2>5. QED
    BY <2>1, <2>2, <2>3, <2>4
<1>5. CASE Attach(c) \/ Stamp(c) \/ EnterWrite(c) \/ Lock(c) \/ Scan(c) \/ Bump(c) \/ Unlock(c)
  BY <1>5 DEF Attach, Stamp, EnterWrite, Lock, Scan, Bump, Unlock, regionVars
<1>6. CASE EnterRead(c) \/ Find(c) \/ ReadField(c) \/ ReturnRead(c)
  BY <1>6 DEF EnterRead, Find, ReadField, ReturnRead, regionVars
<1>7. QED
  BY <1>2, <1>3, <1>4, <1>5, <1>6 DEF Step

(* What a writer that is about to release the lock has stored. *)
LEMMA BumpStored ==
    ASSUME RegionInv, RecordsInv, NEW c \in Clients, pc[c] = "bump"
    PROVE  /\ call[c].f = "process" => SlotsHold(call[c].p, {call[c].u})
           /\ call[c].f = "global" => global_stats = call[c].u
<1>1. PICK o : o = call[c]
  OBVIOUS
<1>2. o \in Writes
  BY <1>1 DEF RegionInv, WriterOK, SectionLabels
<1>3. slot[c] \in Slots /\ process_stats \in [Slots -> Abstract!Usage] /\ global_stats \in Abstract!Usage
  BY DEF RegionInv, Typed, ProcTypeOK
<1>4. Writing("bump", o, slot[c], todo[c])
  BY <1>1 DEF RecordsInv
<1>5. CASE o.f = "process"
  <2>1. WritesProcess("bump", slot[c], todo[c], o.p, o.u)
    BY <1>4, <1>5 DEF Writing
  <2>2. o.p \in Pids /\ o.u \in Abstract!Usage
    BY <1>2, <1>5, CallFields, ProcAssumption
  <2>3. process_pids[slot[c]] = o.p /\ process_stats[slot[c]] = o.u
    BY <1>3, <2>1, <2>2 DEF WritesProcess, Stored, Abstract!Usage
  <2>4. \A i \in Slots : process_pids[i] = o.p => i = slot[c]
    BY <1>3, <2>2, <2>3, ProcAssumption DEF RegionInv, SlotsOwned
  <2>5. QED
    BY <1>1, <1>5, <2>3, <2>4 DEF SlotsHold
<1>6. CASE o.f = "global"
  <2>1. WritesGlobal("bump", todo[c], o.u) /\ o.u \in Abstract!Usage
    BY <1>2, <1>4, <1>6, CallFields, ProcAssumption DEF Writing
  <2>2. global_stats = o.u
    BY <1>3, <2>1 DEF WritesGlobal, Stored, Abstract!Usage
  <2>3. QED
    BY <1>1, <1>6, <2>2
<1>7. QED
  BY <1>1, <1>5, <1>6

(* The collector inside the region's functions, in a round. *)
LEMMA InRegionRound ==
    ASSUME CollectorInv, RecordsInv, RoundInv, InRegion
    PROVE  RoundInv'
<1>1. /\ RegionInv /\ CollectorAt /\ Step(Service) /\ Service \in Clients
      /\ UNCHANGED <<deployed, cpc, mapped, kernel, key, seen, throughout, visited, own>>
  BY ServiceIsClient DEF CollectorInv, InRegion, Step, serviceVars, roundVars
<1>2. CASE ~InRound
  BY <1>1, <1>2 DEF RoundInv, BetweenRounds, InRound
<1>3. CASE InRound
  <2> DEFINE o == call[Service]
  <2>1. RoundSeen /\ RoundCall /\ CopiedGlobal /\ Ahead /\ CopiedRecords
    BY <1>3 DEF RoundInv
  <2>2. /\ \/ Lock(Service) \/ Scan(Service) \/ Claim(Service) \/ WriteField(Service)
           \/ Bump(Service) \/ Unlock(Service)
        /\ pc[Service] \in SectionLabels \cup {"spin"}
    BY <1>3 DEF InRegion, InRound, Lock, Scan, Claim, WriteField, Bump, Unlock, SectionLabels
  <2>3. InCall
    BY <2>2 DEF InCall, SectionLabels
  <2>4. \A d \in Clients \ {Service} : call'[d] = call[d]
    BY <1>1, StepMoves
  <2>5. o \in Writes
    BY <1>1, <2>2 DEF RegionInv, WriterOK
  <2>6. pc \in [Clients -> Labels]
    BY <1>1 DEF RegionInv, Typed, ProcTypeOK
  <2>7. RoundSeen'
    <3>1. Reporting(call') = Reporting(call)
      BY <2>4 DEF Reporting
    <3>2. QED
      BY <1>1, <2>1, <3>1 DEF RoundSeen, InMap
  <2>8. CASE Unlock(Service)
    <3>1. ~InCall' /\ UNCHANGED regionVars /\ pc[Service] = "unlock"
      BY <1>1, <2>6, <2>8 DEF Unlock, Goto, InCall
    <3>2. RoundCall'
      BY <3>1 DEF RoundCall
    <3>3. CopiedGlobal'
      BY <1>1, <2>1, <2>3, <3>1 DEF CopiedGlobal, RoundCall, regionVars
    <3>4. CopiedRecords'
      <4>1. ASSUME NEW p \in visited \ own PROVE SlotsHold(p, seen.process[p])
        BY <2>1, <2>3, <3>1, <4>1 DEF CopiedRecords, Copying, RoundCall, SlotsHold
      <4>2. QED
        BY <1>1, <3>1, <4>1 DEF CopiedRecords, SlotsHold, regionVars
    <3>5. QED
      BY <1>1, <1>3, <2>1, <2>7, <3>2, <3>3, <3>4 DEF RoundInv, BetweenRounds, InRound, Ahead
  <2>9. CASE ~Unlock(Service)
    <3>1. InCall' /\ call'[Service] = o
      BY <1>1, <2>2, <2>6, <2>9 DEF Lock, Scan, Claim, WriteField, Bump, Goto, InCall
    <3>2. pc'[Service] = "unlock" =>
            /\ o.f = "process" => SlotsHold(o.p, {o.u})'
            /\ o.f = "global" => global_stats' = o.u
      <4>1. CASE Bump(Service)
        BY <1>1, <4>1, BumpStored DEF Bump, SlotsHold, regionVars
      <4>2. CASE Scan(Service)
        <5>1. o.f = "process" /\ UNCHANGED regionVars
          BY <1>1, <4>2 DEF Scan, RegionInv, WriterOK
        <5>2. pc'[Service] = "unlock" => ~HasSlot(o.p)
          BY <1>1, <2>6, <4>2 DEF Scan, Goto
        <5>3. QED
          BY <3>1, <5>1, <5>2 DEF SlotsHold, HasSlot, regionVars
      <4>3. CASE WriteField(Service)
        BY <1>1, <2>6, <4>3 DEF WriteField, Goto
      <4>4. CASE Lock(Service) \/ Claim(Service)
        BY <1>1, <2>6, <4>4 DEF Lock, Claim, Goto
      <4>5. QED
        BY <2>2, <2>9, <4>1, <4>2, <4>3, <4>4
    <3>3. RoundCall'
      BY <1>1, <2>1, <2>3, <3>1, <3>2 DEF RoundCall
    <3>4. CopiedGlobal'
      <4>1. global_stats' = global_stats \/ o.f = "global"
        BY <1>1, StepMoves
      <4>2. QED
        BY <1>1, <2>1, <3>1, <4>1 DEF CopiedGlobal
    <3>5. CopiedRecords'
      <4>1. ASSUME NEW p \in visited \ own
            PROVE  Copying(p)' \/ SlotsHold(p, seen.process[p])'
        <5>1. CASE Copying(p)
          BY <3>1, <5>1 DEF Copying
        <5>2. CASE ~Copying(p)
          <6>1. p \in Pids /\ SlotsHold(p, seen.process[p])
            BY <2>1, <4>1, <5>2 DEF CopiedRecords, RoundSeen
          <6>2. PICK S : S = seen.process[p]
            OBVIOUS
          <6>3. SlotsHold(p, S)'
            BY <1>1, <2>3, <5>2, <6>1, <6>2, StepSlots DEF Copying
          <6>4. QED
            BY <1>1, <6>2, <6>3
        <5>3. QED
          BY <5>1, <5>2
      <4>2. QED
        BY <1>1, <4>1 DEF CopiedRecords
    <3>6. QED
      BY <1>1, <1>3, <2>1, <2>7, <3>3, <3>4, <3>5 DEF RoundInv, BetweenRounds, InRound, Ahead
  <2>10. QED
    BY <2>8, <2>9
<1>4. QED
  BY <1>2, <1>3

(* The other clients, in a round: they write no global counts, and only     *)
(* records of processes in own.                                             *)
LEMMA OtherStepRound ==
    ASSUME CollectorInv, RoundInv, NEW c \in Clients, OtherStep(c)
    PROVE  RoundInv'
<1>1. /\ RegionInv /\ CollectorAt /\ Step(c) /\ Service \in Clients /\ (c # Service \/ ~deployed)
      /\ UNCHANGED <<deployed, cpc, mapped, kernel, key, seen, throughout, visited>>
  BY ServiceIsClient DEF CollectorInv, OtherStep, serviceVars
<1>2. CASE ~InRound
  BY <1>1, <1>2 DEF RoundInv, BetweenRounds, InRound
<1>3. CASE InRound
  <2>1. RoundSeen /\ RoundCall /\ CopiedGlobal /\ Ahead /\ CopiedRecords
    BY <1>3 DEF RoundInv
  <2>2. deployed /\ c # Service /\ call[c].f # "global"
    BY <1>1, <1>3 DEF CollectorAt, KernelTyped, InRound
  <2>3. pc'[Service] = pc[Service] /\ call'[Service] = call[Service] /\ UNCHANGED global_stats
    BY <1>1, <2>2, StepMoves
  <2>4. own' = own \cup Reporting(call')
    BY <1>3 DEF OtherStep
  <2>5. RoundSeen'
    BY <1>1, <2>1, <2>4 DEF RoundSeen, InMap
  <2>6. RoundCall'
    <3>1. PICK o : o = call[Service]
      OBVIOUS
    <3>2. ASSUME pc[Service] = "unlock", o.f = "process" PROVE SlotsHold(o.p, {o.u})'
      <4>1. o \in Writes /\ pc[c] \notin SectionLabels
        BY <1>1, <2>2, <3>1, <3>2 DEF RegionInv, WriterOK, Typed, ProcTypeOK, OneWriter, SectionLabels
      <4>2. o.p \in Pids /\ SlotsHold(o.p, {o.u})
        BY <2>1, <3>1, <3>2, <4>1, CallFields DEF RoundCall, InCall
      <4>3. QED
        BY <1>1, <4>1, <4>2, StepSlots
    <3>3. QED
      BY <1>1, <2>1, <2>3, <3>1, <3>2 DEF RoundCall, InCall
  <2>7. CopiedGlobal'
    BY <1>1, <2>1, <2>3 DEF CopiedGlobal, InCall
  <2>8. CopiedRecords'
    <3>1. ASSUME NEW p \in visited \ own'
          PROVE  Copying(p)' \/ SlotsHold(p, seen.process[p])'
      <4>1. CASE Copying(p)
        BY <2>3, <4>1 DEF Copying, InCall
      <4>2. CASE ~Copying(p)
        <5>1. p \in Pids /\ p \notin own /\ SlotsHold(p, seen.process[p])
          BY <2>1, <2>4, <3>1, <4>2 DEF CopiedRecords, RoundSeen
        <5>2. ~(call[c].f = "process" /\ call[c].p = p)
          BY <2>1, <2>2, <5>1 DEF RoundSeen, Reporting
        <5>3. PICK S : S = seen.process[p]
          OBVIOUS
        <5>4. SlotsHold(p, S)'
          BY <1>1, <5>1, <5>2, <5>3, StepSlots
        <5>5. QED
          BY <1>1, <5>3, <5>4
      <4>3. QED
        BY <4>1, <4>2
    <3>2. QED
      BY <1>1, <3>1 DEF CopiedRecords
  <2>9. QED
    BY <1>1, <1>3, <2>1, <2>5, <2>6, <2>7, <2>8 DEF RoundInv, BetweenRounds, InRound, Ahead
<1>4. QED
  BY <1>2, <1>3

(* The maps change under the round. *)
LEMMA KernelRound ==
    ASSUME CollectorInv, RoundInv, KernelCounts
    PROVE  RoundInv'
<1>1. /\ UNCHANGED <<deployed, cpc, mapped, key, visited, own>>
      /\ UNCHANGED <<pc, call, process_pids, process_stats, global_stats>>
  BY DEF KernelCounts, procVars, clientVars, regionVars
<1>2. CASE ~InRound
  BY <1>1, <1>2 DEF RoundInv, BetweenRounds, InRound
<1>3. CASE InRound
  <2>1. RoundSeen /\ RoundCall /\ CopiedGlobal /\ Ahead /\ CopiedRecords
    BY <1>3 DEF RoundInv
  <2>2. kernel \in [global : Usages \cup {NoRecord}, process : [Pids -> Usages \cup {NoRecord}]]
    BY DEF CollectorInv, CollectorAt, KernelTyped
  <2>3. /\ seen' \in [global : SUBSET (Usages \cup {NoRecord}), process : [Pids -> SUBSET Usages]]
        /\ kernel'.global \in seen'.global
        /\ \A p \in Pids : kernel'.process[p] \in seen'.process[p] \cup {NoRecord}
        /\ seen.global \subseteq seen'.global
        /\ \A p \in Pids : seen.process[p] \subseteq seen'.process[p]
        /\ throughout' \subseteq throughout
        /\ \A p \in throughout' : kernel'.process[p] # NoRecord
    <3>1. CASE \E u \in KernelUsages \cup {NoRecord} :
                 /\ kernel' = [kernel EXCEPT !.global = u]
                 /\ seen' = IF InRound THEN [seen EXCEPT !.global = @ \cup {u}] ELSE seen
                 /\ UNCHANGED throughout
      <4>1. PICK u \in KernelUsages \cup {NoRecord} :
                 /\ kernel' = [kernel EXCEPT !.global = u]
                 /\ seen' = [seen EXCEPT !.global = @ \cup {u}]
                 /\ UNCHANGED throughout
        BY <1>3, <3>1
      <4>2. u \in Usages \cup {NoRecord}
        BY ServiceAssumption
      <4>3. /\ kernel'.global = u /\ kernel'.process = kernel.process
            /\ seen'.global = seen.global \cup {u} /\ seen'.process = seen.process
        BY <2>1, <2>2, <4>1 DEF RoundSeen
      <4>4. seen' \in [global : SUBSET (Usages \cup {NoRecord}), process : [Pids -> SUBSET Usages]]
        BY <2>1, <4>1, <4>2 DEF RoundSeen
      <4>5. QED
        BY <2>1, <4>1, <4>3, <4>4 DEF RoundSeen, InMap
    <3>2. CASE \E p \in Pids, u \in KernelUsages \cup {NoRecord} :
                 /\ kernel' = [kernel EXCEPT !.process[p] = u]
                 /\ seen' = IF InRound THEN [seen EXCEPT !.process[p] = @ \cup ({u} \ {NoRecord})]
                            ELSE seen
                 /\ throughout' = IF u = NoRecord THEN throughout \ {p} ELSE throughout
      <4>1. PICK p \in Pids, u \in KernelUsages \cup {NoRecord} :
                 /\ kernel' = [kernel EXCEPT !.process[p] = u]
                 /\ seen' = [seen EXCEPT !.process[p] = @ \cup ({u} \ {NoRecord})]
                 /\ throughout' = IF u = NoRecord THEN throughout \ {p} ELSE throughout
        BY <1>3, <3>2
      <4>2. u \in Usages \cup {NoRecord}
        BY ServiceAssumption
      <4>3. /\ kernel'.global = kernel.global
            /\ kernel'.process = [kernel.process EXCEPT ![p] = u]
            /\ seen'.global = seen.global
            /\ seen'.process = [seen.process EXCEPT ![p] = @ \cup ({u} \ {NoRecord})]
        BY <2>1, <2>2, <4>1 DEF RoundSeen
      <4>4. /\ \A q \in Pids : kernel'.process[q] = IF q = p THEN u ELSE kernel.process[q]
            /\ \A q \in Pids : seen'.process[q] = IF q = p THEN seen.process[q] \cup ({u} \ {NoRecord})
                                                  ELSE seen.process[q]
        BY <2>1, <2>2, <4>3 DEF RoundSeen
      <4>5. seen' \in [global : SUBSET (Usages \cup {NoRecord}), process : [Pids -> SUBSET Usages]]
        BY <2>1, <4>1, <4>2 DEF RoundSeen
      <4>6. \A q \in throughout' : q \in throughout /\ kernel'.process[q] # NoRecord
        BY <2>1, <4>1, <4>4 DEF RoundSeen, InMap
      <4>7. QED
        BY <2>1, <4>3, <4>4, <4>5, <4>6 DEF RoundSeen
    <3>3. QED
      BY <3>1, <3>2 DEF KernelCounts
  <2>4. RoundSeen'
    BY <1>1, <2>1, <2>3 DEF RoundSeen, InMap
  <2>5. RoundCall'
    <3>1. ASSUME InCall, call[Service].f = "process"
          PROVE  call[Service].u \in seen'.process[call[Service].p]
      <4>1. call[Service] \in Writes \cup Reads \cup {NoCall}
        BY ServiceIsClient DEF CollectorInv, RegionInv, Typed, ProcTypeOK
      <4>2. call[Service].p \in Pids
        BY <3>1, <4>1, CallFields DEF NoCall
      <4>3. QED
        BY <2>1, <2>3, <3>1, <4>2 DEF RoundCall
    <3>2. QED
      BY <1>1, <2>1, <2>3, <3>1 DEF RoundCall, InCall, SlotsHold
  <2>6. CopiedGlobal'
    BY <1>1, <2>1, <2>3 DEF CopiedGlobal, InCall
  <2>7. Ahead'
    BY <1>1, <2>1, <2>3 DEF Ahead
  <2>8. CopiedRecords'
    BY <1>1, <2>1, <2>3 DEF CopiedRecords, Copying, InCall, SlotsHold, RoundSeen
  <2>9. QED
    BY <1>1, <1>3, <2>4, <2>5, <2>6, <2>7, <2>8 DEF RoundInv, BetweenRounds, InRound
<1>4. QED
  BY <1>2, <1>3

(* A step of the collector's own loop. *)
LEMMA LoopRound ==
    ASSUME CollectorInv, RoundInv, Loop
    PROVE  RoundInv'
<1>1. /\ cpc = "loop" /\ key = 0 /\ visited = {}
      /\ UNCHANGED <<mapped, kernel, key, pc, call>>
  BY DEF Loop, RoundInv, BetweenRounds, InRound, procVars, clientVars
<1>2. pc[Service] = "idle"
      /\ kernel \in [global : Usages \cup {NoRecord}, process : [Pids -> Usages \cup {NoRecord}]]
  BY <1>1 DEF CollectorInv, CollectorAt, KernelTyped
<1>3. CASE cpc' = "exit" /\ UNCHANGED roundVars
  BY <1>1, <1>3 DEF RoundInv, BetweenRounds, InRound, roundVars
<1>4. CASE /\ cpc' = "global"
           /\ seen' = [global |-> {kernel.global},
                       process |-> [p \in Pids |-> {kernel.process[p]} \ {NoRecord}]]
           /\ throughout' = InMap /\ own' = Reporting(call) /\ UNCHANGED visited
  <2>1. RoundSeen'
    BY <1>1, <1>2, <1>4 DEF RoundSeen, InMap
  <2>2. RoundCall' /\ CopiedGlobal' /\ Ahead' /\ CopiedRecords'
    BY <1>1, <1>2, <1>4 DEF RoundCall, InCall, CopiedGlobal, Ahead, CopiedRecords
  <2>3. QED
    BY <1>1, <1>4, <2>1, <2>2 DEF RoundInv, BetweenRounds, InRound
<1>5. QED
  BY <1>3, <1>4 DEF Loop, GoTo

LEMMA CopyGlobalRound ==
    ASSUME CollectorInv, RoundInv, CopyGlobal
    PROVE  RoundInv'
<1>1. /\ cpc = "global" /\ cpc' = "next" /\ key = 0 /\ visited = {}
      /\ UNCHANGED <<mapped, kernel, key, seen, throughout, visited, own>>
  BY DEF CopyGlobal, GoTo, RoundInv, BetweenRounds, InRound, roundVars
<1>2. RoundSeen /\ pc[Service] = "idle" /\ Service \in Clients
  BY <1>1, ServiceIsClient DEF RoundInv, InRound, CollectorInv, CollectorAt, KernelTyped
<1>3. pc \in [Clients -> Labels] /\ call \in [Clients -> Writes \cup Reads \cup {NoCall}]
  BY DEF CollectorInv, RegionInv, Typed, ProcTypeOK
<1>4. Ahead' /\ CopiedRecords'
  BY <1>1 DEF Ahead, CopiedRecords
<1>5. CASE "global" \in mapped /\ kernel.global # NoRecord
  <2>1. /\ pc'[Service] = "spin" /\ call'[Service] = [f |-> "global", u |-> kernel.global]
        /\ \A d \in Clients \ {Service} : call'[d] = call[d]
    BY <1>2, <1>3, <1>5 DEF CopyGlobal, Begin, Goto
  <2>2. RoundSeen'
    <3>1. Reporting(call') = Reporting(call)
      BY <2>1 DEF Reporting
    <3>2. QED
      BY <1>1, <1>2, <3>1 DEF RoundSeen, InMap
  <2>3. RoundCall' /\ CopiedGlobal'
    BY <1>1, <1>2, <2>1 DEF RoundCall, CopiedGlobal, InCall, RoundSeen
  <2>4. QED
    BY <1>1, <1>4, <2>2, <2>3 DEF RoundInv, BetweenRounds, InRound
<1>6. CASE ~("global" \in mapped /\ kernel.global # NoRecord)
  <2>1. UNCHANGED <<pc, call>>
    BY <1>6 DEF CopyGlobal, procVars, clientVars
  <2>2. RoundSeen' /\ RoundCall' /\ CopiedGlobal'
    BY <1>1, <1>2, <1>6, <2>1 DEF RoundSeen, InMap, RoundCall, CopiedGlobal, InCall
  <2>3. QED
    BY <1>1, <1>4, <2>2 DEF RoundInv, BetweenRounds, InRound
<1>7. QED
  BY <1>5, <1>6

(* The walk: what stayed in the map and was not copied is after the key. *)
LEMMA NextKeyRound ==
    ASSUME CollectorInv, RoundInv, NextKey
    PROVE  RoundInv'
<1>1. /\ cpc = "next" /\ pc[Service] = "idle" /\ cpc' \in {"lookup", "sleep"}
      /\ UNCHANGED <<mapped, kernel, seen, throughout, visited, own>>
      /\ UNCHANGED <<pc, call, process_pids, process_stats, global_stats>>
  BY DEF NextKey, GoTo, roundVars, procVars, clientVars, regionVars
<1>2. RoundSeen /\ RoundCall /\ CopiedGlobal /\ Ahead /\ CopiedRecords
  BY <1>1 DEF RoundInv, InRound
<1>3. ASSUME NEW q \in throughout \ visited
      PROVE  q \in InMap /\ (key \in InMap => Place(q) > Place(key))
  BY <1>1, <1>2, <1>3, ProcAssumption DEF RoundSeen, Ahead, InMap
<1>4. Ahead' /\ key' \in Pids \cup {0}
  <2>1. CASE "process" \in mapped /\ key' \in bpf_map_get_next_key(key) /\ cpc' = "lookup"
    <3>1. key' \in InMap /\ \A q \in throughout \ visited : Place(q) >= Place(key')
      BY <1>2, <1>3, <2>1, NextKeyAhead DEF RoundSeen
    <3>2. QED
      BY <1>1, <2>1, <3>1 DEF Ahead, InMap
  <2>2. CASE /\ "process" \notin mapped \/ bpf_map_get_next_key(key) = {}
             /\ cpc' = "sleep" /\ UNCHANGED key
    <3>1. "process" \in mapped => throughout \subseteq visited
      BY <1>3, <2>2, NoKeyLeft
    <3>2. QED
      BY <1>1, <1>2, <2>2, <3>1 DEF Ahead, RoundSeen
  <2>3. QED
    BY <2>1, <2>2 DEF NextKey, GoTo
<1>5. RoundSeen'
  BY <1>1, <1>2, <1>4 DEF RoundSeen, InMap
<1>6. RoundCall' /\ CopiedGlobal'
  BY <1>1, <1>2 DEF RoundCall, CopiedGlobal, InCall
<1>7. CopiedRecords'
  BY <1>1, <1>2 DEF CopiedRecords, Copying, InCall, SlotsHold
<1>8. QED
  BY <1>1, <1>4, <1>5, <1>6, <1>7 DEF RoundInv, BetweenRounds, InRound

LEMMA CopyProcessRound ==
    ASSUME CollectorInv, RoundInv, CopyProcess
    PROVE  RoundInv'
<1>1. /\ cpc = "lookup" /\ cpc' = "next"
      /\ UNCHANGED <<mapped, kernel, key, seen, throughout, own>>
      /\ UNCHANGED <<process_pids, process_stats, global_stats>>
  BY DEF CopyProcess, GoTo, Begin, procVars, regionVars
<1>2. RoundSeen /\ RoundCall /\ CopiedGlobal /\ Ahead /\ CopiedRecords
  BY <1>1 DEF RoundInv, InRound
<1>3. pc[Service] = "idle" /\ Service \in Clients
  BY <1>1, ServiceIsClient DEF CollectorInv, CollectorAt, KernelTyped
<1>4. pc \in [Clients -> Labels] /\ call \in [Clients -> Writes \cup Reads \cup {NoCall}]
  BY DEF CollectorInv, RegionInv, Typed, ProcTypeOK
<1>5. \A q \in throughout \ visited : q # key => Place(q) > Place(key)
  <2>1. ASSUME NEW q \in throughout \ visited, q # key PROVE Place(q) > Place(key)
    <3>1. q \in Pids /\ key \in Pids /\ Place(q) >= Place(key)
      BY <1>1, <1>2, <2>1 DEF Ahead, RoundSeen, InMap
    <3>2. /\ Place(q) \in Nat /\ Place(key) \in Nat
          /\ KeyOrder[Place(q)] = q /\ KeyOrder[Place(key)] = key
      BY <3>1, PlaceOf
    <3>3. Place(q) # Place(key)
      BY <2>1, <3>2
    <3>4. QED
      BY <3>1, <3>2, <3>3
  <2>2. QED
    BY <2>1
<1>6. CASE key \in InMap
  <2>1. /\ pc'[Service] = "spin"
        /\ call'[Service] = [f |-> "process", p |-> key, u |-> kernel.process[key]]
        /\ \A d \in Clients \ {Service} : call'[d] = call[d]
        /\ visited' = visited \cup {key}
    BY <1>3, <1>4, <1>6 DEF CopyProcess, Begin, Goto
  <2>2. RoundSeen'
    <3>1. Reporting(call') = Reporting(call)
      BY <2>1 DEF Reporting
    <3>2. visited' \subseteq Pids
      BY <1>2, <1>6, <2>1 DEF RoundSeen, InMap
    <3>3. QED
      BY <1>1, <1>2, <3>1, <3>2 DEF RoundSeen, InMap
  <2>3. RoundCall'
    BY <1>1, <1>2, <1>6, <2>1 DEF RoundCall, InCall, RoundSeen, InMap
  <2>4. CopiedGlobal'
    BY <1>1, <1>2, <1>3 DEF CopiedGlobal, InCall
  <2>5. Ahead'
    BY <1>1, <1>5, <2>1 DEF Ahead
  <2>6. CopiedRecords'
    <3>1. Copying(key)'
      BY <1>1, <2>1 DEF Copying, InCall
    <3>2. \A p \in visited \ own : SlotsHold(p, seen.process[p])'
      BY <1>1, <1>2, <1>3 DEF CopiedRecords, Copying, InCall, SlotsHold
    <3>3. QED
      BY <1>1, <2>1, <3>1, <3>2 DEF CopiedRecords
  <2>7. QED
    BY <1>1, <2>2, <2>3, <2>4, <2>5, <2>6 DEF RoundInv, BetweenRounds, InRound
<1>7. CASE key \notin InMap
  <2>1. UNCHANGED <<pc, call, visited>>
    BY <1>7 DEF CopyProcess, procVars, clientVars
  <2>2. RoundSeen' /\ Ahead'
    BY <1>1, <1>2, <1>5, <1>7, <2>1 DEF RoundSeen, InMap, Ahead
  <2>3. RoundCall' /\ CopiedGlobal'
    BY <1>1, <1>2, <1>3, <2>1 DEF RoundCall, CopiedGlobal, InCall
  <2>4. CopiedRecords'
    BY <1>1, <1>2, <2>1 DEF CopiedRecords, Copying, InCall, SlotsHold
  <2>5. QED
    BY <1>1, <2>2, <2>3, <2>4 DEF RoundInv, BetweenRounds, InRound
<1>8. QED
  BY <1>6, <1>7

LEMMA RoundStep ==
    ASSUME CollectorInv, RecordsInv, RoundInv, [CollectorNext]_collectorVars
    PROVE  RoundInv'
<1>1. CASE Start \/ PublishLimits \/ OpenMaps \/ cleanup_service
  <2>1. ~InRound /\ ~InRound' /\ UNCHANGED <<key, visited>>
    BY <1>1 DEF Start, PublishLimits, OpenMaps, cleanup_service, GoTo, InRound, roundVars
  <2>2. QED
    BY <2>1 DEF RoundInv, BetweenRounds, InRound
<1>2. CASE Sleep
  BY <1>2 DEF Sleep, GoTo, RoundInv, BetweenRounds, InRound
<1>3. CASE signal_handler \/ UNCHANGED collectorVars
  <2>1. /\ UNCHANGED <<cpc, mapped, kernel, key, seen, throughout, visited, own>>
        /\ UNCHANGED <<pc, call, process_pids, process_stats, global_stats>>
    BY <1>3 DEF signal_handler, collectorVars, serviceVars, roundVars, procVars, clientVars, regionVars
  <2>2. CASE ~InRound
    BY <2>1, <2>2 DEF RoundInv, BetweenRounds, InRound
  <2>3. CASE InRound
    <3>1. RoundSeen /\ RoundCall /\ CopiedGlobal /\ Ahead /\ CopiedRecords
      BY <2>3 DEF RoundInv
    <3>2. RoundSeen' /\ Ahead'
      BY <2>1, <3>1 DEF RoundSeen, InMap, Ahead
    <3>3. RoundCall' /\ CopiedGlobal' /\ CopiedRecords'
      BY <2>1, <3>1 DEF RoundCall, CopiedGlobal, CopiedRecords, Copying, InCall, SlotsHold
    <3>4. QED
      BY <2>1, <2>3, <3>2, <3>3 DEF RoundInv, BetweenRounds, InRound
  <2>4. QED
    BY <2>2, <2>3
<1>4. CASE Loop \/ CopyGlobal \/ NextKey \/ CopyProcess
  BY <1>4, LoopRound, CopyGlobalRound, NextKeyRound, CopyProcessRound
<1>5. CASE InRegion \/ KernelCounts
  BY <1>5, InRegionRound, KernelRound
<1>6. CASE \E c \in Clients : OtherStep(c)
  BY <1>6, OtherStepRound
<1>7. QED
  BY <1>1, <1>2, <1>3, <1>4, <1>5, <1>6 DEF CollectorNext, ServiceStep

(* After a round the region tells of the kernel, whatever the maps, the     *)
(* other clients and the lock's waiters did under it.                       *)
THEOREM RoundsTellTheKernel == CollectorSpec => []RoundTrue
<1> DEFINE IInv == Safe /\ (Sole => RecordsInv /\ RoundInv)
<1>1. IInv => RoundTrue
  <2> SUFFICES ASSUME CollectorInv, RoundInv, cpc = "sleep"
               PROVE  /\ "global" \in mapped /\ NoRecord \notin seen.global =>
                           global_stats \in seen.global
                      /\ "process" \in mapped => throughout \subseteq visited
                      /\ \A p \in visited \ own :
                           Region.records[p] \in seen.process[p] \cup {NoRecord}
    BY DEF RoundTrue, Safe
  <2>1. RoundSeen /\ CopiedGlobal /\ Ahead /\ CopiedRecords /\ ~InCall
    BY DEF RoundInv, InRound, CollectorInv, CollectorAt, KernelTyped, InCall
  <2>2. ASSUME NEW p \in visited \ own
        PROVE  Region.records[p] \in seen.process[p] \cup {NoRecord}
    <3>1. p \in Pids /\ SlotsHold(p, seen.process[p])
      BY <2>1, <2>2 DEF RoundSeen, CopiedRecords, Copying
    <3>2. QED
      BY <3>1, RegionRecords DEF CollectorInv, SlotsHold, HasSlot
  <2>3. QED
    BY <2>1, <2>2 DEF CopiedGlobal, Ahead
<1>2. CollectorInit => IInv
  BY SafeHolds, RecordsInitInv DEF CollectorInit, RoundInv, BetweenRounds, InRound
<1>3. IInv /\ [CollectorNext]_collectorVars => IInv'
  BY SafeHolds, InitsCount, RecordsStep, RoundStep DEF Safe
<1>4. QED
  BY <1>1, <1>2, <1>3, PTL DEF CollectorSpec
=============================================================================
