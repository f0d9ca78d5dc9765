---------------------------- MODULE LegacyHooks ----------------------------
(***************************************************************************)
(* The verbs as rdma_hooks.c intercepts them, without tenants: the first    *)
(* call starts the library under pthread_once, ibv_create_qp and ibv_reg_mr *)
(* are checked against what the process published in the process region, or *)
(* what eBPF or the process itself counted when there is no region, and     *)
(* ibv_create_qp alone publishes.  Of the messages a hook logs only the     *)
(* last is kept: the others are calls of the same function.                 *)
(***************************************************************************)
EXTENDS InterceptCore

CONSTANTS
    MaxGlobalQp,        \* config.max_global_qp
    GlobalReadings,     \* external: what a read of global_stats.qp_count may see
    EbpfReadings,       \* external: what eBPF may report for the process
    MRLength            \* length of a memory region

Counted == {"create_qp", "destroy_qp", "reg_mr", "dereg_mr"}
(* The verbs that are only passed on. *)
AhVerbs  == {"create_ah", "modify_ah", "destroy_ah"}
SrqVerbs == {"create_srq", "modify_srq", "query_srq", "destroy_srq"}
CqVerbs  == {"destroy_mr", "create_cq", "destroy_cq"}
PdVerbs  == {"alloc_pd", "dealloc_pd"}
Verbs    == Counted \cup AhVerbs \cup SrqVerbs \cup CqVerbs \cup PdVerbs

(* The record of a process.  Where the region has no room for one there is  *)
(* none of an earlier process with its pid either.                          *)
Zero == [qp |-> 0, mr |-> 0, memory |-> 0]

ASSUME LegacyAssumption ==
    /\ {MaxGlobalQp, MRLength} \subseteq Nat
    /\ GlobalReadings \subseteq Nat /\ EbpfReadings \subseteq Nat
    /\ \A u \in Uses : /\ u.left \in [qp : Nat, mr : Nat, memory : Nat]
                     /\ (u.region # "room" => u.left = Zero)

VARIABLES
    qp_count, mr_count, memory_used,    \* g_intercept_state
    slot,           \* the process's record in the process region
    tmp,            \* what each thread has read of the counters
    have,           \* QPs and MRs the process holds
    peak,           \* the most QPs it has held
    why             \* which check refused the call

countVars  == <<qp_count, mr_count, memory_used>>
hookVars   == <<countVars, slot, tmp, have, peak, why>>
legacyVars == <<use, coreVars, threadVars, calls, hookVars>>

Now  == [qp |-> qp_count, mr |-> mr_count, memory |-> memory_used]

(* Records of the process region are keyed by pid and nobody removes them:  *)
(* a process finds the record of an earlier one that had its pid.           *)
LegacyInit ==
    /\ CoreInit
    /\ qp_count = 0 /\ mr_count = 0 /\ memory_used = 0
    /\ slot = use.left /\ tmp = [t \in Threads |-> Zero]
    /\ have = [qp |-> 0, mr |-> 0] /\ peak = 0
    /\ why = [t \in Threads |-> "none"]

KindOf(o) == IF o \in {"create_qp", "destroy_qp"} THEN "qp" ELSE "mr"

(* Objects of a kind that are not the application's to free: a verb has     *)
(* made them and has not returned, or is about to free them.                *)
Before == {"once", "load", "apply", "open", "link", "verb", "limit", "global", "real"}
Taken(k) ==
    {t \in Inside : /\ op[t] \in Counted /\ KindOf(op[t]) = k
                    /\ IF op[t] \in {"destroy_qp", "dereg_mr"} THEN pc[t] \in Before
                       ELSE pc[t] \notin Before /\ level[t] = INFO}

(* An application frees an object it has, once. *)
CallVerb(t, o) ==
    /\ Idle(t) /\ calls < use.max_calls /\ o \in use.calls[t] \cap Verbs
    /\ \A s \in Inside : op[s] # "init"
    /\ o \in {"destroy_qp", "dereg_mr"} => Cardinality(Taken(KindOf(o))) < have[KindOf(o)]
    /\ op' = [op EXCEPT ![t] = o]
    /\ Goto(t, "once")
    /\ calls' = calls + 1
    /\ UNCHANGED <<use, coreVars, level, path, reg, hookVars>>

(* pthread_once(&hooks_init_once, init_function_pointers): the first caller *)
(* starts the library if RDMA_INTERCEPT_ENABLE asks for it, others wait.    *)
Once(t) ==
    /\ pc[t] = "once" /\ once # "running"
    /\ IF once = "done" \/ ~use.enabled \/ initialized
       THEN Goto(t, "verb") /\ once' = "done"
       ELSE Goto(t, "load") /\ once' = "running"
    /\ UNCHANGED <<use, initialized, config, log_file, holder, hurt, stray, misused, op, level, path, reg,
                   calls, hookVars>>

Gain(o) == [have EXCEPT ![KindOf(o)] =
              CASE o \in {"create_qp", "reg_mr"} -> @ + 1
                [] o \in {"destroy_qp", "dereg_mr"} -> @ - 1
                [] OTHER -> @]
Holding(o) == have' = Gain(o) /\ peak' = IF Gain(o).qp > peak THEN Gain(o).qp ELSE peak

(* Interception is off, or the real verb is missing: call it, or ENOSYS.    *)
FastPath(t) ==
    /\ pc[t] = "verb"
    /\ ~rdma_intercept_is_enabled \/ op[t] \notin use.resolved
    /\ \/ op[t] \in use.resolved /\ Holding(op[t])
       \/ UNCHANGED <<have, peak>>
    /\ Finish(t)
    /\ UNCHANGED <<use, coreVars, level, path, reg, calls, countVars, slot, tmp, why>>

Intercept(t) ==
    /\ pc[t] = "verb"
    /\ rdma_intercept_is_enabled /\ op[t] \in use.resolved
    /\ Goto(t, CASE op[t] = "create_qp" -> IF config["enable_qp_control"] THEN "limit" ELSE "real"
                 [] op[t] = "reg_mr"    -> "limit"
                 [] OTHER               -> "real")
    /\ UNCHANGED <<use, coreVars, op, level, path, reg, calls, hookVars>>

Deny(t, reason) == LogAt(t, ERROR) /\ why' = [why EXCEPT ![t] = reason]

(* What the checks take for the usage of the process: its record (zero when *)
(* it has none), without the region what eBPF says, without eBPF its own    *)
(* counters.  A QP count of zero from eBPF is not believed.                 *)
UsageSeen ==
    IF use.region # "none" THEN {slot}
    ELSE IF use.ebpf
         THEN {[Zero EXCEPT !.qp = n, !.mr = n, !.memory = n * MRLength] : n \in EbpfReadings} \cup {Now}
         ELSE {Now}
QpSeen(u) == IF use.region = "none" /\ u.qp = 0 /\ qp_count > 0 THEN qp_count ELSE u.qp

(* Variants: the limit is one too low; one too high. *)
TooManyQps_early(u) == QpSeen(u) + 1 >= config["max_qp_per_process"]
TooManyQps_late(u)  == QpSeen(u) > config["max_qp_per_process"]

TooManyQps(u) == QpSeen(u) + 1 > config["max_qp_per_process"]
TooManyMrs(u) ==
    /\ config["enable_mr_control"]
    /\ \/ u.mr >= config["max_mr_per_process"]
       \/ u.memory + MRLength > config["max_memory_per_process"]

(* check_qp_creation_restrictions, and its counterpart in ibv_reg_mr: the   *)
(* type of the QP may be forbidden; then the limits of the process.         *)
CheckProcess(t) ==
    /\ pc[t] = "limit"
    /\ \/ op[t] = "create_qp" /\ Deny(t, "type")
       \/ \E u \in UsageSeen :
            IF IF op[t] = "create_qp" THEN TooManyQps(u) ELSE TooManyMrs(u)
            THEN Deny(t, "process")
            ELSE Goto(t, "global") /\ UNCHANGED <<level, why>>
    /\ UNCHANGED <<use, coreVars, op, path, reg, calls, countVars, slot, tmp, have, peak>>

(* The global limits, and the work requests that a QP may ask for.          *)
CheckGlobal(t) ==
    /\ pc[t] = "global"
    /\ IF op[t] = "create_qp"
       THEN \/ Deny(t, "requests")
            \/ \E g \in GlobalReadings :
                 IF use.region # "none" /\ g >= MaxGlobalQp
                 THEN Deny(t, "global")
                 ELSE Goto(t, "real") /\ UNCHANGED <<level, why>>
       ELSE \/ Deny(t, "global")
            \/ Goto(t, "real") /\ UNCHANGED <<level, why>>
    /\ UNCHANGED <<use, coreVars, op, path, reg, calls, countVars, slot, tmp, have, peak>>

(* The real verb, which may fail. *)
RealVerb(t) ==
    /\ pc[t] = "real" /\ op[t] \in Counted
    /\ \/ /\ Holding(op[t])
          /\ Goto(t, IF KindOf(op[t]) = "qp" THEN "count" ELSE "load_mr")
          /\ UNCHANGED level
       \/ LogAt(t, ERROR) /\ UNCHANGED <<have, peak>>
    /\ UNCHANGED <<use, coreVars, op, path, reg, calls, countVars, slot, tmp, why>>

(* A verb that is passed on and nothing else: its outcome is logged.        *)
PassOn(t, verbs) ==
    /\ pc[t] = "real" /\ op[t] \in verbs
    /\ LogAt(t, INFO) \/ LogAt(t, ERROR)
    /\ UNCHANGED <<use, coreVars, op, path, reg, calls, hookVars>>

PassAh(t)  == PassOn(t, AhVerbs)
PassSrq(t) == PassOn(t, SrqVerbs)
PassCq(t)  == PassOn(t, CqVerbs)
PassPd(t)  == PassOn(t, PdVerbs)

(* Variant: the guard against going below zero is off by one. *)
CountQp_keeps_last(t) ==
    /\ pc[t] = "count"
    /\ IF op[t] = "create_qp"
       THEN qp_count' = qp_count + 1 /\ Goto(t, "snapshot") /\ UNCHANGED level
       ELSE qp_count' = (IF qp_count > 1 THEN qp_count - 1 ELSE qp_count) /\ LogAt(t, INFO)
    /\ UNCHANGED <<use, coreVars, op, path, reg, calls, mr_count, memory_used, slot, tmp, have, peak, why>>

(* qp_count, under resource_mutex. *)
CountQp(t) ==
    /\ pc[t] = "count"
    /\ IF op[t] = "create_qp"
       THEN qp_count' = qp_count + 1 /\ Goto(t, "snapshot") /\ UNCHANGED level
       ELSE qp_count' = (IF qp_count > 0 THEN qp_count - 1 ELSE qp_count) /\ LogAt(t, INFO)
    /\ UNCHANGED <<use, coreVars, op, path, reg, calls, mr_count, memory_used, slot, tmp, have, peak, why>>

(* ibv_create_qp reads the counters without the mutex and publishes them;   *)
(* there may be no region, or no free record in it.                         *)
Snapshot(t) ==
    /\ pc[t] = "snapshot"
    /\ tmp' = [tmp EXCEPT ![t] = Now]
    /\ Goto(t, "publish")
    /\ UNCHANGED <<use, coreVars, op, level, path, reg, calls, countVars, slot, have, peak, why>>

Publish(t) ==
    /\ pc[t] = "publish"
    /\ slot' = IF use.region = "room" THEN tmp[t] ELSE slot
    /\ tmp' = [tmp EXCEPT ![t] = Zero]
    /\ LogAt(t, INFO)
    /\ UNCHANGED <<use, coreVars, op, path, reg, calls, countVars, have, peak, why>>

(* mr_count and memory_used are changed without the mutex: a load and a     *)
(* store each, and a store of another thread in between is lost.            *)
LoadMr(t) ==
    /\ pc[t] \in {"load_mr", "load_memory"}
    /\ tmp' = [tmp EXCEPT ![t] = Now]
    /\ Goto(t, IF pc[t] = "load_mr" THEN "store_mr" ELSE "store_memory")
    /\ UNCHANGED <<use, coreVars, op, level, path, reg, calls, countVars, slot, have, peak, why>>

Changed(t, old, n) == IF op[t] = "reg_mr" THEN old + n ELSE IF old >= n THEN old - n ELSE old

StoreMr(t) ==
    /\ \/ /\ pc[t] = "store_mr"
          /\ mr_count' = Changed(t, tmp[t].mr, 1)
          /\ Goto(t, "load_memory")
          /\ UNCHANGED <<memory_used, level>>
       \/ /\ pc[t] = "store_memory"
          /\ memory_used' = Changed(t, tmp[t].memory, MRLength)
          /\ LogAt(t, INFO)
          /\ UNCHANGED mr_count
    /\ tmp' = [tmp EXCEPT ![t] = Zero]
    /\ UNCHANGED <<use, coreVars, op, path, reg, calls, qp_count, slot, have, peak, why>>

VerbStep(t) ==
    \/ Once(t) \/ FastPath(t) \/ Intercept(t) \/ CheckProcess(t) \/ CheckGlobal(t)
    \/ PassAh(t) \/ PassSrq(t) \/ PassCq(t) \/ PassPd(t) \/ RealVerb(t)
    \/ CountQp(t) \/ Snapshot(t) \/ Publish(t) \/ LoadMr(t) \/ StoreMr(t)

LegacyNext ==
    \E t \in Threads :
        \/ (CallCore(t) \/ CoreStep(t))
           /\ UNCHANGED <<countVars, slot, tmp, have, peak>>
           /\ why' = [why EXCEPT ![t] = IF pc'[t] = "idle" THEN "none" ELSE @]
        \/ VerbStep(t)
        \/ \E o \in Verbs : CallVerb(t, o)

LegacySpec == LegacyInit /\ [][LegacyNext]_legacyVars

-----------------------------------------------------------------------------
VerbThreads == {t \in Threads : use.calls[t] \cap Counted # {}}
InPc(o, p)  == Cardinality({t \in Threads : op[t] = o /\ pc[t] = p})

(* Nothing turns interception off or changes a limit once it is on, or      *)
(* turns it on when verbs that were not counted have passed.                *)
Undisturbed == \A t \in Threads : use.calls[t] \cap {"init", "cleanup", "set_config"} = {}

(* qp_count is the number of QPs the process holds, less those being        *)
(* counted, whatever its threads do at once; mr_count and memory_used are   *)
(* exact in a process whose verbs one thread calls.                         *)
CountsHeld ==
    rdma_intercept_is_enabled /\ Undisturbed =>
        /\ have.qp = qp_count + InPc("create_qp", "count") - InPc("destroy_qp", "count")
        /\ Cardinality(VerbThreads) = 1 /\ Inside = {} =>
             mr_count = have.mr /\ memory_used = have.mr * MRLength

(* A process whose verbs one thread calls never holds more QPs than its     *)
(* limit: what it publishes is never behind what it holds, although         *)
(* ibv_destroy_qp publishes nothing.  It needs a record of its own, or no   *)
(* region at all.                                                           *)
LimitHolds ==
    /\ rdma_intercept_is_enabled /\ config["enable_qp_control"] /\ Undisturbed
    /\ Cardinality(VerbThreads) = 1
    /\ use.region = "room" \/ (use.region = "none" /\ ~use.ebpf)
    => have.qp <= config["max_qp_per_process"]

(* Such a process is refused a QP for its limit only if it did hold that    *)
(* many at some time.  It may hold fewer now, since the published count     *)
(* never goes down.  Or it has never held any, and an earlier process with  *)
(* its pid left a record of that many: it is then refused for good, since   *)
(* only a QP that is made publishes.  With two threads a count that is too  *)
(* high for a moment (destroyed, not yet discounted) may stay published.    *)
RefusedAfterPeak ==
    \A t \in Threads :
        /\ why[t] = "process" /\ op[t] = "create_qp"
        /\ Undisturbed /\ Cardinality(VerbThreads) = 1 /\ ~use.ebpf
        => \/ peak >= config["max_qp_per_process"]
           \/ peak = 0 /\ use.left.qp >= config["max_qp_per_process"]
=============================================================================
