---------------------------- MODULE DynamicPolicy ----------------------------
(***************************************************************************)
(* The policy manager (dynamic_policy_manager.c): a configuration behind   *)
(* g_policy_mutex, its copy of the global limits in the process region, a  *)
(* configuration file, a thread that adjusts the policy, and policies of   *)
(* tenants behind a mutex of their own.                                    *)
(*                                                                         *)
(* What a call does under the mutex is one step, taken when the mutex is   *)
(* free.  Watermarks and the interval only choose what is logged and when, *)
(* and are left out.  Counts are unsigned and wrap at W.                   *)
(***************************************************************************)
EXTENDS Naturals, FiniteSets

CONSTANTS
    Callers, Adjuster,
    PolicyTenants,  \* tenants that have a policy slot (id below MAX_TENANTS)
    Resources,      \* "qp", "mr", "memory" and possibly "cq", "pd"
    Limits,         \* the resource_limit_t values that callers pass
    DefaultLimit,   \* set_default_config: a limit for every resource
    Amounts,        \* the amounts that callers of check_limit pass
    Counts,         \* the global counts that the collector publishes
    W,              \* 2^32
    MB,             \* 1024 * 1024, the unit of max_memory_mb
    Ops,            \* the operations each caller uses
    MaxCalls        \* bound: calls made in a behaviour

Free   == "free"
NoFile == [missing |-> TRUE]
Limit  == [per : Nat, global : Nat, memory : Nat]
Counted == {"qp", "mr"}     \* resources with a global count
NoTenant == "none"          \* a tenant id outside the table

ASSUME PolicyAssumption ==
    /\ Adjuster \notin Callers /\ Free \notin Callers \cup {Adjuster}
    /\ {"qp", "mr", "memory"} \subseteq Resources /\ NoTenant \notin PolicyTenants
    /\ Limits \subseteq Limit /\ DefaultLimit \in [Resources -> Limit]
    /\ Amounts \subseteq Nat /\ Counts \subseteq Nat /\ 0 \in Counts
    /\ W \in Nat \ {0} /\ MB \in Nat \ {0} /\ MaxCalls \in Nat

(* dynamic_policy_config_t, as set_default_config and as memset leave it. *)
DefaultConfig == [limit |-> DefaultLimit, enabled |-> [r \in Resources |-> TRUE], auto_adjust |-> FALSE]
ZeroConfig == [limit |-> [r \in Resources |-> [per |-> 0, global |-> 0, memory |-> 0]],
               enabled |-> [r \in Resources |-> FALSE], auto_adjust |-> FALSE]

Requests ==
         [op : {"set_limit"}, r : Resources \cup {"unknown"}, l : Limits]
    \cup [op : {"update"}, l : Limits, on : BOOLEAN, auto : BOOLEAN]
    \cup [op : {"auto_adjust"}, on : BOOLEAN]
    \cup [op : {"enable_rule"}, r : Resources, on : BOOLEAN]
    \cup [op : {"check"}, r : Resources, current : Amounts, requested : Amounts]
    \cup [op : {"set_tenant"}, n : PolicyTenants \cup {NoTenant}, l : Limits]
    \cup [op : {"delete_tenant"}, n : PolicyTenants]
    \cup [op : {"check_tenant"}, n : PolicyTenants, current : Amounts, requested : Amounts]
    \cup [op : {"set_default", "load", "save", "adjust", "cleanup", "init"}]
NoRequest == [op |-> "none"]
TenantOps == {"set_tenant", "delete_tenant", "check_tenant"}

VARIABLES
    config,                 \* g_policy_config
    policy_mutex,           \* the holder of g_policy_mutex
    g_running,
    tenant_policies,        \* g_tenant_policies, with one limit for every resource
    file,                   \* the lines of the configuration file
    region_limits,          \* max_global_qp, max_global_mr, max_global_memory of the region
    global_stats,           \* the global counts in the region
    pc, request,            \* where each thread is, and each caller's call
    checked,                \* the limit a check has copied
    verdict,                \* what a check returns: exceeded or not, and the count it saw
    calls,
    in_force                \* auxiliary: the limits in force since each check began

configVars == <<config, region_limits, file, tenant_policies>>
callVars   == <<pc, request, checked, verdict, calls>>
policyVars == <<configVars, policy_mutex, g_running, global_stats, callVars, in_force>>

(* What shm_set_global_limits publishes. *)
GlobalLimits(c) == [qp |-> c.limit["qp"].global, mr |-> c.limit["mr"].global,
                    memory |-> c.limit["memory"].memory]

(* dynamic_policy_init, up to the start of the thread. *)
PolicyInit ==
    /\ config = DefaultConfig /\ region_limits = GlobalLimits(DefaultConfig)
    /\ policy_mutex = Free
    /\ g_running = TRUE
    /\ file = NoFile
    /\ tenant_policies = [n \in PolicyTenants |-> ZeroConfig.limit["qp"]]
    /\ global_stats = [r \in Counted |-> 0]
    /\ pc = [t \in Callers \cup {Adjuster} |-> IF t = Adjuster THEN "sleep" ELSE "idle"]
    /\ request = [t \in Callers |-> NoRequest]
    /\ checked = [t \in Callers |-> ZeroConfig.limit["qp"]]
    /\ verdict = [t \in Callers |-> [exceeded |-> FALSE, count |-> 0]]
    /\ calls = 0
    /\ in_force = [t \in Callers |-> {}]

Goto(t, l) == pc' = [pc EXCEPT ![t] = l]

(* Every change of a limit adds to what checks under way may see. *)
LimitFor(q, c, tenants) ==
    CASE q.op = "check"        -> {c.limit[q.r]}
      [] q.op = "check_tenant" -> {tenants[q.n]}
      [] OTHER                 -> {}
Noted == in_force' = [t \in Callers |->
    in_force[t] \cup LimitFor(request[t], config', tenant_policies')]

-----------------------------------------------------------------------------
(* A caller enters.  Only one thread manages the life of the module: init   *)
(* follows cleanup.                                                         *)
Begin(t) ==
    /\ pc[t] = "idle" /\ calls < MaxCalls
    /\ calls' = calls + 1
    /\ \E q \in Requests :
         /\ q.op \in Ops[t]
         /\ q.op = "load" => file # NoFile
         /\ q.op = "cleanup" => g_running
         /\ q.op = "init" => ~g_running /\ pc[Adjuster] = "exit"
         /\ \A s \in Callers : request[s].op \in {"cleanup", "init"} => q.op \notin {"cleanup", "init"}
         /\ request' = [request EXCEPT ![t] = q]
         /\ Goto(t, CASE q.op = "cleanup" -> "join" [] q.op \in TenantOps -> "tenant" [] OTHER -> "lock")
         /\ g_running' = (g_running /\ q.op # "cleanup")
         /\ in_force' = [in_force EXCEPT ![t] = LimitFor(q, config, tenant_policies)]
    /\ UNCHANGED <<configVars, policy_mutex, global_stats, checked, verdict>>

(* dynamic_policy_cleanup waits for the thread.                             *)
Join(t) ==
    /\ pc[t] = "join" /\ pc[Adjuster] = "exit"
    /\ Goto(t, "lock")
    /\ UNCHANGED <<configVars, policy_mutex, g_running, global_stats, request, checked, verdict, calls, in_force>>

Return(t) == Goto(t, "idle") /\ request' = [request EXCEPT ![t] = NoRequest]

Holds(t, op) == pc[t] = "lock" /\ policy_mutex = Free /\ request[t].op = op

(* The configuration calls that publish the limits too. *)
Publish(t, c) ==
    /\ config' = c /\ region_limits' = GlobalLimits(c)
    /\ UNCHANGED <<tenant_policies, policy_mutex, file, g_running, global_stats, checked, verdict, calls>>
    /\ Noted /\ Return(t)

(* The configuration calls that do not. *)
Keep(t, c) ==
    /\ config' = c
    /\ UNCHANGED <<tenant_policies, policy_mutex, region_limits, file, g_running, global_stats,
                   checked, verdict, calls>>
    /\ Noted /\ Return(t)

(* Variant: the limit is stored and not published. *)
set_limit_unpublished(t) ==
    LET q == request[t] IN
    /\ Holds(t, "set_limit")
    /\ Keep(t, IF q.r \in Resources THEN [config EXCEPT !.limit[q.r] = q.l] ELSE config)

(* Variant: an unknown resource returns without releasing the mutex. *)
set_limit_keeps_mutex(t) ==
    LET q == request[t] IN
    /\ Holds(t, "set_limit")
    /\ \/ q.r \in Resources /\ Publish(t, [config EXCEPT !.limit[q.r] = q.l])
       \/ /\ q.r \notin Resources
          /\ policy_mutex' = t
          /\ Return(t)
          /\ UNCHANGED <<configVars, g_running, global_stats, checked, verdict, calls, in_force>>

set_limit(t) ==
    LET q == request[t] IN
    /\ Holds(t, "set_limit")
    /\ \/ q.r \in Resources /\ Publish(t, [config EXCEPT !.limit[q.r] = q.l])
       \/ q.r \notin Resources /\ Keep(t, config)

(* Hot update, here with one limit for everything. *)
update(t) ==
    LET q == request[t] IN
    /\ Holds(t, "update")
    /\ Publish(t, [limit |-> [r \in Resources |-> q.l], enabled |-> [r \in Resources |-> q.on],
                   auto_adjust |-> q.auto])

set_auto_adjust(t) == Holds(t, "auto_adjust") /\ Keep(t, [config EXCEPT !.auto_adjust = request[t].on])
enable_rule(t) ==
    Holds(t, "enable_rule") /\ Keep(t, [config EXCEPT !.enabled[request[t].r] = request[t].on])
set_default(t) == Holds(t, "set_default") /\ Keep(t, DefaultConfig)

(* dynamic_policy_adjust compares and logs. *)
adjust(t) == Holds(t, "adjust") /\ Keep(t, config)

(* The lines of the file: the qp and mr limits, the memory limit in whole   *)
(* megabytes, auto_adjust.                                                  *)
FileOf(c) == [per |-> [r \in Counted |-> c.limit[r].per], global |-> [r \in Counted |-> c.limit[r].global],
              mb |-> c.limit["memory"].memory \div MB, auto_adjust |-> c.auto_adjust]

save_config(t) ==
    /\ Holds(t, "save")
    /\ file' = FileOf(config)
    /\ Return(t)
    /\ UNCHANGED <<config, region_limits, tenant_policies, policy_mutex, g_running, global_stats,
                   checked, verdict, calls, in_force>>

Loaded(c, f) ==
    [c EXCEPT !.limit = [r \in Resources |->
                  IF r \in Counted THEN [c.limit[r] EXCEPT !.per = f.per[r], !.global = f.global[r]]
                  ELSE IF r = "memory" THEN [c.limit[r] EXCEPT !.memory = f.mb * MB]
                  ELSE c.limit[r]],
              !.auto_adjust = f.auto_adjust]

load_config(t) == Holds(t, "load") /\ Keep(t, Loaded(config, file))

(* memset of the configuration at the end of cleanup. *)
cleanup(t) == Holds(t, "cleanup") /\ Keep(t, ZeroConfig)

(* dynamic_policy_init: defaults, published, then the thread.               *)
init(t) ==
    /\ Holds(t, "init")
    /\ config' = DefaultConfig /\ region_limits' = GlobalLimits(DefaultConfig)
    /\ g_running' = TRUE
    /\ pc' = [pc EXCEPT ![t] = "idle", ![Adjuster] = "sleep"]
    /\ request' = [request EXCEPT ![t] = NoRequest]
    /\ UNCHANGED <<tenant_policies, policy_mutex, file, global_stats, checked, verdict, calls>>
    /\ Noted

(* Another process, such as each run of the command line tool, calls        *)
(* dynamic_policy_init: its defaults replace the limits in the region.      *)
OtherStarts ==
    /\ region_limits' = GlobalLimits(DefaultConfig)
    /\ UNCHANGED <<config, tenant_policies, file, policy_mutex, g_running, global_stats, callVars, in_force>>

-----------------------------------------------------------------------------
(* dynamic_policy_check_limit: the limit is copied under the mutex, the     *)
(* global count is read after it.                                           *)
get_limit(t) ==
    /\ Holds(t, "check")
    /\ checked' = [checked EXCEPT ![t] = config.limit[request[t].r]]
    /\ Goto(t, "judge")
    /\ UNCHANGED <<configVars, policy_mutex, g_running, global_stats, request, verdict, calls, in_force>>

(* A tenant's policy has no global count.                                   *)
Exceeds(l, count, q) ==
    \/ q.op = "check" /\ (count + q.requested) % W > l.global
    \/ (q.current + q.requested) % W > l.per

CountOf(q) == IF q.op = "check" /\ q.r \in Counted THEN global_stats[q.r] ELSE 0

(* Variant: the global limit is read again, without the mutex. *)
check_limit_rereads(t) ==
    LET q == request[t]
        l == [checked[t] EXCEPT !.global = config.limit[q.r].global] IN
    /\ pc[t] = "judge" /\ q.op = "check"
    /\ verdict' = [verdict EXCEPT ![t] = [exceeded |-> Exceeds(l, CountOf(q), q), count |-> CountOf(q)]]
    /\ Goto(t, "verdict")
    /\ UNCHANGED <<configVars, policy_mutex, g_running, global_stats, request, checked, calls, in_force>>

check_limit(t) ==
    LET q == request[t] IN
    /\ pc[t] = "judge"
    /\ verdict' = [verdict EXCEPT ![t] = [exceeded |-> Exceeds(checked[t], CountOf(q), q),
                                          count |-> CountOf(q)]]
    /\ Goto(t, "verdict")
    /\ UNCHANGED <<configVars, policy_mutex, g_running, global_stats, request, checked, calls, in_force>>

CheckReturns(t) ==
    /\ pc[t] = "verdict" /\ Return(t)
    /\ checked' = [checked EXCEPT ![t] = ZeroConfig.limit["qp"]]
    /\ verdict' = [verdict EXCEPT ![t] = [exceeded |-> FALSE, count |-> 0]]
    /\ in_force' = [in_force EXCEPT ![t] = {}]
    /\ UNCHANGED <<configVars, policy_mutex, g_running, global_stats, calls>>

-----------------------------------------------------------------------------
(* The policies of tenants, behind g_tenant_mutex; an id outside the table  *)
(* is refused.  Deleting a policy leaves limits of zero.                    *)
SetTenant(t, n, l) ==
    /\ tenant_policies' = IF n \in PolicyTenants THEN [tenant_policies EXCEPT ![n] = l] ELSE tenant_policies
    /\ UNCHANGED <<config, region_limits, file, policy_mutex, g_running, global_stats, checked, verdict, calls>>
    /\ Noted /\ Return(t)

AtTenants(t, op) == pc[t] = "tenant" /\ request[t].op = op

set_tenant_policy(t)    == AtTenants(t, "set_tenant") /\ SetTenant(t, request[t].n, request[t].l)
delete_tenant_policy(t) ==
    AtTenants(t, "delete_tenant") /\ SetTenant(t, request[t].n, ZeroConfig.limit["qp"])

(* dynamic_policy_check_tenant_limit copies the policy and judges the copy. *)
get_tenant_policy(t) ==
    /\ AtTenants(t, "check_tenant")
    /\ checked' = [checked EXCEPT ![t] = tenant_policies[request[t].n]]
    /\ Goto(t, "judge")
    /\ UNCHANGED <<configVars, policy_mutex, g_running, global_stats, request, verdict, calls, in_force>>

-----------------------------------------------------------------------------
(* adjust_thread_func.  It reads auto_adjust without the mutex.             *)
Wake ==
    /\ pc[Adjuster] = "sleep"
    /\ Goto(Adjuster, IF ~g_running THEN "exit" ELSE IF config.auto_adjust THEN "lock" ELSE "sleep")
    /\ UNCHANGED <<configVars, policy_mutex, g_running, global_stats, request, checked, verdict, calls, in_force>>

(* It takes the mutex and calls dynamic_policy_adjust, whose first act is   *)
(* to take the mutex again.  The mutex is not recursive: there is no step   *)
(* from "relock".                                                           *)
LockThenAdjust ==
    /\ pc[Adjuster] = "lock" /\ policy_mutex = Free
    /\ policy_mutex' = Adjuster
    /\ Goto(Adjuster, "relock")
    /\ UNCHANGED <<configVars, g_running, global_stats, request, checked, verdict, calls, in_force>>

(* The collector publishes another global count. *)
Collect ==
    /\ \E r \in Counted, n \in Counts : global_stats' = [global_stats EXCEPT ![r] = n]
    /\ UNCHANGED <<configVars, policy_mutex, g_running, callVars, in_force>>

-----------------------------------------------------------------------------
Serve(t) ==
    \/ Join(t)
    \/ set_limit(t) \/ update(t) \/ set_auto_adjust(t) \/ enable_rule(t) \/ set_default(t)
    \/ adjust(t) \/ save_config(t) \/ load_config(t) \/ cleanup(t) \/ init(t)
    \/ get_limit(t) \/ check_limit(t) \/ CheckReturns(t)
    \/ set_tenant_policy(t) \/ delete_tenant_policy(t) \/ get_tenant_policy(t)

AdjusterStep == Wake \/ LockThenAdjust

PolicyNext ==
    \/ \E t \in Callers : Begin(t) \/ Serve(t)
    \/ AdjusterStep
    \/ Collect \/ OtherStarts

(* A call that has begun runs on when it can, and so does the thread. *)
PolicySpec ==
    /\ PolicyInit /\ [][PolicyNext]_policyVars
    /\ \A t \in Callers : WF_policyVars(Serve(t))
    /\ WF_policyVars(AdjusterStep)

-----------------------------------------------------------------------------
Config == [limit : [Resources -> Limit], enabled : [Resources -> BOOLEAN], auto_adjust : BOOLEAN]

(* Configuration, mutex and threads have the shape the code gives them. *)
PolicyTypeOK ==
    /\ config \in Config /\ tenant_policies \in [PolicyTenants -> Limit]
    /\ policy_mutex \in {Free, Adjuster}
    /\ global_stats \in [Counted -> Counts]
    /\ pc \in [Callers \cup {Adjuster} ->
                 {"idle", "join", "lock", "tenant", "judge", "verdict", "sleep", "exit", "relock"}]
    /\ request \in [Callers -> Requests \cup {NoRequest}]
    /\ checked \in [Callers -> Limit]
    /\ verdict \in [Callers -> [exceeded : BOOLEAN, count : Counts]]

(* What other processes read as global limits is put out of step with the   *)
(* configuration by set_default, load, the final cleanup and the start of   *)
(* another process only: no order of set_limit, update, switches, tenants'  *)
(* policies, restarts and the thread does it.  (Two other writers of the    *)
(* region are in ProcessShm and ShmCollector: shm_init's defaults and the   *)
(* limits of a starting collector.)                                         *)
PublishedLimitsFollow ==
    [][region_limits = GlobalLimits(config) /\ region_limits' # GlobalLimits(config')
         => \/ OtherStarts
            \/ \E t \in Callers : set_default(t) \/ load_config(t) \/ cleanup(t)]_policyVars

(* A check answers for one limit as a whole, one that was in force at some  *)
(* moment of the call, however the calls that change it interleave with it. *)
VerdictOfOneLimit ==
    /\ PolicyTypeOK
    /\ \A t \in Callers : pc[t] = "verdict" =>
         \E l \in in_force[t] : verdict[t].exceeded <=> Exceeds(l, verdict[t].count, request[t])

(* A call only ever waits for the adjusting thread: no path of another call *)
(* keeps the mutex; and a call about a tenant's policy not even for that    *)
(* thread.                                                                  *)
OnlyAdjusterBlocks ==
    \A t \in Callers :
        /\ (pc[t] # "idle") ~> (pc[t] = "idle" \/ policy_mutex = Adjuster)
        /\ (pc[t] = "tenant") ~> (pc[t] = "idle")

(* Every call returns.  (dynamic_policy_adjust: once automatic adjustment   *)
(* is on, the thread waits for itself and everybody for the thread.)        *)
CallsReturn == \A t \in Callers : (pc[t] # "idle") ~> (pc[t] = "idle")
=============================================================================
