------------------------- MODULE DynamicPolicy_proofs -------------------------
(***************************************************************************)
(* Proofs about the policy manager, for any callers, resources, limits and *)
(* counts: a check answers for one limit that was in force during the      *)
(* call, and only the calls that the property names put the published      *)
(* limits out of step with the configuration.                              *)
(***************************************************************************)
EXTENDS DynamicPolicy, TLAPS

(* What the file holds once it has been written. *)
Lines == [per : [Counted -> Nat], global : [Counted -> Nat], mb : Nat, auto_adjust : BOOLEAN]

(* A file that a load has found stays. *)
FileOK ==
    /\ file \in Lines \cup {NoFile}
    /\ \A t \in Callers : request[t].op = "load" => file # NoFile

(* The limit that a check under way is going to copy, has copied or has     *)
(* judged is one of those in force since the call began.                    *)
CheckOK(t) ==
    /\ pc[t] \in {"idle", "lock", "join", "tenant", "judge", "verdict"}
    /\ pc[t] \in {"lock", "join", "tenant"} =>
         LimitFor(request[t], config, tenant_policies) \subseteq in_force[t]
    /\ pc[t] \in {"judge", "verdict"} => request[t].op \in {"check", "check_tenant"}
    /\ pc[t] = "judge" => checked[t] \in in_force[t]
    /\ pc[t] = "verdict" =>
         \E l \in in_force[t] : verdict[t].exceeded <=> Exceeds(l, verdict[t].count, request[t])

(* The inductive invariant. *)
PolicyInv ==
    /\ PolicyTypeOK
    /\ in_force \in [Callers -> SUBSET Limit]
    /\ FileOK
    /\ \A t \in Callers : CheckOK(t)

-----------------------------------------------------------------------------
(* What the requests of each operation carry. *)
LEMMA RequestFields ==
    ASSUME NEW q \in Requests \cup {NoRequest}
    PROVE  /\ q.op = "set_limit" => q.r \in Resources \cup {"unknown"} /\ q.l \in Limits
           /\ q.op = "update" => q.l \in Limits /\ q.on \in BOOLEAN /\ q.auto \in BOOLEAN
           /\ q.op = "auto_adjust" => q.on \in BOOLEAN
           /\ q.op = "enable_rule" => q.r \in Resources /\ q.on \in BOOLEAN
           /\ q.op = "check" => q.r \in Resources
           /\ q.op = "set_tenant" => q.l \in Limits
           /\ q.op = "check_tenant" => q.n \in PolicyTenants
BY DEF Requests, NoRequest

(* The values the module is built from are well formed. *)
LEMMA ConfigShapes ==
    /\ DefaultConfig \in Config /\ ZeroConfig \in Config
    /\ ZeroConfig.limit["qp"] \in Limit
    /\ Limits \subseteq Limit
BY PolicyAssumption DEF DefaultConfig, ZeroConfig, Config, Limit

(* save_config and load_config: a configuration gives a file, and a file    *)
(* gives a configuration.                                                   *)
LEMMA FileShapes ==
    ASSUME NEW c \in Config
    PROVE  /\ FileOf(c) \in Lines
           /\ \A f \in Lines : Loaded(c, f) \in Config
<1>1. /\ Counted \subseteq Resources /\ "memory" \in Resources
      /\ MB \in Nat \ {0}
  BY PolicyAssumption DEF Counted
<1>2. FileOf(c) \in Lines
  <2>1. c.limit["memory"].memory \div MB \in Nat
    BY <1>1 DEF Config, Limit
  <2> QED BY <1>1, <2>1 DEF FileOf, Lines, Config, Limit
<1>3. ASSUME NEW f \in Lines PROVE Loaded(c, f) \in Config
  <2>1. f.mb * MB \in Nat
    BY <1>1 DEF Lines
  <2>2. \A r \in Resources :
          (IF r \in Counted THEN [c.limit[r] EXCEPT !.per = f.per[r], !.global = f.global[r]]
           ELSE IF r = "memory" THEN [c.limit[r] EXCEPT !.memory = f.mb * MB]
           ELSE c.limit[r]) \in Limit
    BY <1>1, <2>1 DEF Lines, Config, Limit
  <2> QED BY <2>2 DEF Loaded, Config, Lines
<1> QED BY <1>2, <1>3

(* A limit that a request is about is a limit. *)
LEMMA LimitForType ==
    ASSUME NEW q \in Requests \cup {NoRequest}, NEW c \in Config,
           NEW n \in [PolicyTenants -> Limit]
    PROVE  LimitFor(q, c, n) \subseteq Limit
BY RequestFields DEF LimitFor, Config

-----------------------------------------------------------------------------
LEMMA PolicyInitInv == PolicyInit => PolicyInv
<1> SUFFICES ASSUME PolicyInit PROVE PolicyInv
  OBVIOUS
<1> USE PolicyAssumption, ConfigShapes
<1>1. PolicyTypeOK
  BY DEF PolicyInit, PolicyTypeOK, Counted
<1>2. /\ in_force \in [Callers -> SUBSET Limit]
      /\ \A t \in Callers : pc[t] = "idle" /\ request[t].op = "none"
  BY DEF PolicyInit, NoRequest
<1>3. FileOK
  BY <1>2 DEF PolicyInit, FileOK
<1>4. \A t \in Callers : CheckOK(t)
  BY <1>2 DEF CheckOK
<1> QED BY <1>1, <1>2, <1>3, <1>4 DEF PolicyInv

(* A step that leaves a caller alone, and only adds to the limits in force  *)
(* during its call, keeps what the invariant says of it.  Noted is such an  *)
(* addition.                                                                *)
LEMMA CheckFrame ==
    ASSUME NEW t \in Callers, CheckOK(t),
           pc'[t] = pc[t], request'[t] = request[t], checked'[t] = checked[t],
           verdict'[t] = verdict[t], in_force[t] \subseteq in_force'[t],
           LimitFor(request[t], config', tenant_policies') \subseteq in_force'[t]
    PROVE  CheckOK(t)'
BY DEF CheckOK, Exceeds, LimitFor

LEMMA NotedAdds ==
    ASSUME Noted, NEW t \in Callers, in_force \in [Callers -> SUBSET Limit]
    PROVE  /\ in_force[t] \subseteq in_force'[t]
           /\ LimitFor(request[t], config', tenant_policies') \subseteq in_force'[t]
BY DEF Noted

(* A call that is over has nothing to show. *)
LEMMA CheckOver ==
    ASSUME NEW t \in Callers, pc'[t] = "idle"
    PROVE  CheckOK(t)'
BY DEF CheckOK

-----------------------------------------------------------------------------
(* Every call that changes the configuration or a tenant's policy ends the  *)
(* caller's call, notes the new limits and leaves the other callers alone.  *)
LEMMA ChangeInv ==
    ASSUME PolicyInv, NEW t \in Callers, Noted,
           config' \in Config, tenant_policies' \in [PolicyTenants -> Limit],
           pc' \in [Callers \cup {Adjuster} ->
               {"idle", "join", "lock", "tenant", "judge", "verdict", "sleep", "exit", "relock"}],
           pc'[t] = "idle", \A s \in Callers : s # t => pc'[s] = pc[s],
           request' = [request EXCEPT ![t] = NoRequest],
           UNCHANGED <<policy_mutex, file, global_stats, checked, verdict>>
    PROVE  PolicyInv'
<1>1. PolicyTypeOK'
  BY DEF PolicyInv, PolicyTypeOK
<1>2. in_force' \in [Callers -> SUBSET Limit]
  <2>1. \A s \in Callers : LimitFor(request[s], config', tenant_policies') \subseteq Limit
    BY LimitForType DEF PolicyInv, PolicyTypeOK
  <2> QED BY <2>1 DEF PolicyInv, Noted
<1>3. FileOK'
  BY DEF PolicyInv, FileOK, PolicyTypeOK, NoRequest
<1>4. ASSUME NEW s \in Callers PROVE CheckOK(s)'
  <2>1. CASE s = t
    BY <2>1, CheckOver
  <2>2. CASE s # t
    <3>1. /\ in_force[s] \subseteq in_force'[s]
          /\ LimitFor(request[s], config', tenant_policies') \subseteq in_force'[s]
      BY NotedAdds DEF PolicyInv
    <3>2. /\ pc'[s] = pc[s] /\ request'[s] = request[s]
          /\ checked'[s] = checked[s] /\ verdict'[s] = verdict[s] /\ CheckOK(s)
      BY <2>2 DEF PolicyInv, PolicyTypeOK
    <3> QED BY <3>1, <3>2, CheckFrame
  <2> QED BY <2>1, <2>2
<1> QED BY <1>1, <1>2, <1>3, <1>4 DEF PolicyInv

LEMMA PublishInv ==
    ASSUME PolicyInv, NEW t \in Callers, NEW c \in Config, Publish(t, c) \/ Keep(t, c)
    PROVE  PolicyInv'
<1>1. /\ config' \in Config /\ tenant_policies' \in [PolicyTenants -> Limit]
      /\ Noted /\ Return(t)
      /\ UNCHANGED <<policy_mutex, file, global_stats, checked, verdict>>
  BY DEF Publish, Keep, PolicyInv, PolicyTypeOK
<1>2. /\ pc' \in [Callers \cup {Adjuster} ->
               {"idle", "join", "lock", "tenant", "judge", "verdict", "sleep", "exit", "relock"}]
      /\ pc'[t] = "idle" /\ \A s \in Callers : s # t => pc'[s] = pc[s]
      /\ request' = [request EXCEPT ![t] = NoRequest]
  BY <1>1 DEF Return, Goto, PolicyInv, PolicyTypeOK
<1> QED BY <1>1, <1>2, ChangeInv

(* The calls that change the configuration. *)
LEMMA ConfigCallsInv ==
    ASSUME PolicyInv, NEW t \in Callers,
           \/ set_limit(t) \/ update(t) \/ set_auto_adjust(t) \/ enable_rule(t)
           \/ set_default(t) \/ adjust(t) \/ load_config(t) \/ cleanup(t)
    PROVE  PolicyInv'
<1> DEFINE q == request[t]
<1>1. q \in Requests \cup {NoRequest} /\ config \in Config /\ Limits \subseteq Limit
  BY ConfigShapes DEF PolicyInv, PolicyTypeOK
<1>2. CASE set_limit(t)
  <2>1. CASE q.r \in Resources
    <3>1. [config EXCEPT !.limit[q.r] = q.l] \in Config
      BY <1>1, <1>2, <2>1, RequestFields DEF set_limit, Holds, Config
    <3> QED BY <1>2, <2>1, <3>1, PublishInv DEF set_limit
  <2>2. CASE q.r \notin Resources
    BY <1>1, <1>2, <2>2, PublishInv DEF set_limit
  <2> QED BY <2>1, <2>2
<1>3. CASE update(t)
  <2>1. [limit |-> [r \in Resources |-> q.l], enabled |-> [r \in Resources |-> q.on],
         auto_adjust |-> q.auto] \in Config
    BY <1>1, <1>3, RequestFields DEF update, Holds, Config
  <2> QED BY <1>3, <2>1, PublishInv DEF update
<1>4. CASE set_auto_adjust(t)
  <2>1. [config EXCEPT !.auto_adjust = q.on] \in Config
    BY <1>1, <1>4, RequestFields DEF set_auto_adjust, Holds, Config
  <2> QED BY <1>4, <2>1, PublishInv DEF set_auto_adjust
<1>5. CASE enable_rule(t)
  <2>1. [config EXCEPT !.enabled[q.r] = q.on] \in Config
    BY <1>1, <1>5, RequestFields DEF enable_rule, Holds, Config
  <2> QED BY <1>5, <2>1, PublishInv DEF enable_rule
<1>6. CASE set_default(t)
  BY <1>6, ConfigShapes, PublishInv DEF set_default
<1>7. CASE adjust(t)
  BY <1>1, <1>7, PublishInv DEF adjust
<1>8. CASE load_config(t)
  <2>1. file \in Lines
    BY <1>8 DEF load_config, Holds, PolicyInv, FileOK
  <2>2. Loaded(config, file) \in Config
    BY <1>1, <2>1, FileShapes
  <2> QED BY <1>8, <2>2, PublishInv DEF load_config
<1>9. CASE cleanup(t)
  BY <1>9, ConfigShapes, PublishInv DEF cleanup
<1> QED BY <1>2, <1>3, <1>4, <1>5, <1>6, <1>7, <1>8, <1>9

(* dynamic_policy_init restarts the adjusting thread too. *)
LEMMA InitCallInv ==
    ASSUME PolicyInv, NEW t \in Callers, init(t)
    PROVE  PolicyInv'
<1>1. /\ config' \in Config /\ tenant_policies' \in [PolicyTenants -> Limit]
      /\ Noted /\ request' = [request EXCEPT ![t] = NoRequest]
      /\ UNCHANGED <<policy_mutex, file, global_stats, checked, verdict>>
  BY ConfigShapes DEF init, PolicyInv, PolicyTypeOK
<1>2. /\ pc' \in [Callers \cup {Adjuster} ->
               {"idle", "join", "lock", "tenant", "judge", "verdict", "sleep", "exit", "relock"}]
      /\ pc'[t] = "idle" /\ \A s \in Callers : s # t => pc'[s] = pc[s]
  BY PolicyAssumption DEF init, PolicyInv, PolicyTypeOK
<1> QED BY <1>1, <1>2, ChangeInv

(* set_tenant_policy and delete_tenant_policy. *)
LEMMA TenantCallsInv ==
    ASSUME PolicyInv, NEW t \in Callers, set_tenant_policy(t) \/ delete_tenant_policy(t)
    PROVE  PolicyInv'
<1>1. PICK l \in Limit : SetTenant(t, request[t].n, l)
  <2>1. CASE set_tenant_policy(t)
    <3>1. request[t].l \in Limit
      BY <2>1, RequestFields, ConfigShapes
      DEF set_tenant_policy, AtTenants, PolicyInv, PolicyTypeOK
    <3> QED BY <2>1, <3>1 DEF set_tenant_policy
  <2>2. CASE delete_tenant_policy(t)
    BY <2>2, ConfigShapes DEF delete_tenant_policy
  <2> QED BY <2>1, <2>2
<1>2. /\ config' \in Config /\ tenant_policies' \in [PolicyTenants -> Limit]
      /\ Noted /\ Return(t)
      /\ UNCHANGED <<policy_mutex, file, global_stats, checked, verdict>>
  BY <1>1 DEF SetTenant, PolicyInv, PolicyTypeOK
<1>3. /\ pc' \in [Callers \cup {Adjuster} ->
               {"idle", "join", "lock", "tenant", "judge", "verdict", "sleep", "exit", "relock"}]
      /\ pc'[t] = "idle" /\ \A s \in Callers : s # t => pc'[s] = pc[s]
      /\ request' = [request EXCEPT ![t] = NoRequest]
  BY <1>2 DEF Return, Goto, PolicyInv, PolicyTypeOK
<1> QED BY <1>2, <1>3, ChangeInv

(* save_config writes the file and leaves the limits alone. *)
LEMMA SaveInv ==
    ASSUME PolicyInv, NEW t \in Callers, save_config(t)
    PROVE  PolicyInv'
<1>1. /\ file' \in Lines /\ pc' = [pc EXCEPT ![t] = "idle"]
      /\ request' = [request EXCEPT ![t] = NoRequest]
      /\ UNCHANGED <<config, tenant_policies, policy_mutex, global_stats, checked, verdict, in_force>>
  BY FileShapes DEF save_config, Return, Goto, PolicyInv, PolicyTypeOK
<1>2. PolicyTypeOK' /\ in_force' \in [Callers -> SUBSET Limit]
  BY <1>1 DEF PolicyInv, PolicyTypeOK
<1>3. FileOK'
  <2>1. NoFile \notin Lines
    BY DEF NoFile, Lines
  <2> QED BY <1>1, <2>1 DEF FileOK
<1>4. ASSUME NEW s \in Callers PROVE CheckOK(s)'
  <2>1. CASE s = t
    <3>1. pc'[s] = "idle"
      BY <1>1, <2>1 DEF PolicyInv, PolicyTypeOK
    <3> QED BY <3>1, CheckOver
  <2>2. CASE s # t
    <3>1. /\ pc'[s] = pc[s] /\ request'[s] = request[s]
          /\ checked'[s] = checked[s] /\ verdict'[s] = verdict[s] /\ CheckOK(s)
      BY <1>1, <2>2 DEF PolicyInv, PolicyTypeOK
    <3> QED BY <1>1, <3>1 DEF CheckOK, Exceeds, LimitFor
  <2> QED BY <2>1, <2>2
<1> QED BY <1>2, <1>3, <1>4 DEF PolicyInv

(* A step of one caller that leaves configuration, tenants and file alone   *)
(* has to show the invariant of that caller only.                           *)
LEMMA OwnStepInv ==
    ASSUME PolicyInv, NEW t \in Callers, PolicyTypeOK',
           in_force' \in [Callers -> SUBSET Limit],
           \A s \in Callers : s # t =>
               /\ pc'[s] = pc[s] /\ request'[s] = request[s] /\ checked'[s] = checked[s]
               /\ verdict'[s] = verdict[s] /\ in_force'[s] = in_force[s],
           UNCHANGED <<config, tenant_policies, file>>,
           request'[t].op = "load" => file # NoFile,
           CheckOK(t)'
    PROVE  PolicyInv'
<1>1. FileOK'
  BY DEF PolicyInv, FileOK
<1>2. ASSUME NEW s \in Callers, s # t PROVE CheckOK(s)'
  <2>1. /\ pc'[s] = pc[s] /\ request'[s] = request[s] /\ checked'[s] = checked[s]
        /\ verdict'[s] = verdict[s] /\ in_force'[s] = in_force[s] /\ CheckOK(s)
    BY <1>2 DEF PolicyInv
  <2> QED BY <2>1 DEF CheckOK, Exceeds, LimitFor
<1> QED BY <1>1, <1>2 DEF PolicyInv

LEMMA BeginInv ==
    ASSUME PolicyInv, NEW t \in Callers, Begin(t)
    PROVE  PolicyInv'
<1>1. PICK q \in Requests :
        /\ q.op = "load" => file # NoFile
        /\ request' = [request EXCEPT ![t] = q]
        /\ Goto(t, CASE q.op = "cleanup" -> "join" [] q.op \in TenantOps -> "tenant" [] OTHER -> "lock")
        /\ in_force' = [in_force EXCEPT ![t] = LimitFor(q, config, tenant_policies)]
  BY DEF Begin
<1>2. PICK label \in {"join", "tenant", "lock"} : pc' = [pc EXCEPT ![t] = label]
  <2> DEFINE next == CASE q.op = "cleanup" -> "join" [] q.op \in TenantOps -> "tenant" [] OTHER -> "lock"
  <2>1. next \in {"join", "tenant", "lock"}
    OBVIOUS
  <2>2. pc' = [pc EXCEPT ![t] = next]
    BY <1>1 DEF Goto
  <2> HIDE DEF next
  <2> QED BY <2>1, <2>2
<1>3. UNCHANGED <<config, tenant_policies, file, policy_mutex, global_stats, checked, verdict>>
  BY DEF Begin, configVars
<1>4. LimitFor(q, config, tenant_policies) \subseteq Limit
  BY LimitForType DEF PolicyInv, PolicyTypeOK
<1>5. PolicyTypeOK'
  BY <1>1, <1>2, <1>3 DEF PolicyInv, PolicyTypeOK
<1>6. /\ in_force' \in [Callers -> SUBSET Limit]
      /\ request'[t] = q /\ pc'[t] = label
      /\ in_force'[t] = LimitFor(q, config, tenant_policies)
  BY <1>1, <1>2, <1>4 DEF PolicyInv, PolicyTypeOK
<1>7. CheckOK(t)'
  <2>1. LimitFor(request'[t], config', tenant_policies') = in_force'[t]
    BY <1>3, <1>6
  <2> QED BY <1>6, <2>1 DEF CheckOK, LimitFor
<1>8. \A s \in Callers : s # t =>
               /\ pc'[s] = pc[s] /\ request'[s] = request[s] /\ checked'[s] = checked[s]
               /\ verdict'[s] = verdict[s] /\ in_force'[s] = in_force[s]
  BY <1>1, <1>2, <1>3 DEF PolicyInv, PolicyTypeOK
<1>9. request'[t].op = "load" => file # NoFile
  BY <1>1, <1>6
<1> QED BY <1>3, <1>5, <1>6, <1>7, <1>8, <1>9, OwnStepInv

(* dynamic_policy_cleanup goes on when the thread has ended. *)
LEMMA JoinInv ==
    ASSUME PolicyInv, NEW t \in Callers, Join(t)
    PROVE  PolicyInv'
<1>1. /\ pc[t] = "join" /\ pc' = [pc EXCEPT ![t] = "lock"]
      /\ UNCHANGED <<config, tenant_policies, file, policy_mutex, global_stats, request,
                     checked, verdict, in_force>>
  BY DEF Join, Goto, configVars
<1>2. PolicyTypeOK' /\ in_force' \in [Callers -> SUBSET Limit] /\ pc'[t] = "lock"
  BY <1>1 DEF PolicyInv, PolicyTypeOK
<1>3. LimitFor(request[t], config, tenant_policies) \subseteq in_force[t]
  BY <1>1 DEF PolicyInv, CheckOK
<1>4. CheckOK(t)'
  BY <1>1, <1>2, <1>3 DEF CheckOK, LimitFor
<1>5. \A s \in Callers : s # t =>
               /\ pc'[s] = pc[s] /\ request'[s] = request[s] /\ checked'[s] = checked[s]
               /\ verdict'[s] = verdict[s] /\ in_force'[s] = in_force[s]
  BY <1>1 DEF PolicyInv, PolicyTypeOK
<1>6. request'[t].op = "load" => file # NoFile
  BY <1>1 DEF PolicyInv, FileOK
<1> QED BY <1>1, <1>2, <1>4, <1>5, <1>6, OwnStepInv

(* The limit copied under a mutex is the one in force there. *)
LEMMA CopyInv ==
    ASSUME PolicyInv, NEW t \in Callers, get_limit(t) \/ get_tenant_policy(t)
    PROVE  PolicyInv'
<1> DEFINE q == request[t]
<1>1. PICK l : /\ checked' = [checked EXCEPT ![t] = l]
               /\ l \in LimitFor(q, config, tenant_policies)
               /\ pc[t] \in {"lock", "tenant"} /\ q.op \in {"check", "check_tenant"}
  BY DEF get_limit, get_tenant_policy, Holds, AtTenants, LimitFor
<1>2. /\ pc' = [pc EXCEPT ![t] = "judge"]
      /\ UNCHANGED <<config, tenant_policies, file, policy_mutex, global_stats, request,
                     verdict, in_force>>
  BY DEF get_limit, get_tenant_policy, Goto, configVars
<1>3. l \in in_force[t] /\ l \in Limit
  <2>1. LimitFor(q, config, tenant_policies) \subseteq in_force[t]
    BY <1>1 DEF PolicyInv, CheckOK
  <2> QED BY <1>1, <2>1 DEF PolicyInv
<1>4. PolicyTypeOK' /\ in_force' \in [Callers -> SUBSET Limit]
  BY <1>1, <1>2, <1>3 DEF PolicyInv, PolicyTypeOK
<1>5. pc'[t] = "judge" /\ checked'[t] = l
  BY <1>1, <1>2 DEF PolicyInv, PolicyTypeOK
<1>6. CheckOK(t)'
  BY <1>1, <1>2, <1>3, <1>5 DEF CheckOK
<1>7. \A s \in Callers : s # t =>
               /\ pc'[s] = pc[s] /\ request'[s] = request[s] /\ checked'[s] = checked[s]
               /\ verdict'[s] = verdict[s] /\ in_force'[s] = in_force[s]
  BY <1>1, <1>2 DEF PolicyInv, PolicyTypeOK
<1>8. request'[t].op = "load" => file # NoFile
  BY <1>2 DEF PolicyInv, FileOK
<1> QED BY <1>2, <1>4, <1>6, <1>7, <1>8, OwnStepInv

(* The copy is judged against the count read after the mutex. *)
LEMMA JudgeInv ==
    ASSUME PolicyInv, NEW t \in Callers, check_limit(t)
    PROVE  PolicyInv'
<1> DEFINE q == request[t]
<1>1. /\ pc[t] = "judge" /\ pc' = [pc EXCEPT ![t] = "verdict"]
      /\ verdict' = [verdict EXCEPT ![t] = [exceeded |-> Exceeds(checked[t], CountOf(q), q),
                                            count |-> CountOf(q)]]
      /\ UNCHANGED <<config, tenant_policies, file, policy_mutex, global_stats, request,
                     checked, in_force>>
  BY DEF check_limit, Goto, configVars
<1>2. CountOf(q) \in Counts /\ Exceeds(checked[t], CountOf(q), q) \in BOOLEAN
  BY PolicyAssumption DEF CountOf, Exceeds, PolicyInv, PolicyTypeOK
<1>3. PolicyTypeOK' /\ in_force' \in [Callers -> SUBSET Limit]
  <2>1. verdict' \in [Callers -> [exceeded : BOOLEAN, count : Counts]]
    BY <1>1, <1>2 DEF PolicyInv, PolicyTypeOK
  <2> QED BY <1>1, <2>1 DEF PolicyInv, PolicyTypeOK
<1>4. /\ pc'[t] = "verdict" /\ checked[t] \in in_force[t]
      /\ q.op \in {"check", "check_tenant"}
      /\ verdict'[t].exceeded = Exceeds(checked[t], verdict'[t].count, q)
  BY <1>1 DEF PolicyInv, PolicyTypeOK, CheckOK
<1>5. CheckOK(t)'
  <2>1. \E l \in in_force[t] : verdict'[t].exceeded <=> Exceeds(l, verdict'[t].count, q)
    BY <1>4
  <2> QED BY <1>1, <1>4, <2>1 DEF CheckOK, Exceeds
<1>6. \A s \in Callers : s # t =>
               /\ pc'[s] = pc[s] /\ request'[s] = request[s] /\ checked'[s] = checked[s]
               /\ verdict'[s] = verdict[s] /\ in_force'[s] = in_force[s]
  BY <1>1 DEF PolicyInv, PolicyTypeOK
<1>7. request'[t].op = "load" => file # NoFile
  BY <1>1 DEF PolicyInv, FileOK
<1> QED BY <1>1, <1>3, <1>5, <1>6, <1>7, OwnStepInv

LEMMA CheckReturnsInv ==
    ASSUME PolicyInv, NEW t \in Callers, CheckReturns(t)
    PROVE  PolicyInv'
<1>1. /\ pc' = [pc EXCEPT ![t] = "idle"] /\ request' = [request EXCEPT ![t] = NoRequest]
      /\ checked' = [checked EXCEPT ![t] = ZeroConfig.limit["qp"]]
      /\ verdict' = [verdict EXCEPT ![t] = [exceeded |-> FALSE, count |-> 0]]
      /\ in_force' = [in_force EXCEPT ![t] = {}]
      /\ UNCHANGED <<config, tenant_policies, file, policy_mutex, global_stats>>
  BY DEF CheckReturns, Return, Goto, configVars
<1>2. PolicyTypeOK'
  <2>1. ZeroConfig.limit["qp"] \in Limit /\ 0 \in Counts
    BY ConfigShapes, PolicyAssumption
  <2> QED BY <1>1, <2>1 DEF PolicyInv, PolicyTypeOK
<1>3. /\ in_force' \in [Callers -> SUBSET Limit]
      /\ pc'[t] = "idle" /\ request'[t] = NoRequest
  BY <1>1 DEF PolicyInv, PolicyTypeOK
<1>4. CheckOK(t)'
  BY <1>3, CheckOver
<1>5. \A s \in Callers : s # t =>
               /\ pc'[s] = pc[s] /\ request'[s] = request[s] /\ checked'[s] = checked[s]
               /\ verdict'[s] = verdict[s] /\ in_force'[s] = in_force[s]
  BY <1>1 DEF PolicyInv, PolicyTypeOK
<1>6. request'[t].op = "load" => file # NoFile
  BY <1>3 DEF NoRequest
<1> QED BY <1>1, <1>2, <1>3, <1>4, <1>5, <1>6, OwnStepInv

(* The steps that belong to no call: the thread, the collector, the start   *)
(* of another process.                                                      *)
LEMMA OthersInv ==
    ASSUME PolicyInv, AdjusterStep \/ Collect \/ OtherStarts
    PROVE  PolicyInv'
<1>1. /\ UNCHANGED <<config, tenant_policies, file, request, checked, verdict, in_force>>
      /\ \A t \in Callers : pc'[t] = pc[t]
  BY PolicyAssumption
  DEF AdjusterStep, Wake, LockThenAdjust, Collect, OtherStarts, Goto, configVars, callVars,
      PolicyInv, PolicyTypeOK
<1>2. PolicyTypeOK'
  <2>1. global_stats' \in [Counted -> Counts] /\ policy_mutex' \in {Free, Adjuster}
    BY DEF AdjusterStep, Wake, LockThenAdjust, Collect, OtherStarts, PolicyInv, PolicyTypeOK
  <2>2. pc' \in [Callers \cup {Adjuster} ->
               {"idle", "join", "lock", "tenant", "judge", "verdict", "sleep", "exit", "relock"}]
    BY DEF AdjusterStep, Wake, LockThenAdjust, Collect, OtherStarts, Goto, callVars,
           PolicyInv, PolicyTypeOK
  <2> QED BY <1>1, <2>1, <2>2 DEF PolicyInv, PolicyTypeOK
<1>3. FileOK'
  BY <1>1 DEF PolicyInv, FileOK
<1>4. ASSUME NEW t \in Callers PROVE CheckOK(t)'
  BY <1>1 DEF PolicyInv, CheckOK, Exceeds, LimitFor
<1> QED BY <1>1, <1>2, <1>3, <1>4 DEF PolicyInv

LEMMA PolicyStepInv ==
    ASSUME PolicyInv, [PolicyNext]_policyVars
    PROVE  PolicyInv'
<1>1. CASE UNCHANGED policyVars
  <2>1. UNCHANGED <<config, tenant_policies, file, request, checked, verdict, in_force, pc,
                    policy_mutex, global_stats>>
    BY <1>1 DEF policyVars, configVars, callVars
  <2> QED BY <2>1 DEF PolicyInv, PolicyTypeOK, FileOK, CheckOK, Exceeds, LimitFor
<1>2. ASSUME NEW t \in Callers, Begin(t) \/ Serve(t) PROVE PolicyInv'
  BY <1>2, BeginInv, JoinInv, ConfigCallsInv, InitCallInv, SaveInv, CopyInv, JudgeInv,
     CheckReturnsInv, TenantCallsInv
  DEF Serve
<1>3. CASE AdjusterStep \/ Collect \/ OtherStarts
  BY <1>3, OthersInv
<1> QED BY <1>1, <1>2, <1>3 DEF PolicyNext

(* dynamic_policy_check_limit and dynamic_policy_check_tenant_limit answer  *)
(* for one limit as a whole that was in force during the call, however      *)
(* calls that change limits, restarts and loads interleave with it.         *)
THEOREM VerdictsCorrect == PolicySpec => []VerdictOfOneLimit
<1>1. PolicyInv => VerdictOfOneLimit
  BY DEF PolicyInv, CheckOK, VerdictOfOneLimit
<1> QED BY <1>1, PolicyInitInv, PolicyStepInv, PTL DEF PolicySpec

-----------------------------------------------------------------------------
(* The published limits follow a call that publishes or that changes none.  *)
LEMMA CallPublishes ==
    ASSUME PolicyInv, NEW t \in Callers, region_limits = GlobalLimits(config),
           \/ set_limit(t) \/ update(t) \/ set_auto_adjust(t) \/ enable_rule(t)
           \/ adjust(t) \/ init(t)
    PROVE  region_limits' = GlobalLimits(config')
<1>1. config \in Config
  BY DEF PolicyInv, PolicyTypeOK
<1>2. CASE set_limit(t)
  BY <1>2 DEF set_limit, Publish, Keep
<1>3. CASE update(t)
  BY <1>3 DEF update, Publish
<1>4. CASE set_auto_adjust(t)
  BY <1>1, <1>4 DEF set_auto_adjust, Keep, GlobalLimits, Config
<1>5. CASE enable_rule(t)
  BY <1>1, <1>5 DEF enable_rule, Keep, GlobalLimits, Config
<1>6. CASE adjust(t)
  BY <1>6 DEF adjust, Keep
<1>7. CASE init(t)
  BY <1>7 DEF init
<1> QED BY <1>2, <1>3, <1>4, <1>5, <1>6, <1>7

(* shm_set_global_limits: the limits that other processes read leave those  *)
(* of the configuration by set_default, load_config, the final cleanup or   *)
(* the start of another process, and by nothing else.                       *)
THEOREM LimitsFollow == PolicySpec => PublishedLimitsFollow
<1> DEFINE A == region_limits = GlobalLimits(config) /\ region_limits' # GlobalLimits(config')
                  => \/ OtherStarts
                     \/ \E t \in Callers : set_default(t) \/ load_config(t) \/ cleanup(t)
<1>1. ASSUME PolicyInv, [PolicyNext]_policyVars PROVE [A]_policyVars
  <2>1. CASE UNCHANGED policyVars
    BY <2>1
  <2>2. CASE AdjusterStep \/ Collect \/ OtherStarts
    <3>1. CASE OtherStarts
      BY <3>1
    <3>2. CASE AdjusterStep \/ Collect
      <4>1. UNCHANGED <<config, region_limits>>
        BY <3>2 DEF AdjusterStep, Wake, LockThenAdjust, Collect, configVars
      <4> QED BY <4>1
    <3> QED BY <2>2, <3>1, <3>2
  <2>3. ASSUME NEW t \in Callers, Begin(t) \/ Serve(t) PROVE A
    <3>1. CASE \/ Begin(t) \/ Join(t) \/ get_limit(t) \/ check_limit(t) \/ CheckReturns(t)
               \/ save_config(t) \/ get_tenant_policy(t)
               \/ set_tenant_policy(t) \/ delete_tenant_policy(t)
      <4>1. UNCHANGED <<config, region_limits>>
        BY <3>1 DEF Begin, Join, get_limit, check_limit, CheckReturns, save_config,
                    get_tenant_policy, set_tenant_policy, delete_tenant_policy, SetTenant,
                    configVars
      <4> QED BY <4>1
    <3>2. CASE \/ set_limit(t) \/ update(t) \/ set_auto_adjust(t) \/ enable_rule(t)
               \/ adjust(t) \/ init(t)
      BY <1>1, <3>2, CallPublishes
    <3>3. CASE set_default(t) \/ load_config(t) \/ cleanup(t)
      BY <3>3
    <3> QED BY <2>3, <3>1, <3>2, <3>3 DEF Serve
  <2> QED BY <1>1, <2>1, <2>2, <2>3 DEF PolicyNext
<1> QED BY <1>1, PolicyInitInv, PolicyStepInv, PTL DEF PolicySpec, PublishedLimitsFollow
=============================================================================
