---------------------------- MODULE MCTenantHooks ----------------------------
(* TLC instances of TenantHooks.                                            *)
EXTENDS TenantHooks, TLC

CONSTANTS p1, p2, h1, h2, h3

MCQuota(n, m) == [r \in Resources |-> IF r = "Memory" THEN m ELSE n]
Quota1 == MCQuota(1, 2)
QuotaSet1 == {Quota1}
NoUsageArgs == {}

(* A process of tenant 1 with two threads, which administrators interfere   *)
(* with, beside one of tenant 2 with one thread, which they leave alone.    *)
ThreeThreads == (h1 :> p1) @@ (h2 :> p1) @@ (h3 :> p2)
AllVerbs     == (h1 :> {"create_qp", "destroy_qp", "reg_mr", "dereg_mr"})
                @@ (h2 :> {"create_qp", "destroy_qp"}) @@ (h3 :> Creates \cup Frees)
TwoTenants   == (p1 :> 1) @@ (p2 :> 2)

(* Two processes with one thread each, both of tenant 1. *)
TwoProcs  == (h1 :> p1) @@ (h2 :> p2)
QpVerbs   == [h \in Threads |-> {"create_qp", "destroy_qp"}]
OneTenant == (p1 :> 1) @@ (p2 :> 1)

(* The first instance is one to which the theorems about quiet tenants      *)
(* apply; the second is not.                                                *)
ASSUME QuietInstance == QuietAlone <=> ProcOf = ThreeThreads
=============================================================================
