----------------------------- MODULE MCTenantShm -----------------------------
(* TLC instance of TenantShm: two tenants, two mapping slots and three      *)
(* interchangeable processes, so that the mapping table fills up.           *)
EXTENDS TenantShm, TLC

MCDefaultQuota == [r \in Resources |-> 1]
MCQuotaArgs == {MCDefaultQuota}
MCUsageArgs == {[ZeroUsage EXCEPT !.count["QP"] = 1, !.made["QP"] = 1]}
Symmetry == Permutations(Pids)
=============================================================================
