--------------------------- MODULE MCTenantShmSync ---------------------------
(* TLC instance of TenantShmSync: one tenant besides tenant 0, and calls    *)
(* made by two clients.                                                     *)
EXTENDS TenantShmSync

MCDefaultQuota == [r \in Resources |-> 1]
MCQuotaArgs == {[r \in Resources |-> 2]}
MCUsageArgs == {[ZeroUsage EXCEPT !.count["QP"] = 1, !.made["QP"] = 1]}
=============================================================================
