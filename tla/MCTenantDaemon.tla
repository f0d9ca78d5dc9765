--------------------------- MODULE MCTenantDaemon ---------------------------
(* TLC instances of TenantDaemon.                                           *)
EXTENDS TenantDaemon, TLC

CONSTANTS c1, c2, p1

Request(cmd, t, qp, mr) == [cmd |-> cmd, tenant |-> t, qp |-> qp, mr |-> mr]

(* Between them every command, with and without its fields, on a tenant     *)
(* that may exist and on one that cannot, and a command nobody knows.       *)
MCRequests ==
    (c1 :> {Request("CREATE", 1, 2, Absent), Request("CREATE", Absent, 2, 2),
            Request("DELETE", 1, Absent, Absent), Request("UPDATE_QUOTA", 1, Absent, 1),
            Request("STATUS", 3, Absent, Absent)})
    @@ (c2 :> {Request("CREATE", 1, Absent, 1), Request("UPDATE_QUOTA", 1, 3, Absent),
               Request("STATUS", 1, Absent, Absent), Request("STATUS", Absent, Absent, Absent),
               Request("LIST_TENANTS", Absent, Absent, Absent), Request("RESTART", 1, Absent, Absent)})

OneCreate == (c1 :> {Request("CREATE", 1, 2, 2)})
NoArgs == {}
ZeroQuota == [r \in Resources |-> 0]
=============================================================================
