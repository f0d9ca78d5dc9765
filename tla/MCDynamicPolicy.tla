--------------------------- MODULE MCDynamicPolicy ---------------------------
(* TLC instance of DynamicPolicy: a limit below the default one, and a      *)
(* memory limit that is not a whole number of megabytes.                    *)
EXTENDS DynamicPolicy, TLC

CONSTANTS t1, t2

(* One caller manages the policy and its life, the other checks, and        *)
(* changes limits under it.                                                 *)
AllOps == {"set_limit", "update", "auto_adjust", "enable_rule", "check", "set_default", "load", "save",
           "adjust", "cleanup", "init", "set_tenant", "delete_tenant", "check_tenant"}
MCOps  == [t \in Callers |->
             IF t = t1 THEN AllOps ELSE {"check", "check_tenant", "set_limit"}]
AdjustOps == [t \in Callers |-> {"auto_adjust", "set_limit"}]

MCLimits == {[per |-> 1, global |-> 2, memory |-> 3]}
MCDefaultLimit == [r \in Resources |->
    IF r = "memory" THEN [per |-> 0, global |-> 0, memory |-> 4]
                    ELSE [per |-> 2, global |-> 1, memory |-> 0]]
=============================================================================
