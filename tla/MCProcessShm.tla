----------------------------- MODULE MCProcessShm -----------------------------
(* TLC instance of ShmCollector and ProcessShm: records of two fields, so   *)
(* that a reader can mix two of them; a collector, or two clients alike.    *)
EXTENDS ShmCollector, TLC

CONSTANTS p1, p2, p3

Ones == [f \in Fields |-> 1]
Twos == [f \in Fields |-> IF f = "qp_count" THEN 2 ELSE 0]
MCUsages == {Ones, Twos}
MCLimits == {[f \in Fields |-> 5]}
MCServiceLimits == [f \in Fields |-> 5]
MCDefaultLimits == [f \in Fields |-> 9]

MCKeyOrder == <<p2, p1, p3>>
MCKernel == [global |-> Ones, process |-> (p1 :> Ones) @@ (p2 :> Ones) @@ (p3 :> NoRecord)]
MCKernelUsages == {Twos}
=============================================================================
