----------------------------- MODULE MCCollector -----------------------------
(* Collector for TLC: usages of the kernel and the calls of clients. *)
EXTENDS Collector

CONSTANTS c1, c2

MCUsage(n) == [qp |-> n, mr |-> n, used |-> n]
MCKernelStates == {[global |-> MCUsage(n), proc |-> [p \in Pids |-> MCUsage(n)]] : n \in 0 .. 1}
    \cup {[global |-> MCUsage(0), proc |-> [p \in Pids |-> None]]}
(* With maps one client is enough against the synchronising thread; without, *)
(* one client makes and frees while the other takes what there is.           *)
MCMaxCalls(c, b) == IF b THEN (IF c = c1 THEN 1 ELSE 0) ELSE (IF c = c1 THEN 2 ELSE 1)
MCCalls(c, b) ==
    IF b THEN [op : {"check_qp", "QP_CREATE"}, arg : {None}] \cup [op : {"GET_PROC_STATS"}, arg : Pids]
    ELSE [op : {"QP_CREATE"}, arg : {None}] \cup [op : {"MR_CREATE"}, arg : Sizes]
         \cup IF c = c1 THEN [op : {"QP_DESTROY"}, arg : {None}] \cup [op : {"MR_DESTROY"}, arg : Sizes]
              ELSE [op : {"CHECK_MEMORY"}, arg : Sizes]
==============================================================================
