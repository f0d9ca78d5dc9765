-------------------------- MODULE Collector_proofs --------------------------
(***************************************************************************)
(* Proofs about the collector server and its clients, for any number of     *)
(* clients and processes, any maps of the kernel, and a server that may     *)
(* end at any point.                                                        *)
(***************************************************************************)
EXTENDS Collector, FiniteSetTheorems, TLAPS

Section      == {"walk", "node", "qp", "mr", "unlock"}      \* of ebpf_sync_mutex
Counting     == Section \cup {"lock", "count", "memory"}    \* the server, for statistics
Serving      == Counting \cup {"serve", "reply"}
ServerLabels == Serving \cup {"listen", "loop", "select", "read", "cleanup", "join", "down"}
SyncerLabels == Section \cup {"check", "lock", "done"}

Frame == [due : SUBSET Pids, pid : Pids \cup {None}, usage : Usage]
Asking == {"GET_STATS", "GET_PROC_STATS"}
Job ==
    {j \in [op : Requests, arg : Sizes \cup Pids \cup {None}] :
        /\ j.op = "GET_PROC_STATS" => j.arg \in Pids
        /\ j.op \in {"MR_CREATE", "MR_DESTROY", "CHECK_MEMORY"} => j.arg \in Sizes}
Answers == [text : Texts, usage : Usage]

(* The threads and the mutex: one of them at a time is inside, until the    *)
(* mutex is destroyed, which the server does when it serves nobody more.    *)
ThreadsOK ==
    /\ pc \in [Threads -> ServerLabels \cup SyncerLabels]
    /\ pc[Server] \in ServerLabels /\ pc[Syncer] \in SyncerLabels
    /\ \A t \in Threads : pc[t] \in Section => ebpf_sync_mutex \in {t, Destroyed}
    /\ ebpf_sync_mutex = Destroyed => pc[Server] = "join"
    /\ frame \in [Threads -> Frame]
    /\ \A t \in Threads : pc[t] = "node" => frame[t].pid \in Pids

CountsOK ==
    /\ global_qp_count \in Nat /\ global_mr_count \in Nat /\ global_memory_used \in Nat
    /\ process_resources \in [Pids -> Usage \cup {None}]

(* From its first request on, a call has seen what the maps hold. *)
KernelOK ==
    /\ mapped \in BOOLEAN /\ kernel \in KernelStates
    /\ seen \in [Clients -> SUBSET KernelStates]
    /\ \A c \in Clients : Active(c) /\ seen[c] # {} => kernel \in seen[c]

(* Connections: the queue, and the one that is served. *)
LinksOK ==
    /\ backlog \in Seq(Clients)
    /\ \A i, j \in DOMAIN backlog : i # j => backlog[i] # backlog[j]
    /\ link \in [Clients -> {"none", "queued", "open", "eof", "reset"}]
    /\ \A c \in Clients : link[c] = "queued" <=> \E i \in DOMAIN backlog : backlog[i] = c
    /\ \A c \in Clients : link[c] = "open" <=> pc[Server] \in Serving \cup {"read"} /\ cur = c
    /\ pc[Server] \in Serving \cup {"read"} => cur \in Clients
    /\ cur # None => pc[Server] \in Serving \cup {"read"}

CallType ==
    {k \in [op : {"get_stats", "check_qp"} \cup Requests, arg : Sizes \cup Pids \cup {None},
            round : {1, 2}, count : Nat, told : BOOLEAN] :
        /\ k.op = "GET_PROC_STATS" => k.arg \in Pids
        /\ k.op \in {"MR_CREATE", "MR_DESTROY", "CHECK_MEMORY"} => k.arg \in Sizes}

(* What a client has sent and been answered belongs to its call. *)
ClientOK(c) ==
    /\ Active(c) => call[c] \in CallType
    /\ cached[c] \in [count : Nat, max : Nat]
    /\ cpc[c] \in {"idle", "connect"} => link[c] = "none"
    /\ req[c] # None => /\ cpc[c] \in {"wait", "dead"}
                        /\ req[c] \in Job
                        /\ cpc[c] = "wait" => req[c] = Request(c)
    /\ rsp[c] # None => cpc[c] = "wait" /\ rsp[c] \in Answers /\ link[c] = "eof"
    /\ cpc[c] = "wait" /\ Asks(c) => seen[c] # {}

ClientsOK ==
    /\ cpc \in [Clients -> {"idle", "connect", "send", "wait", "dead"}]
    /\ DOMAIN call = Clients /\ DOMAIN cached = Clients /\ DOMAIN verdict = Clients
    /\ DOMAIN req = Clients /\ DOMAIN rsp = Clients
    /\ qps \in [Clients -> Nat] /\ mrs \in [Clients -> [Sizes -> Nat]]
    /\ \A c \in Clients : ClientOK(c)

(* The job of the server is the request of the connection that it serves,   *)
(* whose client waits or has died.                                          *)
JobOK ==
    /\ job # None => pc[Server] \in Serving
    /\ pc[Server] \in Serving =>
         /\ job \in Job
         /\ pc[Server] \in Counting => job.op \in Asking
         /\ pc[Server] = "serve" => job.op \notin Asking
         /\ pc[Server] = "memory" => job.op = "GET_STATS"
         /\ pc[Server] \in {"memory", "reply"} => answer \in Answers
         /\ pc[Server] = "reply" /\ answer.text = "Stats" => job.op \in Asking
         /\ cpc[cur] = "dead" \/ (cpc[cur] = "wait" /\ job = Request(cur))

(* What the maps K have held. *)
Qps(K)      == {k.global.qp : k \in K}
Memories(K) == {<<k.global.mr, k.global.used>> : k \in K}
Globals(K)  == {k.global : k \in K}
Known(K, p) == {k.proc[p] : k \in K}

(* The counts on their way from the kernel to the answer. *)
FreshGlobal(K) ==
    /\ pc[Server] \in {"qp", "mr"} => frame[Server].usage \in Globals(K)
    /\ pc[Server] \in {"mr", "unlock", "count", "memory"} => global_qp_count \in Qps(K)
    /\ pc[Server] \in {"unlock", "count", "memory"} =>
         <<global_mr_count, global_memory_used>> \in Memories(K)
    /\ pc[Server] \in {"count", "memory"} /\ pc[Syncer] \in {"qp", "mr"} =>
         frame[Syncer].usage \in Globals(K)
    /\ pc[Server] = "memory" => answer.usage.qp \in Qps(K)
    /\ pc[Server] = "reply" /\ job.op = "GET_STATS" =>
         answer.usage.qp \in Qps(K) /\ <<answer.usage.mr, answer.usage.used>> \in Memories(K)

(* The record of a process whose entry has been there throughout. *)
FreshProcess(K, p) ==
    None \notin Known(K, p) =>
        /\ pc[Server] = "walk" => p \in frame[Server].due \/ process_resources[p] \in Known(K, p)
        /\ pc[Server] = "node" =>
             IF frame[Server].pid = p THEN frame[Server].usage \in Known(K, p)
             ELSE p \in frame[Server].due \/ process_resources[p] \in Known(K, p)
        /\ pc[Server] \in {"qp", "mr", "unlock", "count"} => process_resources[p] \in Known(K, p)
        /\ pc[Server] = "count" /\ pc[Syncer] = "node" /\ frame[Syncer].pid = p =>
             frame[Syncer].usage \in Known(K, p)
        /\ pc[Server] = "reply" => answer.usage \in Known(K, p)

FreshJob ==
    mapped /\ pc[Server] \in Counting \cup {"reply"} /\ cpc[cur] = "wait" /\ job.op \in Asking =>
        /\ FreshGlobal(seen[cur])
        /\ job.op = "GET_PROC_STATS" => FreshProcess(seen[cur], job.arg)

(* The figure that the first of two answers has brought. *)
FirstFigure ==
    \A c \in Clients :
        mapped /\ Active(c) /\ call[c].op = "check_qp" /\ call[c].round = 2 /\ call[c].told =>
            call[c].count \in Qps(seen[c])

ServerInv == ThreadsOK /\ CountsOK /\ KernelOK /\ LinksOK /\ ClientsOK /\ JobOK
FreshInv  == ServerInv /\ FreshJob /\ FreshStats /\ FirstFigure /\ VerdictOfOneMoment

-----------------------------------------------------------------------------
LEMMA ThreadNames == Server \in Threads /\ Syncer \in Threads /\ Server # Syncer
                     /\ \A t \in Threads : t = Server \/ t = Syncer
  BY DEF Server, Syncer, Threads

LEMMA KernelType ==
    \A k \in KernelStates : k.global \in Usage /\ k.proc \in [Pids -> Usage \cup {None}]
  BY CollectorAssumption

LEMMA Limits == Word \in Nat /\ Word > 0 /\ MaxQp \in Nat /\ MaxQp > 0 /\ DefaultMax \in Nat
                /\ \A s \in Sizes : s \in Nat
<1>1. Word \in Nat /\ MaxMemory \in Nat \ {0} /\ MaxMemory < Word /\ MaxQp \in Nat \ {0}
      /\ DefaultMax \in Nat \ {0}
  BY CollectorAssumption
<1>2. Word > 0
  BY <1>1
<1>3. \A s \in Sizes : s \in 0 .. Word - 1
  BY CollectorAssumption
<1>4. QED
  BY <1>1, <1>2, <1>3

LEMMA ZeroUsage == Zero \in Usage
  BY DEF Zero, Usage

LEMMA UsageFields == \A u \in Usage : u.qp \in Nat /\ u.mr \in Nat /\ u.used \in Nat
  BY DEF Usage

(* Clients that a step leaves alone. *)
LEMMA QuietClient ==
    ASSUME NEW d \in Clients, ClientOK(d),
           cpc'[d] = cpc[d], call'[d] = call[d], cached'[d] = cached[d], link'[d] = link[d],
           req'[d] = req[d], rsp'[d] = rsp[d], seen'[d] = seen[d]
    PROVE  ClientOK(d)'
  BY DEF ClientOK, Active, Asks, Request

LEMMA QuietClients ==
    ASSUME ClientsOK, UNCHANGED <<linkVars, clientVars, seen>>
    PROVE  ClientsOK'
<1>1. UNCHANGED <<link, req, rsp, cpc, call, cached, qps, mrs, verdict, seen>>
  BY DEF linkVars, clientVars
<1>2. ASSUME NEW d \in Clients PROVE ClientOK(d)'
  BY <1>1, QuietClient DEF ClientsOK
<1>3. QED
  BY <1>1, <1>2 DEF ClientsOK

LEMMA QuietKernel ==
    ASSUME KernelOK, UNCHANGED <<kernelVars, seen, cpc>>
    PROVE  KernelOK'
  BY DEF KernelOK, kernelVars, Active

(* The server stays where it was with a connection, or without. *)
LEMMA QuietLinks ==
    ASSUME LinksOK, UNCHANGED <<backlog, link, cur>>,
           pc'[Server] \in Serving \cup {"read"} <=> pc[Server] \in Serving \cup {"read"}
    PROVE  LinksOK'
  BY DEF LinksOK

-----------------------------------------------------------------------------
(* One thread moves, with its frame and perhaps the mutex. *)
LEMMA MoveThread ==
    ASSUME ThreadsOK, NEW t \in Threads, NEW l, NEW f \in Frame,
           t = Server => l \in ServerLabels, t = Syncer => l \in SyncerLabels,
           pc' = [pc EXCEPT ![t] = l], frame' = [frame EXCEPT ![t] = f],
           l = "node" => f.pid \in Pids,
           l \in Section => ebpf_sync_mutex' \in {t, Destroyed},
           \A s \in Threads \ {t} : pc[s] \in Section => ebpf_sync_mutex' \in {s, Destroyed},
           ebpf_sync_mutex' = Destroyed => pc'[Server] = "join"
    PROVE  /\ ThreadsOK' /\ pc'[t] = l /\ frame'[t] = f
           /\ \A s \in Threads \ {t} : pc'[s] = pc[s] /\ frame'[s] = frame[s]
<1>1. /\ pc'[t] = l /\ frame'[t] = f
      /\ \A s \in Threads \ {t} : pc'[s] = pc[s] /\ frame'[s] = frame[s]
  BY DEF ThreadsOK
<1>2. /\ pc' \in [Threads -> ServerLabels \cup SyncerLabels] /\ frame' \in [Threads -> Frame]
      /\ pc'[Server] \in ServerLabels /\ pc'[Syncer] \in SyncerLabels
  BY ThreadNames DEF ThreadsOK
<1>3. QED
  BY <1>1, <1>2 DEF ThreadsOK

(* sync_ebpf_data moves one thread and keeps the counts natural. *)
LEMMA SyncThreads ==
    ASSUME ThreadsOK, CountsOK, KernelOK, NEW t \in Threads, SyncStep(t)
    PROVE  /\ ThreadsOK' /\ CountsOK'
           /\ pc[t] \in Section \cup {"lock"}
           /\ pc'[t] \in Section \cup {IF t = Server THEN "count" ELSE "check"}
           /\ \A s \in Threads \ {t} : pc'[s] = pc[s] /\ frame'[s] = frame[s]
<1>a. /\ frame[t] \in Frame /\ frame = [frame EXCEPT ![t] = frame[t]]
      /\ \A s \in Threads : pc[s] \in Section => ebpf_sync_mutex \in {s, Destroyed}
      /\ ebpf_sync_mutex = Destroyed => pc[Server] = "join"
      /\ kernel \in KernelStates
  BY DEF ThreadsOK, KernelOK
<1>b. Section \cup {"lock"} \subseteq ServerLabels /\ Section \cup {"lock"} \subseteq SyncerLabels
      /\ "count" \in ServerLabels /\ "check" \in SyncerLabels
  BY DEF ServerLabels, SyncerLabels, Serving, Counting
<1>c. pc[t] \in Section => \A s \in Threads \ {t} : pc[s] \in Section => ebpf_sync_mutex = Destroyed
  BY <1>a DEF Destroyed
<1>d. ASSUME pc[t] \in Section \cup {"lock"}, ebpf_sync_mutex = Destroyed
      PROVE  t # Server
  BY <1>a, <1>d DEF Section
<1>1. CASE SyncLock(t)
  <2>1. /\ pc' = [pc EXCEPT ![t] = IF mapped THEN "walk" ELSE "unlock"]
        /\ frame' = [frame EXCEPT ![t] = [frame[t] EXCEPT !.due = IF mapped THEN Present ELSE {}]]
        /\ ebpf_sync_mutex' = IF ebpf_sync_mutex = Free THEN t ELSE Destroyed
        /\ pc[t] = "lock" /\ ebpf_sync_mutex \in {Free, Destroyed}
        /\ UNCHANGED <<global_qp_count, global_mr_count, global_memory_used, process_resources>>
    BY <1>1 DEF SyncLock, countVars, Goto
  <2>2. [frame[t] EXCEPT !.due = IF mapped THEN Present ELSE {}] \in Frame
    BY <1>a DEF Frame, Present
  <2>3. \A s \in Threads \ {t} : pc[s] \in Section => ebpf_sync_mutex' \in {s, Destroyed}
    BY <1>a, <2>1, ThreadNames DEF Free, Destroyed, Server, Syncer
  <2>4. ebpf_sync_mutex' = Destroyed => pc'[Server] = "join"
    BY <1>a, <2>1, ThreadNames DEF Free, Destroyed, Server, Syncer, ThreadsOK
  <2>5. QED
    BY <1>b, <2>1, <2>2, <2>3, <2>4, MoveThread DEF CountsOK, Section
<1>2. CASE SyncLookup(t)
  <2>1. PICK p \in frame[t].due :
          /\ frame' = [frame EXCEPT ![t] =
                [due |-> frame[t].due \ {p}, pid |-> IF p \in Present THEN p ELSE None,
                 usage |-> IF p \in Present THEN kernel.proc[p] ELSE Zero]]
          /\ pc' = [pc EXCEPT ![t] = IF p \in Present THEN "node" ELSE "walk"]
    BY <1>2 DEF SyncLookup, Goto, ThreadsOK
  <2>2. /\ pc[t] = "walk"
        /\ UNCHANGED <<ebpf_sync_mutex, global_qp_count, global_mr_count, global_memory_used,
                       process_resources>>
    BY <1>2 DEF SyncLookup, countVars
  <2>x. DEFINE f == [due |-> frame[t].due \ {p}, pid |-> IF p \in Present THEN p ELSE None,
                     usage |-> IF p \in Present THEN kernel.proc[p] ELSE Zero]
  <2>3. frame' = [frame EXCEPT ![t] = f]
    BY <2>1
  <2>4. p \in Present => p \in Pids /\ kernel.proc[p] \in Usage
    BY <1>a, KernelType DEF Present
  <2>5. f \in Frame /\ (p \in Present => f.pid = p /\ p \in Pids)
    BY <1>a, <2>4, ZeroUsage DEF Frame
  <2> HIDE DEF f
  <2>y. DEFINE l == IF p \in Present THEN "node" ELSE "walk"
  <2>7. l \in {"node", "walk"} /\ l \in Section /\ (l = "node" => f.pid \in Pids)
    BY <2>5 DEF Section
  <2>8. pc' = [pc EXCEPT ![t] = l]
    BY <2>1
  <2> HIDE DEF l
  <2>9. ebpf_sync_mutex' \in {t, Destroyed}
        /\ (ebpf_sync_mutex' = Destroyed => pc'[Server] = "join")
        /\ \A s \in Threads \ {t} : pc[s] \in Section => ebpf_sync_mutex' \in {s, Destroyed}
    BY <1>a, <1>d, <2>2, <2>8, ThreadNames DEF ThreadsOK, Section
  <2>6. QED
    BY <1>b, <2>2, <2>3, <2>5, <2>7, <2>8, <2>9, MoveThread DEF CountsOK, Section
<1>3. CASE SyncNode(t)
  <2>1. /\ frame' = [frame EXCEPT ![t] = [frame[t] EXCEPT !.pid = None, !.usage = Zero]]
        /\ pc[t] = "node" /\ pc' = [pc EXCEPT ![t] = "walk"]
        /\ UNCHANGED <<ebpf_sync_mutex, global_qp_count, global_mr_count, global_memory_used>>
    BY <1>3 DEF SyncNode, Goto, countVars
  <2>2. process_resources' \in [Pids -> Usage \cup {None}]
    BY <1>3, <1>a DEF SyncNode, CountsOK, Frame
  <2>3. [frame[t] EXCEPT !.pid = None, !.usage = Zero] \in Frame
    BY <1>a, ZeroUsage DEF Frame
  <2>4. QED
    BY <1>a, <1>b, <1>d, <2>1, <2>2, <2>3, MoveThread, ThreadNames DEF CountsOK, Section, ThreadsOK
<1>4. CASE SyncGlobal(t)
  <2>1. /\ frame' = [frame EXCEPT ![t] = [frame[t] EXCEPT !.usage = kernel.global]]
        /\ pc[t] = "walk" /\ pc' = [pc EXCEPT ![t] = "qp"]
        /\ UNCHANGED <<ebpf_sync_mutex, global_qp_count, global_mr_count, global_memory_used,
                       process_resources>>
    BY <1>4 DEF SyncGlobal, Goto, countVars
  <2>2. [frame[t] EXCEPT !.usage = kernel.global] \in Frame
    BY <1>a, KernelType DEF Frame
  <2>3. QED
    BY <1>a, <1>b, <1>d, <2>1, <2>2, MoveThread, ThreadNames DEF CountsOK, Section, ThreadsOK
<1>5. CASE SyncQp(t)
  <2>1. /\ UNCHANGED frame /\ pc[t] = "qp" /\ pc' = [pc EXCEPT ![t] = "mr"]
        /\ UNCHANGED <<ebpf_sync_mutex, global_mr_count, global_memory_used, process_resources>>
    BY <1>5 DEF SyncQp, Goto
  <2>2. global_qp_count' \in Nat
    BY <1>5, <1>a DEF SyncQp, Frame, Usage
  <2>3. QED
    BY <1>a, <1>b, <1>d, <2>1, <2>2, MoveThread, ThreadNames DEF CountsOK, Section, ThreadsOK
<1>6. CASE SyncMemory(t)
  <2>1. /\ frame' = [frame EXCEPT ![t] = NoFrame] /\ pc[t] = "mr" /\ pc' = [pc EXCEPT ![t] = "unlock"]
        /\ UNCHANGED <<ebpf_sync_mutex, global_qp_count, process_resources>>
    BY <1>6 DEF SyncMemory, Goto
  <2>2. global_mr_count' \in Nat /\ global_memory_used' \in Nat
    BY <1>6, <1>a DEF SyncMemory, Frame, Usage
  <2>3. NoFrame \in Frame
    BY ZeroUsage DEF NoFrame, Frame
  <2>4. QED
    BY <1>a, <1>b, <1>d, <2>1, <2>2, <2>3, MoveThread, ThreadNames DEF CountsOK, Section, ThreadsOK
<1>7. CASE SyncUnlock(t)
  <2>1. /\ UNCHANGED frame /\ pc[t] = "unlock"
        /\ pc' = [pc EXCEPT ![t] = IF t = Server THEN "count" ELSE "check"]
        /\ ebpf_sync_mutex' = IF ebpf_sync_mutex = t THEN Free ELSE ebpf_sync_mutex
        /\ UNCHANGED <<global_qp_count, global_mr_count, global_memory_used, process_resources>>
    BY <1>7 DEF SyncUnlock, Goto, countVars
  <2>2. \A s \in Threads \ {t} : pc[s] \in Section => ebpf_sync_mutex' \in {s, Destroyed}
    BY <1>a, <2>1, ThreadNames DEF Destroyed, Server, Syncer
  <2>3. ebpf_sync_mutex' = Destroyed => ebpf_sync_mutex = Destroyed /\ t # Server
    BY <1>d, <2>1 DEF Free, Destroyed, Section
  <2>4. QED
    BY <1>a, <1>b, <2>1, <2>2, <2>3, MoveThread, ThreadNames DEF CountsOK, Section, ThreadsOK
<1>8. QED
  BY <1>1, <1>2, <1>3, <1>4, <1>5, <1>6, <1>7 DEF SyncStep

LEMMA QuietJob ==
    ASSUME JobOK, UNCHANGED <<cur, job, answer, cpc, call>>,
           \/ pc'[Server] = pc[Server]
           \/ pc[Server] \in Counting /\ pc'[Server] \in Section \cup {"count"}
    PROVE  JobOK'
  BY DEF JobOK, Request, Serving, Counting, Section

LEMMA SyncInv ==
    ASSUME ServerInv, NEW t \in Threads, SyncStep(t)
    PROVE  ServerInv'
<1>1. UNCHANGED <<cur, job, answer, backlog, link, cpc, call, linkVars, clientVars, kernelVars, seen>>
  BY DEF SyncStep, serveVars, linkVars, clientVars
<1>2. /\ ThreadsOK' /\ CountsOK' /\ pc[t] \in Section \cup {"lock"}
      /\ pc'[t] \in Section \cup {IF t = Server THEN "count" ELSE "check"}
      /\ \A s \in Threads \ {t} : pc'[s] = pc[s] /\ frame'[s] = frame[s]
  BY SyncThreads DEF ServerInv
<1>3. \/ pc'[Server] = pc[Server]
      \/ pc[Server] \in Counting /\ pc'[Server] \in Section \cup {"count"}
  BY <1>2, ThreadNames DEF Counting
<1>4. KernelOK' /\ ClientsOK'
  BY <1>1, QuietKernel, QuietClients DEF ServerInv
<1>5. LinksOK'
  BY <1>1, <1>3, QuietLinks DEF ServerInv, Serving, Counting
<1>6. JobOK'
  BY <1>1, <1>3, QuietJob DEF ServerInv
<1>7. QED
  BY <1>2, <1>4, <1>5, <1>6 DEF ServerInv

-----------------------------------------------------------------------------
(* The figures of an answer, of the first round of a check, and of a verdict, *)
(* one client at a time.                                                      *)
AnswerOf(c) ==
    (mapped /\ rsp[c] # None /\ rsp[c].text = "Stats") =>
        LET u == rsp[c].usage
        IN  IF Request(c).op = "GET_STATS"
            THEN /\ \E k \in seen[c] : u.qp = k.global.qp
                 /\ \E k \in seen[c] : u.mr = k.global.mr /\ u.used = k.global.used
            ELSE LET known == {k.proc[call[c].arg] : k \in seen[c]}
                 IN  None \notin known => u \in known
FigureOf(c) ==
    mapped /\ Active(c) /\ call[c].op = "check_qp" /\ call[c].round = 2 /\ call[c].told =>
        call[c].count \in Qps(seen[c])
VerdictOf(c) ==
    (mapped /\ verdict[c] # None /\ verdict[c].of = "qp" /\ verdict[c].told) =>
        \E k \in seen[c] : verdict[c].refused = (k.global.qp >= MaxQp)

ReportsOf(c) == AnswerOf(c) /\ FigureOf(c) /\ VerdictOf(c)

LEMMA Reports ==
    FreshStats /\ FirstFigure /\ VerdictOfOneMoment <=> \A c \in Clients : ReportsOf(c)
  BY DEF FreshStats, FirstFigure, VerdictOfOneMoment, ReportsOf, AnswerOf, FigureOf, VerdictOf

LEMMA QuietReport ==
    ASSUME NEW d \in Clients, ReportsOf(d), UNCHANGED mapped,
           cpc'[d] = cpc[d], call'[d] = call[d], verdict'[d] = verdict[d], rsp'[d] = rsp[d],
           seen'[d] = seen[d]
    PROVE  ReportsOf(d)'
<1>1. AnswerOf(d)'
  BY DEF ReportsOf, AnswerOf, Request
<1>2. FigureOf(d)' /\ VerdictOf(d)'
  BY DEF ReportsOf, FigureOf, VerdictOf, Active
<1>3. QED
  BY <1>1, <1>2 DEF ReportsOf

LEMMA NextReports ==
    ASSUME \A c \in Clients : ReportsOf(c)'
    PROVE  (FreshStats /\ FirstFigure /\ VerdictOfOneMoment)'
  BY DEF FreshStats, FirstFigure, VerdictOfOneMoment, ReportsOf, AnswerOf, FigureOf, VerdictOf

(* Steps of the server that send no answer leave all that alone. *)
LEMMA QuietReports ==
    ASSUME \A c \in Clients : ReportsOf(c), UNCHANGED <<mapped, rsp, clientVars, seen>>
    PROVE  \A c \in Clients : ReportsOf(c)'
<1>1. UNCHANGED <<cpc, call, verdict>>
  BY DEF clientVars
<1>2. QED
  BY <1>1, QuietReport

-----------------------------------------------------------------------------
(* A thread inside sync_ebpf_data is alone there while the server serves. *)
LEMMA AloneInside ==
    ASSUME ThreadsOK, pc[Server] \in Section
    PROVE  /\ pc[Syncer] \notin Section /\ ebpf_sync_mutex = Server
  BY ThreadNames DEF ThreadsOK, Section, Server, Syncer, Threads, Destroyed

LEMMA JobFacts ==
    ASSUME ServerInv, pc[Server] \in Counting \cup {"reply"}, cpc[cur] = "wait", job.op \in Asking
    PROVE  /\ cur \in Clients /\ job = Request(cur) /\ Asks(cur)
           /\ seen[cur] \subseteq KernelStates /\ kernel \in seen[cur]
           /\ job.op = "GET_PROC_STATS" => job.arg \in Pids
<1>1. cur \in Clients /\ pc[Server] \in Serving
  BY DEF ServerInv, LinksOK, Serving
<1>2. job \in Job /\ job = Request(cur)
  BY <1>1 DEF ServerInv, JobOK
<1>3. Asks(cur) /\ ClientOK(cur)
  BY <1>1, <1>2 DEF Asks, Asking, ServerInv, ClientsOK
<1>4. seen[cur] # {}
  BY <1>3 DEF ClientOK
<1>5. QED
  BY <1>1, <1>2, <1>3, <1>4 DEF ServerInv, KernelOK, Active, Job

(* The server's own synchronisation brings it the counts of the kernel. *)
LEMMA SyncGlobals ==
    ASSUME ThreadsOK, mapped, NEW K, kernel \in K, FreshGlobal(K), SyncStep(Server)
    PROVE  FreshGlobal(K)'
<1>a. /\ frame \in [Threads -> Frame] /\ pc \in [Threads -> ServerLabels \cup SyncerLabels]
      /\ Server \in Threads /\ UNCHANGED answer
  BY ThreadNames DEF ThreadsOK, SyncStep, serveVars
<1>1. CASE SyncLock(Server) \/ SyncLookup(Server) \/ SyncNode(Server)
  <2>1. pc'[Server] \in {"walk", "node"}
    BY <1>a, <1>1 DEF SyncLock, SyncLookup, SyncNode, Goto
  <2>2. QED
    BY <2>1 DEF FreshGlobal
<1>2. CASE SyncGlobal(Server)
  <2>1. pc'[Server] = "qp" /\ frame'[Server].usage = kernel.global
    BY <1>a, <1>2 DEF SyncGlobal, Goto, Frame
  <2>2. kernel.global \in Globals(K)
    BY DEF Globals
  <2>3. QED
    BY <2>1, <2>2 DEF FreshGlobal
<1>3. CASE SyncQp(Server)
  <2>1. pc'[Server] = "mr" /\ UNCHANGED frame /\ global_qp_count' = frame[Server].usage.qp /\ pc[Server] = "qp"
    BY <1>a, <1>3 DEF SyncQp, Goto
  <2>2. frame[Server].usage \in Globals(K)
    BY <2>1 DEF FreshGlobal
  <2>3. frame[Server].usage.qp \in Qps(K)
    BY <2>2 DEF Globals, Qps
  <2>4. QED
    BY <2>1, <2>2, <2>3 DEF FreshGlobal
<1>4. CASE SyncMemory(Server)
  <2>1. /\ pc'[Server] = "unlock" /\ pc[Server] = "mr" /\ UNCHANGED global_qp_count
        /\ global_mr_count' = frame[Server].usage.mr /\ global_memory_used' = frame[Server].usage.used
    BY <1>a, <1>4 DEF SyncMemory, Goto
  <2>2. frame[Server].usage \in Globals(K) /\ global_qp_count \in Qps(K)
    BY <2>1 DEF FreshGlobal
  <2>3. <<frame[Server].usage.mr, frame[Server].usage.used>> \in Memories(K)
    BY <2>2 DEF Globals, Memories
  <2>4. QED
    BY <2>1, <2>2, <2>3 DEF FreshGlobal
<1>5. CASE SyncUnlock(Server)
  <2>1. pc'[Server] = "count" /\ pc[Server] = "unlock" /\ pc'[Syncer] = pc[Syncer]
        /\ UNCHANGED <<global_qp_count, global_mr_count, global_memory_used>>
    BY <1>a, <1>5, ThreadNames DEF SyncUnlock, Goto, countVars
  <2>2. pc[Syncer] \notin {"qp", "mr"}
    BY <2>1, AloneInside DEF Section
  <2>3. QED
    BY <2>1, <2>2 DEF FreshGlobal
<1>6. QED
  BY <1>1, <1>2, <1>3, <1>4, <1>5 DEF SyncStep

(* It also brings the record of a process that is in the map throughout. *)
LEMMA SyncRecords ==
    ASSUME ThreadsOK, CountsOK, mapped, NEW K, kernel \in K, NEW p \in Pids, FreshProcess(K, p), SyncStep(Server)
    PROVE  FreshProcess(K, p)'
<1> SUFFICES ASSUME None \notin Known(K, p) PROVE FreshProcess(K, p)'
  BY DEF FreshProcess, Known
<1>a. /\ frame \in [Threads -> Frame] /\ pc \in [Threads -> ServerLabels \cup SyncerLabels]
      /\ Server \in Threads /\ UNCHANGED answer /\ p \in Present /\ kernel.proc[p] \in Known(K, p)
  BY ThreadNames DEF ThreadsOK, SyncStep, serveVars, Present, Known
<1>1. CASE SyncLock(Server)
  <2>1. pc'[Server] = "walk" /\ frame'[Server].due = Present
    BY <1>a, <1>1 DEF SyncLock, Goto, Frame
  <2>2. QED
    BY <1>a, <2>1 DEF FreshProcess
<1>2. CASE SyncLookup(Server)
  <2>1. PICK q \in frame[Server].due :
          /\ frame' = [frame EXCEPT ![Server] =
                [due |-> frame[Server].due \ {q}, pid |-> IF q \in Present THEN q ELSE None,
                 usage |-> IF q \in Present THEN kernel.proc[q] ELSE Zero]]
          /\ pc' = [pc EXCEPT ![Server] = IF q \in Present THEN "node" ELSE "walk"]
    BY <1>2, <1>a DEF SyncLookup, Goto
  <2>2. /\ frame'[Server].due = frame[Server].due \ {q}
        /\ q \in Present => frame'[Server].pid = q /\ frame'[Server].usage = kernel.proc[q]
        /\ pc'[Server] = IF q \in Present THEN "node" ELSE "walk"
    BY <2>1, <1>a
  <2>3. p \in frame[Server].due \/ process_resources[p] \in Known(K, p)
    BY <1>2 DEF FreshProcess, SyncLookup
  <2>4. UNCHANGED process_resources
    BY <1>2 DEF SyncLookup
  <2>5. CASE q = p
    BY <2>2, <2>5, <1>a DEF FreshProcess
  <2>6. CASE q # p
    BY <2>2, <2>3, <2>4, <2>6 DEF FreshProcess
  <2>7. QED
    BY <2>5, <2>6
<1>3. CASE SyncNode(Server)
  <2>1. /\ pc[Server] = "node" /\ pc'[Server] = "walk" /\ frame'[Server].due = frame[Server].due
        /\ process_resources' = [process_resources EXCEPT ![frame[Server].pid] = frame[Server].usage]
    BY <1>a, <1>3 DEF SyncNode, Goto, Frame
  <2>2. IF frame[Server].pid = p THEN frame[Server].usage \in Known(K, p)
        ELSE p \in frame[Server].due \/ process_resources[p] \in Known(K, p)
    BY <2>1 DEF FreshProcess
  <2>3. process_resources'[p] = IF frame[Server].pid = p THEN frame[Server].usage ELSE process_resources[p]
    BY <2>1 DEF CountsOK
  <2>4. QED
    BY <2>1, <2>2, <2>3 DEF FreshProcess
<1>4. CASE SyncGlobal(Server)
  <2>1. pc[Server] = "walk" /\ frame[Server].due = {} /\ pc'[Server] = "qp" /\ UNCHANGED process_resources
    BY <1>a, <1>4 DEF SyncGlobal, Goto
  <2>2. QED
    BY <2>1 DEF FreshProcess
<1>5. CASE SyncQp(Server) \/ SyncMemory(Server)
  <2>1. pc[Server] \in {"qp", "mr"} /\ pc'[Server] \in {"mr", "unlock"} /\ UNCHANGED process_resources
    BY <1>a, <1>5 DEF SyncQp, SyncMemory, Goto
  <2>2. QED
    BY <2>1 DEF FreshProcess
<1>6. CASE SyncUnlock(Server)
  <2>1. pc'[Server] = "count" /\ pc[Server] = "unlock" /\ pc'[Syncer] = pc[Syncer] /\ UNCHANGED process_resources
    BY <1>a, <1>6, ThreadNames DEF SyncUnlock, Goto
  <2>2. pc[Syncer] # "node"
    BY <2>1, AloneInside DEF Section
  <2>3. QED
    BY <2>1, <2>2 DEF FreshProcess
<1>7. QED
  BY <1>1, <1>2, <1>3, <1>4, <1>5, <1>6 DEF SyncStep

(* The other thread leaves the server's counts of the kernel fresh: it is    *)
(* outside while the server is inside, and later looks up what is there now. *)
LEMMA SyncerOutside ==
    ASSUME ThreadsOK, CountsOK, KernelOK, SyncStep(Syncer)
    PROVE  /\ pc[Server] \notin Section
           /\ pc'[Server] = pc[Server] /\ frame'[Server] = frame[Server] /\ UNCHANGED answer
<1>1. ASSUME pc[Server] \in Section PROVE FALSE
  <2>1. pc[Syncer] \notin Section /\ ebpf_sync_mutex = Server
    BY <1>1, AloneInside
  <2>2. SyncLock(Syncer)
    BY <2>1 DEF SyncStep, SyncLookup, SyncNode, SyncGlobal, SyncQp, SyncMemory, SyncUnlock, Section
  <2>3. QED
    BY <2>1, <2>2 DEF SyncLock, Free, Destroyed, Server
<1>2. pc'[Server] = pc[Server] /\ frame'[Server] = frame[Server]
  BY SyncThreads, ThreadNames
<1>3. QED
  BY <1>1, <1>2 DEF SyncStep, serveVars

LEMMA SyncerGlobals ==
    ASSUME ThreadsOK, CountsOK, KernelOK, NEW K, kernel \in K, FreshGlobal(K), SyncStep(Syncer)
    PROVE  FreshGlobal(K)'
<1>a. /\ pc[Server] \notin Section
      /\ pc'[Server] = pc[Server] /\ frame'[Server] = frame[Server] /\ UNCHANGED answer
  BY SyncerOutside
<1>b. /\ frame \in [Threads -> Frame] /\ pc \in [Threads -> ServerLabels \cup SyncerLabels]
      /\ Syncer \in Threads /\ UNCHANGED job
  BY ThreadNames DEF ThreadsOK, SyncStep, serveVars
<1>1. CASE pc[Server] \notin {"count", "memory"}
  BY <1>a, <1>b, <1>1 DEF FreshGlobal, Section
<1>2. CASE pc[Server] \in {"count", "memory"}
  <2>a. /\ global_qp_count \in Qps(K) /\ <<global_mr_count, global_memory_used>> \in Memories(K)
        /\ pc[Syncer] \in {"qp", "mr"} => frame[Syncer].usage \in Globals(K)
        /\ pc[Server] = "memory" => answer.usage.qp \in Qps(K)
    BY <1>2 DEF FreshGlobal
  <2>b. ASSUME /\ global_qp_count' \in Qps(K)
               /\ <<global_mr_count', global_memory_used'>> \in Memories(K)
               /\ pc'[Syncer] \in {"qp", "mr"} => frame'[Syncer].usage \in Globals(K)
        PROVE  FreshGlobal(K)'
    BY <2>a, <2>b, <1>a, <1>2 DEF FreshGlobal
  <2>1. CASE SyncLock(Syncer) \/ SyncLookup(Syncer) \/ SyncNode(Syncer) \/ SyncUnlock(Syncer)
    <3>1. pc'[Syncer] \notin {"qp", "mr"}
      BY <1>b, <2>1, ThreadNames DEF SyncLock, SyncLookup, SyncNode, SyncUnlock, Goto
    <3>2. UNCHANGED <<global_qp_count, global_mr_count, global_memory_used>>
      BY <2>1 DEF SyncLock, SyncLookup, SyncNode, SyncUnlock, countVars
    <3>3. QED
      BY <3>1, <3>2, <2>a, <2>b
  <2>2. CASE SyncGlobal(Syncer)
    <3>1. frame'[Syncer].usage = kernel.global
          /\ UNCHANGED <<global_qp_count, global_mr_count, global_memory_used>>
      BY <1>b, <2>2 DEF SyncGlobal, Frame, countVars
    <3>2. kernel.global \in Globals(K)
      BY DEF Globals
    <3>3. QED
      BY <3>1, <3>2, <2>a, <2>b
  <2>3. CASE SyncQp(Syncer)
    <3>1. /\ pc[Syncer] = "qp" /\ UNCHANGED <<frame, global_mr_count, global_memory_used>>
          /\ global_qp_count' = frame[Syncer].usage.qp
      BY <2>3 DEF SyncQp
    <3>2. frame[Syncer].usage.qp \in Qps(K)
      BY <2>a, <3>1 DEF Globals, Qps
    <3>3. QED
      BY <3>1, <3>2, <2>a, <2>b
  <2>4. CASE SyncMemory(Syncer)
    <3>1. /\ pc[Syncer] = "mr" /\ pc'[Syncer] = "unlock" /\ UNCHANGED global_qp_count
          /\ global_mr_count' = frame[Syncer].usage.mr /\ global_memory_used' = frame[Syncer].usage.used
      BY <1>b, <2>4 DEF SyncMemory, Goto
    <3>2. <<frame[Syncer].usage.mr, frame[Syncer].usage.used>> \in Memories(K)
      BY <2>a, <3>1 DEF Globals, Memories
    <3>3. QED
      BY <3>1, <3>2, <2>a, <2>b
  <2>5. QED
    BY <2>1, <2>2, <2>3, <2>4 DEF SyncStep
<1>3. QED
  BY <1>1, <1>2

LEMMA SyncerRecords ==
    ASSUME ThreadsOK, CountsOK, KernelOK, NEW K, kernel \in K, NEW p \in Pids, FreshProcess(K, p),
           SyncStep(Syncer)
    PROVE  FreshProcess(K, p)'
<1> SUFFICES ASSUME None \notin Known(K, p) PROVE FreshProcess(K, p)'
  BY DEF FreshProcess, Known
<1>a. /\ pc[Server] \notin Section
      /\ pc'[Server] = pc[Server] /\ frame'[Server] = frame[Server] /\ UNCHANGED answer
  BY SyncerOutside
<1>b. /\ frame \in [Threads -> Frame] /\ pc \in [Threads -> ServerLabels \cup SyncerLabels]
      /\ Syncer \in Threads /\ p \in Present /\ kernel.proc[p] \in Known(K, p)
  BY ThreadNames DEF ThreadsOK, Present, Known
<1>1. CASE pc[Server] # "count"
  BY <1>a, <1>1 DEF FreshProcess, Section
<1>2. CASE pc[Server] = "count"
  <2>a. /\ process_resources[p] \in Known(K, p)
        /\ pc[Syncer] = "node" /\ frame[Syncer].pid = p => frame[Syncer].usage \in Known(K, p)
    BY <1>2 DEF FreshProcess
  <2>b. ASSUME /\ process_resources'[p] \in Known(K, p)
               /\ pc'[Syncer] = "node" /\ frame'[Syncer].pid = p => frame'[Syncer].usage \in Known(K, p)
        PROVE  FreshProcess(K, p)'
    BY <2>b, <1>a, <1>2 DEF FreshProcess
  <2>1. CASE SyncLookup(Syncer)
    <3>1. PICK q \in frame[Syncer].due :
            frame' = [frame EXCEPT ![Syncer] =
                [due |-> frame[Syncer].due \ {q}, pid |-> IF q \in Present THEN q ELSE None,
                 usage |-> IF q \in Present THEN kernel.proc[q] ELSE Zero]]
            /\ pc' = [pc EXCEPT ![Syncer] = IF q \in Present THEN "node" ELSE "walk"]
      BY <2>1, <1>b DEF SyncLookup, Goto
    <3>2. pc'[Syncer] = "node" => q \in Present /\ frame'[Syncer].pid = q /\ frame'[Syncer].usage = kernel.proc[q]
      BY <3>1, <1>b
    <3>3. UNCHANGED process_resources
      BY <2>1 DEF SyncLookup
    <3>4. QED
      BY <3>2, <3>3, <2>a, <2>b, <1>b
  <2>2. CASE SyncNode(Syncer)
    <3>1. /\ pc[Syncer] = "node" /\ pc'[Syncer] = "walk"
          /\ process_resources' = [process_resources EXCEPT ![frame[Syncer].pid] = frame[Syncer].usage]
      BY <2>2, <1>b DEF SyncNode, Goto
    <3>2. process_resources'[p] = IF frame[Syncer].pid = p THEN frame[Syncer].usage ELSE process_resources[p]
      BY <3>1 DEF CountsOK
    <3>3. QED
      BY <3>1, <3>2, <2>a, <2>b
  <2>3. CASE SyncLock(Syncer) \/ SyncGlobal(Syncer) \/ SyncQp(Syncer) \/ SyncMemory(Syncer)
             \/ SyncUnlock(Syncer)
    <3>1. pc'[Syncer] # "node"
      BY <1>b, <2>3, ThreadNames DEF SyncLock, SyncGlobal, SyncQp, SyncMemory, SyncUnlock, Goto
    <3>2. UNCHANGED process_resources
      BY <2>3 DEF SyncLock, SyncGlobal, SyncQp, SyncMemory, SyncUnlock
    <3>3. QED
      BY <3>1, <3>2, <2>a, <2>b
  <2>4. QED
    BY <2>1, <2>2, <2>3 DEF SyncStep
<1>3. QED
  BY <1>1, <1>2

LEMMA SyncFresh ==
    ASSUME FreshInv, NEW t \in Threads, SyncStep(t)
    PROVE  FreshInv'
<1>1. ServerInv' /\ ServerInv
  BY SyncInv DEF FreshInv
<1>2. UNCHANGED <<mapped, kernel, seen, cur, job, answer, rsp, cpc, call, clientVars>>
  BY DEF SyncStep, serveVars, linkVars, clientVars, kernelVars
<1>3. (FreshStats /\ FirstFigure /\ VerdictOfOneMoment)'
  <2>1. \A c \in Clients : ReportsOf(c)
    BY Reports DEF FreshInv
  <2>2. \A c \in Clients : ReportsOf(c)'
    BY <1>2, <2>1, QuietReports
  <2>3. QED
    BY <2>2, NextReports
<1>4. FreshJob'
  <2> SUFFICES ASSUME mapped', pc'[Server] \in Counting \cup {"reply"}, cpc'[cur'] = "wait",
                      job'.op \in Asking
               PROVE  (/\ FreshGlobal(seen[cur])
                       /\ job.op = "GET_PROC_STATS" => FreshProcess(seen[cur], job.arg))'
    BY DEF FreshJob
  <2>1. mapped /\ pc[Server] \in Counting \cup {"reply"} /\ cpc[cur] = "wait" /\ job.op \in Asking
    <3>1. pc[t] \in Section \cup {"lock"} /\ \A s \in Threads \ {t} : pc'[s] = pc[s]
      BY <1>1, SyncThreads DEF ServerInv
    <3>2. QED
      BY <1>2, <3>1, ThreadNames DEF Counting
  <2>2. /\ kernel \in seen[cur] /\ FreshGlobal(seen[cur])
        /\ job.op = "GET_PROC_STATS" => job.arg \in Pids /\ FreshProcess(seen[cur], job.arg)
    BY <1>1, <2>1, JobFacts DEF FreshInv, FreshJob
  <2>3. PICK K : K = seen[cur] /\ seen'[cur'] = K
    BY <1>2
  <2>4. PICK p : p = job.arg /\ job'.arg = p
    BY <1>2
  <2>5. FreshGlobal(K)'
    BY <1>1, <2>1, <2>2, <2>3, SyncGlobals, SyncerGlobals, ThreadNames DEF ServerInv
  <2>6. job.op = "GET_PROC_STATS" => FreshProcess(K, p)'
    BY <1>1, <2>1, <2>2, <2>3, <2>4, SyncRecords, SyncerRecords, ThreadNames DEF ServerInv
  <2>7. QED
    BY <1>2, <2>3, <2>4, <2>5, <2>6 DEF FreshGlobal, FreshProcess
<1>5. QED
  BY <1>1, <1>3, <1>4 DEF FreshInv

-----------------------------------------------------------------------------
(* Steps that only move a thread: the server not to or from a connection,   *)
(* the synchroniser not into sync_ebpf_data.                                *)
LEMMA QuietStep ==
    ASSUME FreshInv, ThreadsOK',
           UNCHANGED <<frame, countVars, process_resources, serveVars, linkVars, clientVars, kernelVars, seen>>,
           \/ /\ pc'[Server] = pc[Server]
              /\ pc'[Syncer] = pc[Syncer] \/ pc'[Syncer] \notin Section
           \/ pc[Server] \notin Serving \cup {"read"} /\ pc'[Server] \notin Serving \cup {"read"}
    PROVE  FreshInv'
<1>1. UNCHANGED <<frame, global_qp_count, global_mr_count, global_memory_used, process_resources, cur, job,
                  answer, backlog, link, req, rsp, cpc, call, mapped, kernel, seen, clientVars>>
  BY DEF countVars, serveVars, linkVars, clientVars, kernelVars
<1>2. CountsOK'
  BY <1>1 DEF FreshInv, ServerInv, CountsOK
<1>3. KernelOK' /\ ClientsOK'
  BY <1>1, QuietKernel, QuietClients DEF FreshInv, ServerInv
<1>4. LinksOK'
  BY <1>1, QuietLinks DEF FreshInv, ServerInv
<1>5. JobOK'
  <2>1. JobOK
    BY DEF FreshInv, ServerInv
  <2>2. CASE pc'[Server] = pc[Server]
    BY <1>1, <2>1, <2>2, QuietJob
  <2>3. CASE pc[Server] \notin Serving /\ pc'[Server] \notin Serving
    BY <1>1, <2>1, <2>3 DEF JobOK
  <2>4. QED
    BY <2>2, <2>3
<1>6. FreshJob'
  <2>1. CASE pc'[Server] \notin Serving
    BY <2>1 DEF FreshJob, Serving
  <2>2. CASE pc'[Server] = pc[Server] /\ (pc'[Syncer] = pc[Syncer] \/ pc'[Syncer] \notin Section)
    <3>1. ASSUME NEW K, FreshGlobal(K) PROVE FreshGlobal(K)'
      BY <1>1, <2>2, <3>1 DEF FreshGlobal, Section
    <3>2. ASSUME NEW K, NEW p, FreshProcess(K, p) PROVE FreshProcess(K, p)'
      BY <1>1, <2>2, <3>2 DEF FreshProcess, Section
    <3>3. PICK K : K = seen[cur] /\ K = (seen[cur])'
      BY <1>1
    <3>4. PICK p : p = job.arg /\ p = (job.arg)'
      BY <1>1
    <3>5. FreshJob
      BY DEF FreshInv
    <3>6. CASE mapped /\ pc[Server] \in Counting \cup {"reply"} /\ cpc[cur] = "wait" /\ job.op \in Asking
      <4>1. FreshGlobal(K) /\ (job.op = "GET_PROC_STATS" => FreshProcess(K, p))
        BY <3>3, <3>4, <3>5, <3>6 DEF FreshJob
      <4>2. FreshGlobal(K)' /\ (job.op = "GET_PROC_STATS" => FreshProcess(K, p)')
        BY <4>1, <3>1, <3>2
      <4>3. FreshGlobal(seen[cur])'
        BY <4>2, <3>3 DEF FreshGlobal
      <4>4. (job.op = "GET_PROC_STATS" => FreshProcess(seen[cur], job.arg))'
        BY <4>2, <3>3, <3>4, <1>1 DEF FreshProcess
      <4>5. QED
        BY <4>3, <4>4 DEF FreshJob
    <3>7. CASE ~(mapped /\ pc[Server] \in Counting \cup {"reply"} /\ cpc[cur] = "wait" /\ job.op \in Asking)
      BY <1>1, <2>2, <3>7 DEF FreshJob
    <3>8. QED
      BY <3>6, <3>7
  <2>3. QED
    BY <2>1, <2>2 
<1>7. \A c \in Clients : ReportsOf(c)'
  BY <1>1, Reports, QuietReports DEF FreshInv
<1>8. QED
  BY <1>2, <1>3, <1>4, <1>5, <1>6, <1>7, NextReports DEF FreshInv, ServerInv

LEMMA IdleSteps ==
    ASSUME FreshInv, SyncThread \/ Listen \/ Loop \/ signal_handler \/ Join
    PROVE  FreshInv'
<1>a. ThreadsOK /\ \A t \in Threads : frame = [frame EXCEPT ![t] = frame[t]] /\ frame[t] \in Frame
  BY DEF FreshInv, ServerInv, ThreadsOK
<1>b. /\ \A s \in Threads : pc[s] \in Section => ebpf_sync_mutex \in {s, Destroyed}
      /\ ebpf_sync_mutex = Destroyed => pc[Server] = "join"
      /\ pc \in [Threads -> ServerLabels \cup SyncerLabels]
      /\ pc[Server] \in ServerLabels /\ pc[Syncer] \in SyncerLabels
      /\ frame \in [Threads -> Frame]
      /\ \A t \in Threads : pc[t] = "node" => frame[t].pid \in Pids
  BY <1>a DEF ThreadsOK
<1>1. CASE SyncThread
  <2>1. /\ pc' = [pc EXCEPT ![Syncer] = IF running THEN "lock" ELSE "done"]
        /\ UNCHANGED <<ebpf_sync_mutex, frame, countVars, process_resources, serveVars, linkVars,
                       clientVars, kernelVars, seen>>
    BY <1>1 DEF SyncThread, Goto
  <2>2. pc'[Server] = pc[Server] /\ pc'[Syncer] \in {"lock", "done"}
    BY <1>b, <2>1, ThreadNames
  <2>3. ThreadsOK'
    BY <1>b, <2>1, <2>2, ThreadNames DEF ThreadsOK, Section, SyncerLabels
  <2>4. QED
    BY <2>1, <2>2, <2>3, QuietStep DEF Section
<1>2. CASE Listen \/ Loop \/ signal_handler
  <2>1. /\ UNCHANGED <<ebpf_sync_mutex, frame, countVars, process_resources, serveVars, linkVars,
                       clientVars, kernelVars, seen>>
        /\ \/ UNCHANGED pc
           \/ /\ \E l \in {"loop", "cleanup", "select"} : pc' = [pc EXCEPT ![Server] = l]
              /\ pc[Server] \in {"listen", "loop", "select"}
    BY <1>2 DEF Listen, Loop, signal_handler, Goto
  <2>2. CASE UNCHANGED pc
    <3>1. ThreadsOK'
      BY <1>b, <2>1, <2>2 DEF ThreadsOK
    <3>2. QED
      BY <2>1, <2>2, <3>1, QuietStep
  <2>3. CASE (\E l \in {"loop", "cleanup", "select"} : pc' = [pc EXCEPT ![Server] = l])
             /\ pc[Server] \in {"listen", "loop", "select"}
    <3>1. pc'[Server] \in {"loop", "cleanup", "select"} /\ pc'[Syncer] = pc[Syncer]
          /\ pc' \in [Threads -> ServerLabels \cup SyncerLabels]
      BY <1>b, <2>3, ThreadNames DEF ServerLabels
    <3>2. ThreadsOK'
      BY <1>b, <2>1, <2>3, <3>1, ThreadNames DEF ThreadsOK, Section, ServerLabels
    <3>3. QED
      BY <2>1, <2>3, <3>1, <3>2, QuietStep DEF Serving, Counting, Section
  <2>4. QED
    BY <2>1, <2>2, <2>3
<1>3. CASE Join
  <2>1. /\ pc' = [pc EXCEPT ![Server] = "down"] /\ pc[Server] = "join" /\ pc[Syncer] = "done"
        /\ ebpf_sync_mutex' = Free
        /\ UNCHANGED <<frame, countVars, process_resources, serveVars, linkVars,
                       clientVars, kernelVars, seen>>
    BY <1>3 DEF Join, Goto
  <2>2. pc'[Server] = "down" /\ pc'[Syncer] = pc[Syncer]
        /\ pc' \in [Threads -> ServerLabels \cup SyncerLabels]
    BY <1>b, <2>1, ThreadNames DEF ServerLabels
  <2>3. ThreadsOK'
    BY <1>b, <2>1, <2>2, ThreadNames DEF ThreadsOK, Section, ServerLabels, Free, Destroyed
  <2>4. QED
    BY <2>1, <2>2, <2>3, QuietStep DEF Serving, Counting, Section
<1>4. QED
  BY <1>1, <1>2, <1>3

-----------------------------------------------------------------------------
(* The server moves on, outside sync_ebpf_data. *)
LEMMA MoveServer ==
    ASSUME ThreadsOK, UNCHANGED <<ebpf_sync_mutex, frame>>, pc[Server] # "join",
           NEW l \in ServerLabels \ Section, pc' = [pc EXCEPT ![Server] = l]
    PROVE  ThreadsOK' /\ pc'[Server] = l /\ pc'[Syncer] = pc[Syncer]
<1>1. /\ pc'[Server] = l /\ pc'[Syncer] = pc[Syncer]
      /\ pc' \in [Threads -> ServerLabels \cup SyncerLabels]
  BY ThreadNames DEF ThreadsOK
<1>2. QED
  BY <1>1, ThreadNames DEF ThreadsOK, Section

(* Accept: the head of the queue becomes the connection that is served. *)
LEMMA AcceptStep ==
    ASSUME FreshInv, Accept
    PROVE  FreshInv'
<1>a. /\ ThreadsOK /\ CountsOK /\ KernelOK /\ LinksOK /\ ClientsOK /\ JobOK
  BY DEF FreshInv, ServerInv
<1>b. /\ pc[Server] = "select" /\ backlog # <<>> /\ cur' = Head(backlog) /\ backlog' = Tail(backlog)
      /\ link' = [link EXCEPT ![Head(backlog)] = "open"] /\ pc' = [pc EXCEPT ![Server] = "read"]
      /\ UNCHANGED <<ebpf_sync_mutex, frame, global_qp_count, global_mr_count, global_memory_used,
                     process_resources, job, answer, req, rsp, mapped, kernelVars, seen, clientVars,
                     cpc, call, cached, qps, mrs, verdict>>
  BY DEF Accept, Goto, countVars, clientVars, kernelVars
<1>1. ThreadsOK' /\ pc'[Server] = "read"
  BY <1>a, <1>b, MoveServer DEF ServerLabels, Section
<1>2. CountsOK' /\ KernelOK'
  BY <1>a, <1>b, QuietKernel DEF CountsOK
<1>3. LinksOK'
  <2>1. /\ backlog \in Seq(Clients) /\ Len(backlog) \in Nat /\ Len(backlog) > 0
        /\ \A i, j \in DOMAIN backlog : i # j => backlog[i] # backlog[j]
        /\ DOMAIN backlog = 1 .. Len(backlog)
    BY <1>a, <1>b DEF LinksOK
  <2>2. /\ Head(backlog) = backlog[1] /\ Head(backlog) \in Clients
        /\ Tail(backlog) \in Seq(Clients) /\ DOMAIN Tail(backlog) = 1 .. Len(backlog) - 1
        /\ \A i \in 1 .. Len(backlog) - 1 : Tail(backlog)[i] = backlog[i + 1]
    BY <2>1
  <2>3. \A i, j \in DOMAIN backlog' : i # j => backlog'[i] # backlog'[j]
    BY <1>b, <2>1, <2>2
  <2>4. ASSUME NEW c \in Clients
        PROVE  (\E i \in DOMAIN backlog' : backlog'[i] = c)
                  <=> (\E i \in DOMAIN backlog : backlog[i] = c) /\ c # Head(backlog)
    <3>1. ASSUME NEW i \in DOMAIN backlog'
          PROVE  /\ i + 1 \in DOMAIN backlog /\ backlog'[i] = backlog[i + 1]
                 /\ backlog[i + 1] # backlog[1]
      BY <1>b, <2>1, <2>2
    <3>2. ASSUME NEW i \in DOMAIN backlog, backlog[i] # backlog[1]
          PROVE  i - 1 \in DOMAIN backlog' /\ backlog'[i - 1] = backlog[i]
      BY <3>2, <1>b, <2>1, <2>2
    <3>3. QED
      BY <3>1, <3>2, <2>2
  <2>5. link' \in [Clients -> {"none", "queued", "open", "eof", "reset"}]
        /\ \A c \in Clients : link'[c] = IF c = Head(backlog) THEN "open" ELSE link[c]
    BY <1>a, <1>b, <2>2 DEF LinksOK
  <2>6. \A c \in Clients : link[c] # "open"
    BY <1>a, <1>b DEF LinksOK, Serving, Counting, Section
  <2>7. \A c \in Clients : link'[c] = "queued" <=> \E i \in DOMAIN backlog' : backlog'[i] = c
    BY <1>a, <2>4, <2>5 DEF LinksOK
  <2>8. QED
    BY <1>1, <1>b, <2>2, <2>3, <2>5, <2>6, <2>7 DEF LinksOK, Serving
<1>4. ClientsOK'
  <2>1. /\ Head(backlog) \in Clients /\ link[Head(backlog)] = "queued"
        /\ \A c \in Clients : link'[c] = IF c = Head(backlog) THEN "open" ELSE link[c]
    BY <1>a, <1>b DEF LinksOK
  <2>2. ASSUME NEW d \in Clients PROVE ClientOK(d)'
    <3>1. CASE d # Head(backlog)
      BY <1>a, <1>b, <2>1, <3>1, QuietClient DEF ClientsOK
    <3>2. CASE d = Head(backlog)
      <4>1. ClientOK(d) /\ link[d] = "queued"
        BY <1>a, <2>1, <3>2 DEF ClientsOK
      <4>2. QED
        BY <1>b, <2>1, <3>2, <4>1 DEF ClientOK, Active, Asks, Request
    <3>3. QED
      BY <3>1, <3>2
  <2>3. QED
    BY <1>a, <1>b, <2>2 DEF ClientsOK
<1>5. JobOK' /\ FreshJob'
  BY <1>a, <1>b, <1>1 DEF JobOK, FreshJob, Serving, Counting, Section
<1>6. \A c \in Clients : ReportsOf(c)'
  BY <1>b, Reports, QuietReports DEF FreshInv
<1>7. QED
  BY <1>1, <1>2, <1>3, <1>4, <1>5, <1>6, NextReports DEF FreshInv, ServerInv

(* Read: the request becomes the job, or the client has gone. *)
LEMMA ReadStep ==
    ASSUME FreshInv, Read
    PROVE  FreshInv'
<1>a. /\ ThreadsOK /\ CountsOK /\ KernelOK /\ LinksOK /\ ClientsOK /\ JobOK
  BY DEF FreshInv, ServerInv
<1>b. /\ pc[Server] = "read"
      /\ UNCHANGED <<ebpf_sync_mutex, frame, global_qp_count, global_mr_count, global_memory_used,
                     process_resources, answer, backlog, rsp, mapped, kernelVars, seen, clientVars,
                     cpc, call, cached, qps, mrs, verdict>>
  BY DEF Read, countVars, clientVars, kernelVars
<1>c. cur \in Clients /\ ClientOK(cur)
  BY <1>a, <1>b DEF LinksOK, ClientsOK
<1>1. CountsOK' /\ KernelOK'
  BY <1>a, <1>b, QuietKernel DEF CountsOK
<1>2. \A c \in Clients : ReportsOf(c)'
  BY <1>b, Reports, QuietReports DEF FreshInv
<1>3. CASE /\ req[cur] # None /\ job' = req[cur] /\ req' = [req EXCEPT ![cur] = None]
           /\ pc' = [pc EXCEPT ![Server] = IF req[cur].op \in Asking THEN "lock" ELSE "serve"]
           /\ UNCHANGED <<cur, link>>
  <2>1. ThreadsOK' /\ pc'[Server] = IF req[cur].op \in Asking THEN "lock" ELSE "serve"
    BY <1>a, <1>b, <1>3, MoveServer DEF ServerLabels, Section, Serving, Counting
  <2>2. LinksOK'
    BY <1>a, <1>b, <1>3, <2>1, QuietLinks DEF Serving, Counting
  <2>3. /\ req[cur] \in Job
        /\ cpc[cur] = "dead" \/ (cpc[cur] = "wait" /\ req[cur] = Request(cur))
    BY <1>3, <1>c DEF ClientOK
  <2>4. JobOK'
    BY <1>b, <1>3, <2>1, <2>3 DEF JobOK, Serving, Counting, Section, Request
  <2>5. FreshJob'
    <3>1. FreshGlobal(seen[cur])' /\ (pc'[Server] = "lock" => FreshProcess(seen[cur], job.arg)')
      BY <2>1 DEF FreshGlobal, FreshProcess
    <3>2. QED
      BY <2>1, <3>1 DEF FreshJob, Counting, Section
  <2>6. ClientsOK'
    <3>1. ASSUME NEW d \in Clients PROVE ClientOK(d)'
      <4>1. CASE d # cur
        BY <1>a, <1>b, <1>3, <4>1, QuietClient DEF ClientsOK
      <4>2. CASE d = cur
        <5>1. req'[d] = None
          BY <1>a, <1>3, <4>2 DEF ClientsOK
        <5>2. QED
          BY <5>1, <1>b, <1>3, <1>c, <4>2 DEF ClientOK, Active, Asks, Request
      <4>3. QED
        BY <4>1, <4>2
    <3>2. QED
      BY <1>a, <1>b, <1>3, <3>1 DEF ClientsOK
  <2>7. QED
    BY <1>1, <1>2, <2>1, <2>2, <2>4, <2>5, <2>6, NextReports DEF FreshInv, ServerInv
<1>4. CASE /\ cpc[cur] = "dead" /\ cur' = None /\ link' = [link EXCEPT ![cur] = "none"]
           /\ pc' = [pc EXCEPT ![Server] = "loop"] /\ UNCHANGED <<job, req>>
  <2>1. ThreadsOK' /\ pc'[Server] = "loop"
    BY <1>a, <1>b, <1>4, MoveServer DEF ServerLabels, Section, Serving, Counting
  <2>2. link' \in [Clients -> {"none", "queued", "open", "eof", "reset"}]
        /\ \A c \in Clients : link'[c] = IF c = cur THEN "none" ELSE link[c]
    BY <1>a, <1>4 DEF LinksOK
  <2>3. link[cur] = "open" /\ \A c \in Clients \ {cur} : link[c] # "open"
    BY <1>a, <1>b, <1>c DEF LinksOK
  <2>4. LinksOK'
    BY <1>a, <1>b, <1>4, <2>1, <2>2, <2>3 DEF LinksOK, Serving, Counting, Section
  <2>5. JobOK' /\ FreshJob'
    BY <1>a, <1>b, <1>4, <2>1 DEF JobOK, FreshJob, Serving, Counting, Section
  <2>6. ClientsOK'
    <3>1. ASSUME NEW d \in Clients PROVE ClientOK(d)'
      <4>1. CASE d # cur
        BY <1>a, <1>b, <1>4, <2>2, <4>1, QuietClient DEF ClientsOK
      <4>2. CASE d = cur
        BY <1>b, <1>4, <1>c, <2>2, <4>2 DEF ClientOK, Active, Asks, Request
      <4>3. QED
        BY <4>1, <4>2
    <3>2. QED
      BY <1>a, <1>b, <1>4, <3>1 DEF ClientsOK
  <2>7. QED
    BY <1>1, <1>2, <2>1, <2>4, <2>5, <2>6, NextReports DEF FreshInv, ServerInv
<1>5. QED
  BY <1>3, <1>4 DEF Read, Goto, Asking

(* A step of the server that works on its job and leaves the rest alone. *)
LEMMA WorkStep ==
    ASSUME FreshInv, pc[Server] \in Serving, NEW l \in {"memory", "reply"},
           pc' = [pc EXCEPT ![Server] = l],
           UNCHANGED <<ebpf_sync_mutex, frame, process_resources, cur, job, linkVars, clientVars, kernelVars, seen>>,
           CountsOK', JobOK', FreshJob'
    PROVE  FreshInv'
<1>a. /\ ThreadsOK /\ KernelOK /\ LinksOK /\ ClientsOK
  BY DEF FreshInv, ServerInv
<1>b. UNCHANGED <<backlog, link, rsp, mapped, cpc>>
  BY DEF linkVars, kernelVars, clientVars
<1>1. ThreadsOK' /\ pc'[Server] = l
  BY <1>a, MoveServer DEF ServerLabels, Section, Serving, Counting
<1>2. KernelOK' /\ ClientsOK'
  BY <1>a, <1>b, QuietKernel, QuietClients
<1>3. LinksOK'
  BY <1>a, <1>b, <1>1, QuietLinks DEF Serving, Counting
<1>4. \A c \in Clients : ReportsOf(c)'
  BY <1>b, Reports, QuietReports DEF FreshInv
<1>5. QED
  BY <1>1, <1>2, <1>3, <1>4, NextReports DEF FreshInv, ServerInv

(* The counting requests: counts stay unsigned, and the answer has no figures. *)
LEMMA ServeStep ==
    ASSUME FreshInv, Serve
    PROVE  FreshInv'
<1>a. /\ ThreadsOK /\ CountsOK /\ LinksOK /\ JobOK
  BY DEF FreshInv, ServerInv
<1>b. /\ pc[Server] = "serve" /\ pc' = [pc EXCEPT ![Server] = "reply"]
      /\ QpCreate \/ QpDestroy \/ MrCreate \/ CheckMemory \/ MrDestroy
      /\ UNCHANGED <<ebpf_sync_mutex, frame, process_resources, cur, job, cpc, call,
                     linkVars, clientVars, kernelVars, seen>>
  BY DEF Serve, Goto, clientVars
<1>c. /\ pc[Server] \in Serving /\ job \in Job /\ job.op \notin Asking /\ pc'[Server] = "reply"
  BY <1>a, <1>b, ThreadNames DEF JobOK, Serving, ThreadsOK
<1>d. /\ global_qp_count \in Nat /\ global_mr_count \in Nat /\ global_memory_used \in Nat
      /\ Word \in Nat /\ Word > 0
      /\ job.op \in {"MR_CREATE", "MR_DESTROY", "CHECK_MEMORY"} => job.arg \in Nat
  BY <1>a, <1>c, Limits DEF CountsOK, Job
<1>1. global_qp_count' \in Nat /\ global_mr_count' \in Nat /\ global_memory_used' \in Nat
  <2>1. CASE QpCreate
    BY <1>d, <2>1 DEF QpCreate
  <2>2. CASE QpDestroy
    BY <1>d, <2>2 DEF QpDestroy
  <2>3. CASE MrCreate
    <3>1. job.arg \in Nat /\ (global_memory_used + job.arg) % Word \in Nat
      BY <1>d, <2>3 DEF MrCreate
    <3>2. QED
      BY <1>d, <2>3, <3>1 DEF MrCreate
  <2>4. CASE CheckMemory
    BY <1>d, <2>4 DEF CheckMemory, countVars
  <2>5. CASE MrDestroy
    <3>1. job.arg \in Nat
      BY <1>d, <2>5 DEF MrDestroy
    <3>2. QED
      BY <1>d, <2>5, <3>1 DEF MrDestroy
  <2>6. QED
    BY <1>b, <2>1, <2>2, <2>3, <2>4, <2>5
<1>2. \E text \in {"Success", "Error"} : answer' = Answer(text, Zero)
  BY <1>b DEF QpCreate, QpDestroy, MrCreate, CheckMemory, MrDestroy, Respond
<1>3. answer' \in Answers /\ answer'.text # "Stats"
  BY <1>2, ZeroUsage DEF Answer, Answers, Texts
<1>4. CountsOK'
  BY <1>a, <1>b, <1>1 DEF CountsOK
<1>5. JobOK'
  BY <1>a, <1>b, <1>c, <1>3 DEF JobOK, Serving, Counting, Section, Request
<1>6. FreshJob'
  BY <1>b, <1>c DEF FreshJob
<1>7. QED
  BY <1>b, <1>c, <1>4, <1>5, <1>6, WorkStep

(* Statistics: the figures are copied into the answer while they are fresh. *)
LEMMA StatisticsStep ==
    ASSUME FreshInv, Statistics
    PROVE  FreshInv'
<1>a. /\ ThreadsOK /\ CountsOK /\ LinksOK /\ JobOK /\ FreshJob
  BY DEF FreshInv, ServerInv
<1>b. UNCHANGED <<ebpf_sync_mutex, frame, process_resources, cur, job, cpc, call, mapped, global_qp_count,
                  global_mr_count, global_memory_used, linkVars, clientVars, kernelVars, seen>>
  BY DEF Statistics, clientVars, kernelVars, countVars
<1>c. pc[Server] \in {"count", "memory"} /\ pc[Server] \in Serving /\ pc[Server] \in Counting
  BY DEF Statistics, CountQp, CountMemory, get_process_resource_usage, Serving, Counting
<1>d. job \in Job /\ job.op \in Asking /\ (pc[Server] = "memory" => job.op = "GET_STATS" /\ answer \in Answers)
  BY <1>a, <1>c DEF JobOK
<1>e. CountsOK' /\ global_qp_count \in Nat /\ global_mr_count \in Nat /\ global_memory_used \in Nat
  BY <1>a, <1>b DEF CountsOK
<1>f. ASSUME NEW l \in {"memory", "reply"}, pc'[Server] = l, answer' \in Answers,
             l = "memory" => job.op = "GET_STATS"
      PROVE  JobOK'
  BY <1>a, <1>b, <1>c, <1>d, <1>f DEF JobOK, Serving, Counting, Section, Request
<1>g. mapped /\ cpc[cur] = "wait" =>
        /\ FreshGlobal(seen[cur])
        /\ job.op = "GET_PROC_STATS" => FreshProcess(seen[cur], job.arg)
  BY <1>a, <1>c, <1>d DEF FreshJob
<1>1. CASE CountQp
  <2>1. /\ pc[Server] = "count" /\ job.op = "GET_STATS" /\ pc' = [pc EXCEPT ![Server] = "memory"]
        /\ answer' = [text |-> "Stats", usage |-> [qp |-> global_qp_count, mr |-> 0, used |-> 0]]
    BY <1>1 DEF CountQp, Goto, Answer, Zero
  <2>2. pc'[Server] = "memory" /\ pc'[Syncer] = pc[Syncer] /\ answer' \in Answers /\ answer'.usage.qp = global_qp_count
    BY <1>a, <1>e, <2>1, ThreadNames DEF ThreadsOK, Answers, Texts, Usage
  <2>3. JobOK'
    BY <1>f, <2>1, <2>2
  <2>4. FreshJob'
    <3>1. mapped /\ cpc[cur] = "wait" => FreshGlobal(seen[cur])'
      BY <1>b, <1>g, <2>1, <2>2 DEF FreshGlobal
    <3>2. QED
      BY <1>b, <2>1, <3>1 DEF FreshJob
  <2>5. QED
    BY <1>b, <1>c, <1>e, <2>1, <2>3, <2>4, WorkStep
<1>2. CASE CountMemory
  <2>1. /\ pc[Server] = "memory" /\ job.op = "GET_STATS" /\ pc' = [pc EXCEPT ![Server] = "reply"]
        /\ answer' = [answer EXCEPT !.usage.mr = global_mr_count, !.usage.used = global_memory_used]
    BY <1>2, <1>d DEF CountMemory, Goto
  <2>2. /\ answer' \in Answers /\ answer'.usage.qp = answer.usage.qp
        /\ answer'.usage.mr = global_mr_count /\ answer'.usage.used = global_memory_used
    BY <1>d, <1>e, <2>1 DEF Answers, Usage
  <2>3. pc'[Server] = "reply"
    BY <1>a, <2>1, ThreadNames DEF ThreadsOK
  <2>4. JobOK'
    BY <1>f, <2>2, <2>3
  <2>5. FreshJob'
    <3>1. mapped /\ cpc[cur] = "wait" => FreshGlobal(seen[cur])'
      BY <1>b, <1>g, <2>1, <2>2, <2>3 DEF FreshGlobal
    <3>2. QED
      BY <1>b, <2>1, <3>1 DEF FreshJob
  <2>6. QED
    BY <1>b, <1>c, <1>e, <2>1, <2>4, <2>5, WorkStep
<1>3. CASE get_process_resource_usage
  <2>1. /\ pc[Server] = "count" /\ job.op = "GET_PROC_STATS" /\ pc' = [pc EXCEPT ![Server] = "reply"]
        /\ answer' = [text |-> "Stats", usage |-> IF process_resources[job.arg] = None THEN Zero
                                                  ELSE process_resources[job.arg]]
    BY <1>3 DEF get_process_resource_usage, Goto, Answer
  <2>2. job.arg \in Pids /\ process_resources[job.arg] \in Usage \cup {None}
    BY <1>a, <1>d, <2>1 DEF Job, CountsOK
  <2>3. /\ answer' \in Answers
        /\ answer'.usage = IF process_resources[job.arg] = None THEN Zero ELSE process_resources[job.arg]
    BY <2>1, <2>2, ZeroUsage DEF Answers, Texts
  <2>4. pc'[Server] = "reply"
    BY <1>a, <2>1, ThreadNames DEF ThreadsOK
  <2>5. JobOK'
    BY <1>f, <2>3, <2>4
  <2>6. FreshJob'
    <3>1. FreshGlobal(seen[cur])'
      BY <1>b, <2>1, <2>4 DEF FreshGlobal
    <3>2. mapped /\ cpc[cur] = "wait" => FreshProcess(seen[cur], job.arg)'
      BY <1>b, <1>g, <2>1, <2>3, <2>4 DEF FreshProcess
    <3>3. QED
      BY <1>b, <3>1, <3>2 DEF FreshJob
  <2>7. QED
    BY <1>b, <1>c, <1>e, <2>1, <2>5, <2>6, WorkStep
<1>4. QED
  BY <1>1, <1>2, <1>3 DEF Statistics

(* Reply: the client that waits gets the answer to the request it sent. *)
LEMMA ReplyStep ==
    ASSUME FreshInv, Reply
    PROVE  FreshInv'
<1>a. /\ ThreadsOK /\ CountsOK /\ KernelOK /\ LinksOK /\ ClientsOK /\ JobOK /\ FreshJob
      /\ \A c \in Clients : ReportsOf(c)
  BY Reports DEF FreshInv, ServerInv
<1>b. /\ pc[Server] = "reply" /\ cpc[cur] # "dead" /\ rsp' = [rsp EXCEPT ![cur] = answer]
      /\ link' = [link EXCEPT ![cur] = "eof"] /\ cur' = None /\ job' = None /\ answer' = None
      /\ pc' = [pc EXCEPT ![Server] = "loop"]
      /\ UNCHANGED <<ebpf_sync_mutex, frame, global_qp_count, global_mr_count, global_memory_used,
                     process_resources, backlog, req, mapped, kernelVars, seen, clientVars,
                     cpc, call, cached, qps, mrs, verdict>>
  BY DEF Reply, Goto, countVars, clientVars, kernelVars
<1>c. cur \in Clients /\ pc[Server] \in Serving /\ ClientOK(cur) /\ ReportsOf(cur)
  BY <1>a, <1>b DEF LinksOK, ClientsOK, Serving
<1>d. /\ job \in Job /\ answer \in Answers /\ (answer.text = "Stats" => job.op \in Asking)
      /\ cpc[cur] = "wait" /\ job = Request(cur)
  BY <1>a, <1>b, <1>c DEF JobOK
<1>1. ThreadsOK' /\ pc'[Server] = "loop"
  BY <1>a, <1>b, MoveServer DEF ServerLabels, Section, Serving, Counting
<1>2. CountsOK' /\ KernelOK'
  BY <1>a, <1>b, QuietKernel DEF CountsOK
<1>3. /\ link' \in [Clients -> {"none", "queued", "open", "eof", "reset"}]
      /\ \A c \in Clients : link'[c] = IF c = cur THEN "eof" ELSE link[c]
      /\ \A c \in Clients : rsp'[c] = IF c = cur THEN answer ELSE rsp[c]
  BY <1>a, <1>b DEF LinksOK, ClientsOK
<1>4. link[cur] = "open" /\ \A c \in Clients \ {cur} : link[c] # "open"
  BY <1>a, <1>c DEF LinksOK
<1>5. LinksOK'
  BY <1>a, <1>b, <1>1, <1>3, <1>4 DEF LinksOK, Serving, Counting, Section
<1>6. JobOK' /\ FreshJob'
  BY <1>b, <1>1 DEF JobOK, FreshJob, Serving, Counting, Section
<1>7. ClientsOK'
  <2>1. ASSUME NEW d \in Clients PROVE ClientOK(d)'
    <3>1. CASE d # cur
      BY <1>a, <1>b, <1>3, <3>1, QuietClient DEF ClientsOK
    <3>2. CASE d = cur
      BY <1>b, <1>c, <1>d, <1>3, <3>2 DEF ClientOK, Active, Asks, Request
    <3>3. QED
      BY <3>1, <3>2
  <2>2. DOMAIN rsp' = Clients
    BY <1>a, <1>b DEF ClientsOK
  <2>3. QED
    BY <1>a, <1>b, <2>1, <2>2 DEF ClientsOK
<1>8. ASSUME NEW d \in Clients PROVE ReportsOf(d)'
  <2>1. CASE d # cur
    BY <1>a, <1>b, <1>3, <2>1, QuietReport
  <2>2. CASE d = cur
    <3>1. FigureOf(d)' /\ VerdictOf(d)'
      BY <1>b, <1>c, <2>2 DEF ReportsOf, FigureOf, VerdictOf, Active
    <3>2. AnswerOf(d)'
      <4> SUFFICES ASSUME mapped, answer.text = "Stats"
                   PROVE  AnswerOf(d)'
        BY <1>b, <1>3, <2>2 DEF AnswerOf
      <4>1. /\ FreshGlobal(seen[cur])
            /\ job.op = "GET_PROC_STATS" => FreshProcess(seen[cur], job.arg)
        BY <1>a, <1>b, <1>d DEF FreshJob
      <4>2. (Request(d).op)' = job.op /\ (Request(d).arg)' = job.arg /\ (call[d].arg)' = job.arg
        BY <1>b, <1>d, <2>2 DEF Request
      <4>3. CASE job.op = "GET_STATS"
        <5>1. answer.usage.qp \in Qps(seen[cur]) /\ <<answer.usage.mr, answer.usage.used>> \in Memories(seen[cur])
          BY <1>b, <4>1, <4>3 DEF FreshGlobal
        <5>2. /\ \E k \in seen[cur] : answer.usage.qp = k.global.qp
              /\ \E k \in seen[cur] : answer.usage.mr = k.global.mr /\ answer.usage.used = k.global.used
          BY <5>1 DEF Qps, Memories
        <5>3. QED
          BY <1>b, <1>3, <2>2, <4>2, <4>3, <5>2 DEF AnswerOf
      <4>4. CASE job.op = "GET_PROC_STATS"
        <5>1. None \notin Known(seen[cur], job.arg) => answer.usage \in Known(seen[cur], job.arg)
          BY <1>b, <4>1, <4>4 DEF FreshProcess
        <5>2. QED
          BY <1>b, <1>3, <2>2, <4>2, <4>4, <5>1 DEF AnswerOf, Known
      <4>5. QED
        BY <1>d, <4>3, <4>4 DEF Asking
    <3>3. QED
      BY <3>1, <3>2 DEF ReportsOf
  <2>3. QED
    BY <2>1, <2>2
<1>9. QED
  BY <1>1, <1>2, <1>5, <1>6, <1>7, <1>8, NextReports DEF FreshInv, ServerInv

(* The listening socket closes, and the connection that is served with it or *)
(* after it: nobody waits in a queue or on the server any more.              *)
LEMMA CloseStep ==
    ASSUME FreshInv, CloseQueue, ThreadsOK', pc'[Server] \notin Serving \cup {"read"},
           cur' = None, job' = None,
           UNCHANGED <<countVars, process_resources, req, rsp, clientVars, kernelVars, seen>>
    PROVE  FreshInv'
<1>a. /\ CountsOK /\ KernelOK /\ LinksOK /\ ClientsOK /\ \A c \in Clients : ReportsOf(c)
  BY Reports DEF FreshInv, ServerInv
<1>b. UNCHANGED <<global_qp_count, global_mr_count, global_memory_used, mapped, cpc, call, cached, qps, mrs,
                  verdict>>
  BY DEF countVars, clientVars, kernelVars
<1>1. CountsOK' /\ KernelOK'
  BY <1>a, <1>b, QuietKernel DEF CountsOK
<1>2. \A c \in Clients :
         /\ c = cur => link[c] = "open" /\ link'[c] \in {"reset", "eof"}
         /\ link[c] = "queued" => link'[c] = "reset"
         /\ c # cur /\ link[c] # "queued" => link'[c] = link[c] /\ link[c] # "open"
  <2>1. \A c \in Clients : c = cur => link[c] = "open"
    BY <1>a, CollectorAssumption DEF LinksOK
  <2>2. \A c \in Clients : link[c] = "open" => c = cur
    BY <1>a DEF LinksOK
  <2>3. QED
    BY <2>1, <2>2 DEF CloseQueue
<1>3. /\ backlog' = <<>> /\ link' \in [Clients -> {"none", "queued", "open", "eof", "reset"}]
  BY <1>a DEF LinksOK, CloseQueue
<1>4. LinksOK'
  <2>1. backlog' \in Seq(Clients) /\ DOMAIN backlog' = {}
    BY <1>3
  <2>2. \A c \in Clients : link'[c] \notin {"queued", "open"}
    BY <1>2
  <2>3. QED
    BY <1>3, <2>1, <2>2 DEF LinksOK
<1>5. ClientsOK'
  <2>1. ASSUME NEW d \in Clients PROVE ClientOK(d)'
    <3>1. ClientOK(d)
      BY <1>a DEF ClientsOK
    <3>2. (link[d] = "none" => link'[d] = "none") /\ (link[d] = "eof" => link'[d] = "eof")
      BY <1>2
    <3>3. QED
      BY <1>b, <3>1, <3>2 DEF ClientOK, Active, Asks, Request
  <2>2. QED
    BY <1>a, <1>b, <2>1 DEF ClientsOK
<1>6. JobOK' /\ FreshJob'
  BY DEF JobOK, FreshJob, Serving
<1>7. \A c \in Clients : ReportsOf(c)'
  BY <1>a, <1>b, QuietReports
<1>8. QED
  BY <1>1, <1>4, <1>5, <1>6, <1>7, NextReports DEF FreshInv, ServerInv

LEMMA EndSteps ==
    ASSUME FreshInv, BrokenPipe \/ Kill \/ Cleanup
    PROVE  FreshInv'
<1>a. ThreadsOK /\ LinksOK /\ JobOK
  BY DEF FreshInv, ServerInv
<1>1. CASE Die
  <2>1. pc' = [t \in Threads |-> IF t = Server THEN "down" ELSE "done"]
        /\ frame' = [t \in Threads |-> NoFrame] /\ ebpf_sync_mutex' = Free
    BY <1>1 DEF Die
  <2>2. pc'[Server] = "down" /\ pc'[Syncer] = "done" /\ NoFrame \in Frame
    BY <2>1, ThreadNames, ZeroUsage DEF NoFrame, Frame
  <2>3. ThreadsOK'
    BY <2>1, <2>2, ThreadNames DEF ThreadsOK, Section, ServerLabels, SyncerLabels, Free, Destroyed
  <2>4. QED
    BY <1>1, <2>2, <2>3, CloseStep DEF Die, Serving, Counting, Section
<1>2. CASE Cleanup
  <2>1. /\ pc[Server] = "cleanup" /\ pc' = [pc EXCEPT ![Server] = "join"] /\ UNCHANGED <<frame, cur, job>>
        /\ ebpf_sync_mutex' = IF ebpf_sync_mutex = Free THEN Destroyed ELSE ebpf_sync_mutex
        /\ CloseQueue
        /\ UNCHANGED <<countVars, process_resources, req, rsp, clientVars, kernelVars, seen>>
    BY <1>2 DEF Cleanup, Goto, serveVars
  <2>2. pc'[Server] = "join" /\ pc'[Syncer] = pc[Syncer] /\ pc' \in [Threads -> ServerLabels \cup SyncerLabels]
    BY <1>a, <2>1, ThreadNames DEF ThreadsOK, ServerLabels
  <2>3. ThreadsOK'
    BY <1>a, <2>1, <2>2, ThreadNames DEF ThreadsOK, Section, ServerLabels
  <2>4. cur' = None /\ job' = None
    BY <1>a, <2>1 DEF LinksOK, JobOK, Serving, Counting, Section
  <2>5. QED
    BY <2>1, <2>2, <2>3, <2>4, CloseStep DEF Serving, Counting, Section
<1>3. QED
  BY <1>1, <1>2 DEF BrokenPipe, Kill

-----------------------------------------------------------------------------
(* Steps of clients.  The job of the server is that of a client which does   *)
(* nothing, or which dies.                                                   *)
LEMMA OthersJob ==
    ASSUME JobOK, FreshJob,
           UNCHANGED <<pc, frame, global_qp_count, global_mr_count, global_memory_used, process_resources,
                       cur, job, answer, mapped>>,
           pc[Server] \in Serving =>
             \/ cpc'[cur] = "dead"
             \/ cpc'[cur] = cpc[cur] /\ call'[cur] = call[cur] /\ seen'[cur] = seen[cur]
    PROVE  JobOK' /\ FreshJob'
<1>1. JobOK'
  BY DEF JobOK, Request, Serving, Counting, Section
<1>2. CASE mapped /\ pc[Server] \in Counting \cup {"reply"} /\ cpc'[cur] = "wait" /\ job.op \in Asking
  <2>1. cpc[cur] = "wait" /\ seen'[cur] = seen[cur]
    BY <1>2 DEF Serving
  <2>2. /\ FreshGlobal(seen[cur]) /\ (job.op = "GET_PROC_STATS" => FreshProcess(seen[cur], job.arg))
    BY <1>2, <2>1 DEF FreshJob
  <2>3. FreshGlobal(seen[cur])'
    BY <2>1, <2>2 DEF FreshGlobal
  <2>4. (job.op = "GET_PROC_STATS" => FreshProcess(seen[cur], job.arg))'
    BY <2>1, <2>2 DEF FreshProcess
  <2>5. QED
    BY <1>1, <2>3, <2>4 DEF FreshJob
<1>3. CASE ~(mapped /\ pc[Server] \in Counting \cup {"reply"} /\ cpc'[cur] = "wait" /\ job.op \in Asking)
  BY <1>1, <1>3 DEF FreshJob
<1>4. QED
  BY <1>2, <1>3

(* What remains to be shown of a step of client c. *)
LEMMA OneClient ==
    ASSUME FreshInv, NEW c \in Clients,
           UNCHANGED <<countVars, process_resources, threadVars, serveVars, kernelVars>>,
           \A d \in Clients \ {c} :
               /\ cpc'[d] = cpc[d] /\ call'[d] = call[d] /\ cached'[d] = cached[d] /\ link'[d] = link[d]
               /\ req'[d] = req[d] /\ rsp'[d] = rsp[d] /\ seen'[d] = seen[d] /\ verdict'[d] = verdict[d],
           cpc' \in [Clients -> {"idle", "connect", "send", "wait", "dead"}],
           DOMAIN call' = Clients, DOMAIN cached' = Clients, DOMAIN verdict' = Clients,
           DOMAIN req' = Clients, DOMAIN rsp' = Clients,
           qps' \in [Clients -> Nat], mrs' \in [Clients -> [Sizes -> Nat]],
           seen' \in [Clients -> SUBSET KernelStates],
           cpc'[c] \in {"connect", "send", "wait"} /\ seen'[c] # {} => kernel \in seen'[c],
           LinksOK', ClientOK(c)', ReportsOf(c)',
           pc[Server] \in Serving /\ cur = c =>
             \/ cpc'[c] = "dead"
             \/ cpc'[c] = cpc[c] /\ call'[c] = call[c] /\ seen'[c] = seen[c]
    PROVE  FreshInv'
<1>a. /\ ThreadsOK /\ CountsOK /\ KernelOK /\ LinksOK /\ ClientsOK /\ JobOK /\ FreshJob
      /\ \A d \in Clients : ReportsOf(d)
  BY Reports DEF FreshInv, ServerInv
<1>b. UNCHANGED <<pc, ebpf_sync_mutex, frame, global_qp_count, global_mr_count, global_memory_used,
                  process_resources, cur, job, answer, mapped, kernel>>
  BY DEF countVars, threadVars, serveVars, kernelVars
<1>1. ThreadsOK' /\ CountsOK'
  BY <1>a, <1>b DEF ThreadsOK, CountsOK
<1>2. KernelOK'
  <2>1. ASSUME NEW d \in Clients, cpc'[d] \in {"connect", "send", "wait"}, seen'[d] # {}
        PROVE  kernel \in seen'[d]
    BY <1>a, <2>1 DEF KernelOK, Active
  <2>2. QED
    BY <1>a, <1>b, <2>1 DEF KernelOK, Active
<1>3. JobOK' /\ FreshJob'
  <2>1. pc[Server] \in Serving => cur \in Clients
    BY <1>a DEF LinksOK
  <2>2. QED
    BY <1>a, <1>b, <2>1, OthersJob
<1>4. ClientsOK'
  <2>1. ASSUME NEW d \in Clients PROVE ClientOK(d)'
    BY <1>a, QuietClient DEF ClientsOK
  <2>2. QED
    BY <2>1 DEF ClientsOK
<1>5. ASSUME NEW d \in Clients PROVE ReportsOf(d)'
  BY <1>a, <1>b, QuietReport
<1>6. QED
  BY <1>1, <1>2, <1>3, <1>4, <1>5, NextReports DEF FreshInv, ServerInv

LEMMA CallStep ==
    ASSUME FreshInv, NEW c \in Clients, Call(c)
    PROVE  FreshInv'
<1>a. /\ KernelOK /\ LinksOK /\ ClientsOK /\ JobOK /\ ClientOK(c) /\ mapped \in BOOLEAN
  BY DEF FreshInv, ServerInv, ClientsOK, KernelOK
<1>b. PICK k \in Calls(c, mapped) :
        /\ Frees(c, k)
        /\ call' = [call EXCEPT ![c] = [op |-> k.op, arg |-> k.arg, round |-> 1, count |-> 0,
                                        told |-> TRUE]]
  BY DEF Call
<1>c. /\ cpc[c] = "idle" /\ cpc' = [cpc EXCEPT ![c] = "connect"]
      /\ verdict' = [verdict EXCEPT ![c] = None] /\ seen' = [seen EXCEPT ![c] = {}]
      /\ UNCHANGED <<backlog, link, req, rsp, cached, pc, cur>>
      /\ UNCHANGED <<countVars, process_resources, threadVars, serveVars, kernelVars>>
  BY DEF Call, linkVars, threadVars, serveVars
<1>d. /\ k.op \in {"get_stats", "check_qp"} \cup Requests /\ k.arg \in Sizes \cup Pids \cup {None}
      /\ k.op = "GET_PROC_STATS" => k.arg \in Pids
      /\ k.op \in {"MR_CREATE", "MR_DESTROY", "CHECK_MEMORY"} => k.arg \in Sizes
  BY <1>a, CallsAssumption
<1>1. qps' \in [Clients -> Nat] /\ mrs' \in [Clients -> [Sizes -> Nat]]
  <2>a. qps \in [Clients -> Nat] /\ mrs \in [Clients -> [Sizes -> Nat]]
    BY <1>a DEF ClientsOK
  <2>1. CASE k.op = "QP_DESTROY"
    <3>1. qps[c] > 0 /\ qps' = [qps EXCEPT ![c] = @ - 1] /\ UNCHANGED mrs
      BY <1>b, <2>1 DEF Frees
    <3>2. qps[c] - 1 \in Nat
      BY <2>a, <3>1
    <3>3. QED
      BY <2>a, <3>1, <3>2
  <2>2. CASE k.op = "MR_DESTROY"
    <3>1. mrs[c][k.arg] > 0 /\ mrs' = [mrs EXCEPT ![c][k.arg] = @ - 1] /\ UNCHANGED qps
      BY <1>b, <2>2 DEF Frees
    <3>2. mrs[c] \in [Sizes -> Nat] /\ mrs[c][k.arg] - 1 \in Nat
      BY <1>d, <2>a, <2>2, <3>1
    <3>3. QED
      BY <2>a, <3>1, <3>2
  <2>3. CASE k.op \notin {"QP_DESTROY", "MR_DESTROY"}
    BY <1>b, <2>a, <2>3 DEF Frees
  <2>4. QED
    BY <2>1, <2>2, <2>3
<1>2. /\ cpc' \in [Clients -> {"idle", "connect", "send", "wait", "dead"}]
      /\ DOMAIN call' = Clients /\ DOMAIN cached' = Clients /\ DOMAIN verdict' = Clients
      /\ DOMAIN req' = Clients /\ DOMAIN rsp' = Clients
      /\ seen' \in [Clients -> SUBSET KernelStates]
  BY <1>a, <1>b, <1>c DEF ClientsOK, KernelOK
<1>3. /\ cpc'[c] = "connect" /\ seen'[c] = {} /\ verdict'[c] = None
      /\ call'[c] = [op |-> k.op, arg |-> k.arg, round |-> 1, count |-> 0, told |-> TRUE]
      /\ \A d \in Clients \ {c} : /\ cpc'[d] = cpc[d] /\ call'[d] = call[d] /\ seen'[d] = seen[d]
                                  /\ verdict'[d] = verdict[d]
  BY <1>a, <1>b, <1>c DEF ClientsOK, KernelOK
<1>4. req[c] = None /\ rsp[c] = None /\ link[c] = "none" /\ cached[c] \in [count : Nat, max : Nat]
  BY <1>a, <1>c DEF ClientOK
<1>5. ClientOK(c)'
  <2>1. call'[c] \in CallType
    BY <1>3, <1>d DEF CallType
  <2>2. QED
    BY <1>3, <1>4, <1>c, <2>1 DEF ClientOK
<1>6. ReportsOf(c)'
  BY <1>3, <1>4, <1>c DEF ReportsOf, AnswerOf, FigureOf, VerdictOf
<1>7. LinksOK'
  BY <1>a, <1>c DEF LinksOK
<1>8. ~(pc[Server] \in Serving /\ cur = c)
  BY <1>4, <1>a DEF LinksOK
<1>9. QED
  BY <1>1, <1>2, <1>3, <1>5, <1>6, <1>7, <1>8, <1>c, OneClient

(* Connect, into the queue. *)
LEMMA QueueStep ==
    ASSUME FreshInv, NEW c \in Clients, cpc[c] = "connect", Listening,
           backlog' = Append(backlog, c), link' = [link EXCEPT ![c] = "queued"],
           cpc' = [cpc EXCEPT ![c] = "send"],
           UNCHANGED <<req, rsp, call, cached, qps, mrs, verdict, seen>>,
           UNCHANGED <<countVars, process_resources, threadVars, serveVars, kernelVars>>
    PROVE  FreshInv'
<1>a. /\ KernelOK /\ LinksOK /\ ClientsOK /\ JobOK /\ ClientOK(c) /\ UNCHANGED <<pc, cur, kernel, mapped>>
      /\ ReportsOf(c)
  BY Reports DEF FreshInv, ServerInv, ClientsOK, threadVars, serveVars, kernelVars
<1>1. /\ link[c] = "none" /\ req[c] = None /\ rsp[c] = None /\ call[c] \in CallType
      /\ cached[c] \in [count : Nat, max : Nat]
  BY <1>a DEF ClientOK, Active
<1>2. /\ link' \in [Clients -> {"none", "queued", "open", "eof", "reset"}]
      /\ cpc' \in [Clients -> {"idle", "connect", "send", "wait", "dead"}]
      /\ cpc'[c] = "send" /\ \A d \in Clients : link'[d] = IF d = c THEN "queued" ELSE link[d]
      /\ \A d \in Clients \ {c} : cpc'[d] = cpc[d]
  BY <1>a DEF LinksOK, ClientsOK
<1>3. LinksOK'
  <2>1. /\ backlog \in Seq(Clients) /\ Len(backlog) \in Nat /\ DOMAIN backlog = 1 .. Len(backlog)
        /\ \A i, j \in DOMAIN backlog : i # j => backlog[i] # backlog[j]
        /\ \A i \in DOMAIN backlog : backlog[i] # c
    BY <1>a, <1>1 DEF LinksOK
  <2>2. /\ backlog' \in Seq(Clients) /\ DOMAIN backlog' = 1 .. Len(backlog) + 1
        /\ backlog'[Len(backlog) + 1] = c
        /\ \A i \in 1 .. Len(backlog) : backlog'[i] = backlog[i]
    BY <2>1
  <2>3. \A i, j \in DOMAIN backlog' : i # j => backlog'[i] # backlog'[j]
    BY <2>1, <2>2
  <2>4. ASSUME NEW d \in Clients
        PROVE  (\E i \in DOMAIN backlog' : backlog'[i] = d)
                  <=> d = c \/ \E i \in DOMAIN backlog : backlog[i] = d
    BY <2>1, <2>2
  <2>5. \A d \in Clients : link'[d] = "queued" <=> \E i \in DOMAIN backlog' : backlog'[i] = d
    BY <1>a, <1>2, <2>4 DEF LinksOK
  <2>6. \A d \in Clients : link'[d] = "open" <=> link[d] = "open"
    BY <1>1, <1>2
  <2>7. QED
    BY <1>a, <1>2, <2>2, <2>3, <2>5, <2>6 DEF LinksOK
<1>4. ClientOK(c)'
  BY <1>1, <1>2 DEF ClientOK
<1>5. ReportsOf(c)'
  BY <1>a, <1>1, <1>2 DEF ReportsOf, AnswerOf, FigureOf, VerdictOf, Active
<1>6. ~(pc[Server] \in Serving /\ cur = c)
  BY <1>1, <1>a DEF LinksOK
<1>7. /\ DOMAIN call' = Clients /\ DOMAIN cached' = Clients /\ DOMAIN verdict' = Clients
      /\ DOMAIN req' = Clients /\ DOMAIN rsp' = Clients
      /\ qps' \in [Clients -> Nat] /\ mrs' \in [Clients -> [Sizes -> Nat]]
      /\ seen' \in [Clients -> SUBSET KernelStates]
      /\ seen'[c] # {} => kernel \in seen'[c]
  BY <1>a DEF ClientsOK, KernelOK, Active
<1>8. QED
  BY <1>2, <1>3, <1>4, <1>5, <1>6, <1>7, OneClient

(* Send: from the first question on, what the maps hold is noted. *)
LEMMA SendStep ==
    ASSUME FreshInv, NEW c \in Clients, cpc[c] = "send", link[c] \in {"queued", "open"},
           req' = [req EXCEPT ![c] = Request(c)], cpc' = [cpc EXCEPT ![c] = "wait"],
           seen' = [seen EXCEPT ![c] = @ \cup IF Asks(c) THEN {kernel} ELSE {}],
           UNCHANGED <<backlog, link, rsp, call, cached, qps, mrs, verdict>>,
           UNCHANGED <<countVars, process_resources, threadVars, serveVars, kernelVars>>
    PROVE  FreshInv'
<1>a. /\ KernelOK /\ LinksOK /\ ClientsOK /\ JobOK /\ ClientOK(c) /\ UNCHANGED <<pc, cur, kernel, mapped>>
      /\ ReportsOf(c)
  BY Reports DEF FreshInv, ServerInv, ClientsOK, threadVars, serveVars, kernelVars
<1>1. /\ rsp[c] = None /\ call[c] \in CallType /\ cached[c] \in [count : Nat, max : Nat]
  BY <1>a DEF ClientOK, Active
<1>2. /\ cpc' \in [Clients -> {"idle", "connect", "send", "wait", "dead"}] /\ cpc'[c] = "wait"
      /\ \A d \in Clients \ {c} : cpc'[d] = cpc[d] /\ req'[d] = req[d] /\ seen'[d] = seen[d]
      /\ req'[c] = Request(c) /\ DOMAIN req' = Clients
      /\ seen'[c] = seen[c] \cup IF Asks(c) THEN {kernel} ELSE {}
  BY <1>a DEF ClientsOK, KernelOK
<1>3. seen' \in [Clients -> SUBSET KernelStates]
  <2>1. seen[c] \cup (IF Asks(c) THEN {kernel} ELSE {}) \in SUBSET KernelStates
    BY <1>a DEF KernelOK
  <2>2. QED
    BY <1>a, <2>1 DEF KernelOK
<1>4. LinksOK'
  BY <1>a DEF LinksOK
<1>5. ClientOK(c)'
  <2>1. Request(c) \in Job
    BY <1>1 DEF CallType, Job, Request, Requests
  <2>2. Request(c)' = Request(c) /\ (Asks(c)' <=> Asks(c))
    BY DEF Request, Asks
  <2>3. Asks(c) => seen'[c] # {}
    BY <1>2
  <2>4. QED
    BY <1>1, <1>2, <2>1, <2>2, <2>3 DEF ClientOK
<1>6. ReportsOf(c)'
  <2>1. seen[c] \subseteq seen'[c]
    BY <1>2
  <2>2. FigureOf(c)'
    BY <1>a, <1>2, <2>1 DEF ReportsOf, FigureOf, Active, Qps
  <2>3. VerdictOf(c)'
    BY <1>a, <2>1 DEF ReportsOf, VerdictOf
  <2>4. AnswerOf(c)'
    BY <1>1 DEF AnswerOf
  <2>5. QED
    BY <2>2, <2>3, <2>4 DEF ReportsOf
<1>7. ~(pc[Server] \in Serving /\ cur = c)
  BY <1>a DEF JobOK
<1>8. /\ DOMAIN call' = Clients /\ DOMAIN cached' = Clients /\ DOMAIN verdict' = Clients
      /\ DOMAIN rsp' = Clients
      /\ qps' \in [Clients -> Nat] /\ mrs' \in [Clients -> [Sizes -> Nat]]
      /\ seen'[c] # {} => kernel \in seen'[c]
  BY <1>a, <1>2 DEF ClientsOK, KernelOK, Active
<1>9. QED
  BY <1>2, <1>3, <1>4, <1>5, <1>6, <1>7, <1>8, OneClient

LEMMA CrashStep ==
    ASSUME FreshInv, NEW c \in Clients, Crash(c)
    PROVE  FreshInv'
<1>a. /\ KernelOK /\ LinksOK /\ ClientsOK /\ ClientOK(c)
  BY DEF FreshInv, ServerInv, ClientsOK
<1>b. /\ cpc' = [cpc EXCEPT ![c] = "dead"] /\ call' = [call EXCEPT ![c] = None]
      /\ qps' = [qps EXCEPT ![c] = 0] /\ mrs' = [mrs EXCEPT ![c] = [s \in Sizes |-> 0]]
      /\ verdict' = [verdict EXCEPT ![c] = None] /\ rsp' = [rsp EXCEPT ![c] = None]
      /\ cached' = [cached EXCEPT ![c] = [count |-> 0, max |-> DefaultMax]]
      /\ seen' = [seen EXCEPT ![c] = {}]
      /\ UNCHANGED <<countVars, process_resources, threadVars, serveVars, backlog, link, req, kernelVars,
                     pc, cur>>
  BY DEF Crash, threadVars, serveVars
<1>1. /\ cpc' \in [Clients -> {"idle", "connect", "send", "wait", "dead"}]
      /\ DOMAIN call' = Clients /\ DOMAIN cached' = Clients /\ DOMAIN verdict' = Clients
      /\ DOMAIN req' = Clients /\ DOMAIN rsp' = Clients
      /\ qps' \in [Clients -> Nat] /\ mrs' \in [Clients -> [Sizes -> Nat]]
      /\ seen' \in [Clients -> SUBSET KernelStates]
  BY <1>a, <1>b DEF ClientsOK, KernelOK
<1>2. /\ cpc'[c] = "dead" /\ seen'[c] = {} /\ verdict'[c] = None /\ rsp'[c] = None
      /\ cached'[c] = [count |-> 0, max |-> DefaultMax]
      /\ \A d \in Clients \ {c} :
           /\ cpc'[d] = cpc[d] /\ call'[d] = call[d] /\ cached'[d] = cached[d] /\ rsp'[d] = rsp[d]
           /\ seen'[d] = seen[d] /\ verdict'[d] = verdict[d]
  BY <1>a, <1>b DEF ClientsOK, KernelOK
<1>3. ClientOK(c)'
  <2>1. req[c] # None => req[c] \in Job
    BY <1>a DEF ClientOK
  <2>2. cached'[c] \in [count : Nat, max : Nat]
    BY <1>2, Limits
  <2>3. QED
    BY <1>b, <1>2, <2>1, <2>2 DEF ClientOK, Active
<1>4. ReportsOf(c)'
  BY <1>2 DEF ReportsOf, AnswerOf, FigureOf, VerdictOf, Active
<1>5. LinksOK'
  BY <1>a, <1>b DEF LinksOK
<1>6. QED
  BY <1>b, <1>1, <1>2, <1>3, <1>4, <1>5, OneClient

(* The kernel counts: what calls have seen only grows. *)
LEMMA KernelStep ==
    ASSUME FreshInv, KernelCounts
    PROVE  FreshInv'
<1>a. /\ ThreadsOK /\ CountsOK /\ KernelOK /\ LinksOK /\ ClientsOK /\ JobOK /\ FreshJob
      /\ \A d \in Clients : ReportsOf(d)
  BY Reports DEF FreshInv, ServerInv
<1>b. /\ kernel' \in KernelStates
      /\ seen' = [c \in Clients |-> IF Active(c) /\ seen[c] # {} THEN seen[c] \cup {kernel'} ELSE seen[c]]
      /\ UNCHANGED <<pc, ebpf_sync_mutex, frame, global_qp_count, global_mr_count, global_memory_used,
                     process_resources, cur, job, answer, backlog, link, req, rsp, cpc, call, cached, qps,
                     mrs, verdict, mapped>>
  BY DEF KernelCounts, countVars, threadVars, serveVars, linkVars, clientVars
<1>c. \A c \in Clients :
         /\ seen[c] \subseteq seen'[c] /\ seen'[c] \in SUBSET KernelStates
         /\ Active(c) /\ seen[c] # {} => kernel' \in seen'[c]
         /\ seen[c] = {} => seen'[c] = {}
  BY <1>a, <1>b DEF KernelOK
<1>1. ThreadsOK' /\ CountsOK' /\ LinksOK'
  BY <1>a, <1>b DEF ThreadsOK, CountsOK, LinksOK
<1>2. KernelOK'
  <2>1. seen' \in [Clients -> SUBSET KernelStates]
    BY <1>b, <1>c
  <2>2. QED
    BY <1>a, <1>b, <1>c, <2>1 DEF KernelOK, Active
<1>3. ClientsOK'
  <2>1. ASSUME NEW d \in Clients PROVE ClientOK(d)'
    <3>1. ClientOK(d) /\ (seen[d] # {} => seen'[d] # {})
      BY <1>a, <1>c DEF ClientsOK
    <3>2. QED
      BY <1>b, <3>1 DEF ClientOK, Active, Asks, Request
  <2>2. QED
    BY <1>a, <1>b, <2>1 DEF ClientsOK
<1>4. JobOK'
  BY <1>a, <1>b DEF JobOK, Request
<1>5. FreshJob'
  <2>1. CASE mapped /\ pc[Server] \in Counting \cup {"reply"} /\ cpc[cur] = "wait" /\ job.op \in Asking
    <3>1. cur \in Clients /\ FreshGlobal(seen[cur])
          /\ (job.op = "GET_PROC_STATS" => FreshProcess(seen[cur], job.arg))
      BY <1>a, <2>1, JobFacts DEF FreshInv, FreshJob
    <3>2. seen[cur] \subseteq seen'[cur]
      BY <1>c, <3>1
    <3>3. /\ Qps(seen[cur]) \subseteq Qps(seen'[cur]) /\ Memories(seen[cur]) \subseteq Memories(seen'[cur])
          /\ Globals(seen[cur]) \subseteq Globals(seen'[cur])
          /\ \A p : Known(seen[cur], p) \subseteq Known(seen'[cur], p)
      BY <3>2 DEF Qps, Memories, Globals, Known
    <3>4. FreshGlobal(seen[cur])'
      BY <1>b, <3>1, <3>3 DEF FreshGlobal
    <3>5. (job.op = "GET_PROC_STATS" => FreshProcess(seen[cur], job.arg))'
      BY <1>b, <3>1, <3>3 DEF FreshProcess
    <3>6. QED
      BY <3>4, <3>5 DEF FreshJob
  <2>2. CASE ~(mapped /\ pc[Server] \in Counting \cup {"reply"} /\ cpc[cur] = "wait" /\ job.op \in Asking)
    BY <1>b, <2>2 DEF FreshJob
  <2>3. QED
    BY <2>1, <2>2
<1>6. ASSUME NEW d \in Clients PROVE ReportsOf(d)'
  <2>1. seen[d] \subseteq seen'[d] /\ ReportsOf(d)
    BY <1>a, <1>c
  <2>2. FigureOf(d)'
    BY <1>b, <2>1 DEF ReportsOf, FigureOf, Active, Qps
  <2>3. VerdictOf(d)'
    BY <1>b, <2>1 DEF ReportsOf, VerdictOf
  <2>4. AnswerOf(d)'
    BY <1>b, <2>1 DEF ReportsOf, AnswerOf, Request
  <2>5. QED
    BY <2>2, <2>3, <2>4 DEF ReportsOf
<1>7. QED
  BY <1>1, <1>2, <1>3, <1>4, <1>5, <1>6, NextReports DEF FreshInv, ServerInv

LEMMA VerdictFields ==
    ASSUME NEW a, NEW b PROVE [of |-> "qp", refused |-> a, told |-> b].told = b
  OBVIOUS

(* Return: a request has ended with r, which is the answer or none. *)
LEMMA ReturnStep ==
    ASSUME FreshInv, NEW c \in Clients, NEW r, Active(c), link[c] \notin {"queued", "open"},
           r.text = "Stats" => r.usage \in Usage /\ r = rsp[c] /\ rsp[c] # None,
           Return(c, r), UNCHANGED <<backlog, seen>>,
           UNCHANGED <<countVars, process_resources, threadVars, serveVars, kernelVars>>
    PROVE  FreshInv'
<1>a. /\ KernelOK /\ LinksOK /\ ClientsOK /\ ClientOK(c) /\ ReportsOf(c)
      /\ UNCHANGED <<pc, cur, kernel, mapped>>
  BY Reports DEF FreshInv, ServerInv, ClientsOK, threadVars, serveVars, kernelVars
<1>b. /\ cached' = [cached EXCEPT ![c] = Figures(c, r)] /\ link' = [link EXCEPT ![c] = "none"]
      /\ req' = [req EXCEPT ![c] = None] /\ rsp' = [rsp EXCEPT ![c] = None]
  BY DEF Return
<1>1. call[c] \in CallType /\ cached[c] \in [count : Nat, max : Nat]
  BY <1>a DEF ClientOK
<1>2. Figures(c, r) \in [count : Nat, max : Nat]
  BY <1>1, Limits DEF Figures, Usage
<1>3. /\ cached'[c] \in [count : Nat, max : Nat] /\ req'[c] = None /\ rsp'[c] = None
      /\ \A d \in Clients \ {c} : cached'[d] = cached[d] /\ req'[d] = req[d] /\ rsp'[d] = rsp[d]
      /\ DOMAIN cached' = Clients /\ DOMAIN req' = Clients /\ DOMAIN rsp' = Clients
  BY <1>a, <1>b, <1>2 DEF ClientsOK
<1>4. /\ link' \in [Clients -> {"none", "queued", "open", "eof", "reset"}]
      /\ \A d \in Clients : link'[d] = IF d = c THEN "none" ELSE link[d]
  BY <1>a, <1>b DEF LinksOK
<1>5. LinksOK'
  <2>1. \A d \in Clients : (link'[d] = "queued" <=> link[d] = "queued") /\ (link'[d] = "open" <=> link[d] = "open")
    BY <1>4
  <2>2. QED
    BY <1>a, <1>4, <2>1 DEF LinksOK
<1>6. ~(pc[Server] \in Serving /\ cur = c)
  BY <1>a DEF LinksOK
<1>7. /\ seen' \in [Clients -> SUBSET KernelStates] /\ (seen'[c] # {} => kernel \in seen'[c])
  BY <1>a DEF KernelOK
<1>8. ASSUME call[c].op = "check_qp", r.text = "Stats", mapped
      PROVE  Figures(c, r).count \in Qps(seen[c]) /\ Figures(c, r).max = MaxQp
  <2>1. Request(c).op = "GET_STATS" /\ rsp[c].usage = r.usage /\ rsp[c].text = "Stats"
    BY <1>8 DEF Request
  <2>2. \E k \in seen[c] : r.usage.qp = k.global.qp
    BY <1>a, <1>8, <2>1 DEF ReportsOf, AnswerOf
  <2>3. QED
    BY <1>8, <2>1, <2>2 DEF Figures, Qps
<1>t. /\ cpc \in [Clients -> {"idle", "connect", "send", "wait", "dead"}]
      /\ DOMAIN call = Clients /\ DOMAIN verdict = Clients
      /\ qps \in [Clients -> Nat] /\ mrs \in [Clients -> [Sizes -> Nat]]
  BY <1>a DEF ClientsOK
<1>9. CASE SecondRound(c, r)
  <2>1. /\ call[c].op = "check_qp" /\ cpc' = [cpc EXCEPT ![c] = "connect"] /\ UNCHANGED <<qps, mrs, verdict>>
        /\ call' = [call EXCEPT ![c].round = 2, ![c].count = Figures(c, r).count, ![c].told = r.text = "Stats"]
    BY <1>9 DEF SecondRound
  <2>2. /\ call'[c] \in CallType /\ call'[c].count = Figures(c, r).count
        /\ call'[c].told = (r.text = "Stats")
    BY <1>1, <1>2, <1>t, <2>1 DEF CallType
  <2>3. /\ cpc' \in [Clients -> {"idle", "connect", "send", "wait", "dead"}] /\ cpc'[c] = "connect"
        /\ DOMAIN call' = Clients /\ DOMAIN verdict' = Clients
        /\ \A d \in Clients \ {c} : cpc'[d] = cpc[d] /\ call'[d] = call[d]
    BY <1>t, <2>1
  <2>4. ClientOK(c)'
    BY <1>3, <1>4, <2>2, <2>3 DEF ClientOK
  <2>5. ReportsOf(c)'
    <3>1. AnswerOf(c)'
      BY <1>3 DEF AnswerOf
    <3>2. FigureOf(c)'
      BY <1>8, <1>a, <2>1, <2>2 DEF FigureOf
    <3>3. VerdictOf(c)'
      BY <1>a, <2>1 DEF ReportsOf, VerdictOf
    <3>4. QED
      BY <3>1, <3>2, <3>3 DEF ReportsOf
  <2>6. QED
    BY <1>3, <1>4, <1>5, <1>6, <1>7, <1>t, <2>1, <2>3, <2>4, <2>5, OneClient
<1>10. CASE (CheckedQp(c, r) \/ CheckedMemory(c, r) \/ Granted(c, r) \/ Told(c, r)) /\ Finished(c)
  <2>1. cpc' = [cpc EXCEPT ![c] = "idle"] /\ call' = [call EXCEPT ![c] = None]
    BY <1>10 DEF Finished
  <2>2. /\ cpc' \in [Clients -> {"idle", "connect", "send", "wait", "dead"}] /\ cpc'[c] = "idle"
        /\ DOMAIN call' = Clients
        /\ \A d \in Clients \ {c} : cpc'[d] = cpc[d] /\ call'[d] = call[d]
    BY <1>t, <2>1
  <2>3. ClientOK(c)'
    BY <1>3, <1>4, <2>2 DEF ClientOK, Active
  <2>4. qps' \in [Clients -> Nat] /\ mrs' \in [Clients -> [Sizes -> Nat]]
    <3>1. CASE UNCHANGED <<qps, mrs>>
      BY <1>t, <3>1
    <3>2. CASE Granted(c, r) /\ call[c].op = "QP_CREATE"
      <4>1. qps' = [qps EXCEPT ![c] = @ + IF r.text = "Success" THEN 1 ELSE 0] /\ UNCHANGED mrs
        BY <3>2 DEF Granted
      <4>2. qps[c] + (IF r.text = "Success" THEN 1 ELSE 0) \in Nat
        BY <1>t
      <4>3. QED
        BY <1>t, <4>1, <4>2
    <3>3. CASE Granted(c, r) /\ call[c].op = "MR_CREATE"
      <4>1. mrs' = [mrs EXCEPT ![c][call[c].arg] = @ + IF r.text = "Success" THEN 1 ELSE 0] /\ UNCHANGED qps
        BY <3>3 DEF Granted
      <4>2. call[c].arg \in Sizes
        BY <1>1, <3>3 DEF CallType
      <4>3. mrs[c][call[c].arg] + (IF r.text = "Success" THEN 1 ELSE 0) \in Nat
        BY <1>t, <4>2
      <4>4. QED
        BY <1>t, <4>1, <4>2, <4>3
    <3>4. QED
      BY <1>10, <3>1, <3>2, <3>3 DEF CheckedQp, CheckedMemory, Granted, Told
  <2>5. DOMAIN verdict' = Clients /\ \A d \in Clients \ {c} : verdict'[d] = verdict[d]
    BY <1>10, <1>t DEF CheckedQp, CheckedMemory, Granted, Told
  <2>6. VerdictOf(c)'
    <3>1. CASE CheckedQp(c, r)
      <4>1. /\ call[c].op = "check_qp" /\ call[c].round = 2
            /\ verdict'[c] = [of |-> "qp",
                 refused |-> Figures(c, r).max # 0 /\ call[c].count # 0 /\ call[c].count >= Figures(c, r).max,
                 told |-> call[c].told /\ r.text = "Stats"]
        BY <1>t, <3>1 DEF CheckedQp
      <4>2. ASSUME mapped, call[c].told, r.text = "Stats"
            PROVE  \E k \in seen[c] : verdict'[c].refused = (k.global.qp >= MaxQp)
        <5>1. PICK k \in seen[c] : call[c].count = k.global.qp
          BY <1>a, <4>1, <4>2 DEF ReportsOf, FigureOf, Qps
        <5>2. call[c].count \in Nat /\ Figures(c, r).max = MaxQp
          BY <1>1, <1>8, <4>1, <4>2 DEF CallType
        <5>3. (Figures(c, r).max # 0 /\ call[c].count # 0 /\ call[c].count >= Figures(c, r).max)
                 = (k.global.qp >= MaxQp)
          BY <5>1, <5>2, Limits
        <5>4. QED
          BY <4>1, <5>3
      <4>3. call[c].told \in BOOLEAN
        BY <1>1 DEF CallType
      <4>4. verdict'[c].told <=> call[c].told /\ r.text = "Stats"
        <5>1. verdict'[c].told = (call[c].told /\ r.text = "Stats")
          BY <4>1, VerdictFields
        <5>2. QED
          BY <4>3, <5>1
      <4>5. mapped /\ verdict'[c].told => \E k \in seen[c] : verdict'[c].refused = (k.global.qp >= MaxQp)
        BY <4>2, <4>4
      <4>6. QED
        BY <1>a, <4>5 DEF VerdictOf
    <3>2. CASE CheckedMemory(c, r)
      <4>1. verdict'[c].of = "memory"
        BY <1>t, <3>2 DEF CheckedMemory
      <4>2. QED
        BY <4>1 DEF VerdictOf
    <3>3. CASE UNCHANGED verdict
      BY <1>a, <3>3 DEF ReportsOf, VerdictOf
    <3>4. QED
      BY <1>10, <3>1, <3>2, <3>3 DEF Granted, Told
  <2>7. ReportsOf(c)'
    BY <1>3, <2>2, <2>6 DEF ReportsOf, AnswerOf, FigureOf, Active
  <2>8. QED
    BY <1>3, <1>4, <1>5, <1>6, <1>7, <2>2, <2>3, <2>4, <2>5, <2>7, OneClient
<1>11. QED
  BY <1>9, <1>10 DEF Return

LEMMA ClientSteps ==
    ASSUME FreshInv, NEW c \in Clients, ClientStep(c)
    PROVE  FreshInv'
<1>a. ClientOK(c) /\ ClientsOK /\ LinksOK
  BY DEF FreshInv, ServerInv, ClientsOK
<1>b. Fault.text # "Stats" /\ Eof.text # "Stats"
  BY DEF Fault, Eof, Answer
<1>1. CASE Connect(c)
  <2>1. cpc[c] = "connect" /\ UNCHANGED <<countVars, process_resources, threadVars, serveVars, kernelVars, seen>>
    BY <1>1 DEF Connect
  <2>2. CASE ~Listening /\ Return(c, Fault) /\ UNCHANGED backlog
    <3>1. link[c] = "none" /\ Active(c)
      BY <1>a, <2>1 DEF ClientOK, Active
    <3>2. QED
      BY <1>b, <2>1, <2>2, <3>1, ReturnStep
  <2>3. CASE /\ Listening /\ Len(backlog) < Backlog
             /\ backlog' = Append(backlog, c) /\ link' = [link EXCEPT ![c] = "queued"]
             /\ cpc' = [cpc EXCEPT ![c] = "send"]
             /\ UNCHANGED <<req, rsp, call, cached, qps, mrs, verdict>>
    BY <2>1, <2>3, QueueStep
  <2>4. QED
    BY <1>1, <2>2, <2>3 DEF Connect
<1>2. CASE Send(c)
  <2>1. cpc[c] = "send" /\ UNCHANGED <<countVars, process_resources, threadVars, serveVars, backlog, kernelVars>>
    BY <1>2 DEF Send
  <2>2. CASE link[c] = "reset" /\ Return(c, Fault) /\ UNCHANGED seen
    <3>1. Active(c)
      BY <2>1 DEF Active
    <3>2. QED
      BY <1>b, <2>1, <2>2, <3>1, ReturnStep
  <2>3. CASE /\ link[c] \in {"queued", "open"}
             /\ req' = [req EXCEPT ![c] = Request(c)]
             /\ cpc' = [cpc EXCEPT ![c] = "wait"]
             /\ seen' = [seen EXCEPT ![c] = @ \cup IF Asks(c) THEN {kernel} ELSE {}]
             /\ UNCHANGED <<link, rsp, call, cached, qps, mrs, verdict>>
    BY <2>1, <2>3, SendStep
  <2>4. QED
    BY <1>2, <2>2, <2>3 DEF Send
<1>3. CASE Receive(c)
  <2>1. /\ cpc[c] = "wait" /\ Active(c)
        /\ UNCHANGED <<countVars, process_resources, threadVars, serveVars, backlog, kernelVars, seen>>
    BY <1>3 DEF Receive, Active
  <2>2. CASE rsp[c] # None /\ Return(c, rsp[c])
    <3>1. link[c] = "eof" /\ rsp[c].usage \in Usage
      BY <1>a, <2>2 DEF ClientOK, Answers
    <3>2. QED
      BY <2>1, <2>2, <3>1, ReturnStep
  <2>3. CASE link[c] = "eof" /\ Return(c, Eof)
    BY <1>b, <2>1, <2>3, ReturnStep
  <2>4. CASE link[c] = "reset" /\ Return(c, Fault)
    BY <1>b, <2>1, <2>4, ReturnStep
  <2>5. QED
    BY <1>3, <2>2, <2>3, <2>4 DEF Receive
<1>4. QED
  BY <1>1, <1>2, <1>3 DEF ClientStep

-----------------------------------------------------------------------------
LEMMA FreshInit == CollectorInit => FreshInv
<1> SUFFICES ASSUME CollectorInit PROVE FreshInv
  OBVIOUS
<1>a. pc[Server] = "listen" /\ pc[Syncer] = "check" /\ ebpf_sync_mutex = Free
      /\ frame = [t \in Threads |-> NoFrame] /\ NoFrame \in Frame
  BY ThreadNames, ZeroUsage DEF CollectorInit, NoFrame, Frame
<1>1. ThreadsOK
  BY <1>a, ThreadNames DEF CollectorInit, ThreadsOK, Section, ServerLabels, SyncerLabels, Free, Destroyed
<1>2. CountsOK
  BY DEF CollectorInit, CountsOK
<1>3. KernelOK
  <2>1. kernel \in KernelStates
    BY CollectorAssumption DEF CollectorInit
  <2>2. QED
    BY <2>1 DEF CollectorInit, KernelOK
<1>4. LinksOK
  <2>1. backlog = <<>> /\ backlog \in Seq(Clients) /\ DOMAIN backlog = {}
    BY DEF CollectorInit
  <2>2. QED
    BY <1>a, <2>1 DEF CollectorInit, LinksOK, Serving, Counting, Section
<1>5. ClientsOK
  <2>1. ASSUME NEW d \in Clients PROVE ClientOK(d)
    BY Limits DEF CollectorInit, ClientOK, Active
  <2>2. QED
    BY <2>1 DEF CollectorInit, ClientsOK
<1>6. JobOK /\ FreshJob
  BY <1>a DEF CollectorInit, JobOK, FreshJob, Serving, Counting, Section
<1>7. FreshStats /\ FirstFigure /\ VerdictOfOneMoment
  BY DEF CollectorInit, FreshStats, FirstFigure, VerdictOfOneMoment, Active
<1>8. QED
  BY <1>1, <1>2, <1>3, <1>4, <1>5, <1>6, <1>7 DEF FreshInv, ServerInv

LEMMA FreshNext == FreshInv /\ [CollectorNext]_vars => FreshInv'
<1> SUFFICES ASSUME FreshInv, [CollectorNext]_vars PROVE FreshInv'
  OBVIOUS
<1>1. CASE ServerStep
  BY <1>1, IdleSteps, AcceptStep, ReadStep, ServeStep, StatisticsStep, ReplyStep, EndSteps DEF ServerStep
<1>2. CASE signal_handler \/ SyncThread
  BY <1>2, IdleSteps
<1>3. CASE Kill
  BY <1>3, EndSteps
<1>4. CASE \E t \in Threads : SyncStep(t)
  BY <1>4, SyncFresh
<1>5. CASE \E c \in Clients : Call(c) \/ ClientStep(c) \/ Crash(c)
  BY <1>5, CallStep, ClientSteps, CrashStep
<1>6. CASE KernelCounts
  BY <1>6, KernelStep
<1>7. CASE UNCHANGED vars
  <2>1. UNCHANGED <<frame, countVars, process_resources, serveVars, linkVars, clientVars, kernelVars, seen,
                    pc, ebpf_sync_mutex>>
    BY <1>7 DEF vars, threadVars
  <2>2. ThreadsOK'
    BY <2>1 DEF FreshInv, ServerInv, ThreadsOK
  <2>3. QED
    BY <2>1, <2>2, QuietStep
<1>8. QED
  BY <1>1, <1>2, <1>3, <1>4, <1>5, <1>6, <1>7 DEF CollectorNext

(* GET_STATS and GET_PROC_STATS: whatever threads, clients and signals do,    *)
(* every figure of an answer is one that the kernel's maps held after the     *)
(* request was sent.                                                          *)
THEOREM StatisticsAreFresh == CollectorSpec => []FreshStats
<1>1. FreshInv => FreshStats
  BY DEF FreshInv
<1>2. QED
  BY <1>1, FreshInit, FreshNext, PTL DEF CollectorSpec

(* collector_check_global_qp_limit: a verdict reached with two answers is the *)
(* right one for some moment since the call began.                            *)
THEOREM VerdictsHaveAMoment == CollectorSpec => []VerdictOfOneMoment
<1>1. FreshInv => VerdictOfOneMoment
  BY DEF FreshInv
<1>2. QED
  BY <1>1, FreshInit, FreshNext, PTL DEF CollectorSpec

LEMMA TypesOfFresh == FreshInv => CollectorTypeOK
<1> SUFFICES ASSUME FreshInv PROVE CollectorTypeOK
  OBVIOUS
<1>1. /\ ThreadsOK /\ CountsOK /\ LinksOK /\ ClientsOK /\ JobOK
  BY DEF FreshInv, ServerInv
<1>2. (job # None) => (cur \in Clients /\ job.op \in Requests)
  BY <1>1 DEF JobOK, LinksOK, Job
<1>3. QED
  BY <1>1, <1>2 DEF CollectorTypeOK, ThreadsOK, CountsOK, LinksOK, ClientsOK, Section

(* The types, the mutual exclusion of the two threads in sync_ebpf_data, and  *)
(* the queue of connections as the clients see it.                            *)
THEOREM CollectorTypes == CollectorSpec => []CollectorTypeOK
  BY TypesOfFresh, FreshInit, FreshNext, PTL DEF CollectorSpec

-----------------------------------------------------------------------------
(* Sums of functions over finite sets.  Induction goes by the least number of *)
(* elements for which a statement fails.                                      *)
Pick(s) == CHOOSE x \in s : TRUE

(* f has the sums of m over the subsets of C, as SumFunctionOnSet adds them up. *)
IsSum(f, m, C) ==
    \A s \in SUBSET C : f[s] = IF s = {} THEN 0 ELSE m[Pick(s)] + f[s \ {Pick(s)}]

LEMMA LeastNumber ==
    ASSUME NEW T, T \subseteq Nat, T # {}
    PROVE  \E x \in T : \A y \in T : x <= y
<1>1. PICK R : R = OpToRel(<, Nat)
  OBVIOUS
<1>2. IsWellFoundedOn(R, Nat)
  BY <1>1, NatLessThanWellFounded, Zenon
<1>3. R = {n \in Nat \X Nat : n[1] < n[2]}
  BY <1>1, Zenon DEF OpToRel
<1>4. \A x, y \in Nat : x < y => <<x, y>> \in R
  BY <1>3
<1>5. PICK x \in T : \A y \in T : ~(<<y, x>> \in R)
  BY <1>2, WFMin
<1>6. \A y \in T : x \in Nat /\ y \in Nat /\ ~(y < x)
  BY <1>4, <1>5
<1>7. QED
  BY <1>6

LEMMA PickIn == ASSUME NEW C, NEW s \in SUBSET C, s # {} PROVE Pick(s) \in s /\ Pick(s) \in C
  BY DEF Pick

LEMMA PickLess ==
    ASSUME NEW C, IsFiniteSet(C), NEW s \in SUBSET C, s # {}
    PROVE  /\ s \ {Pick(s)} \in SUBSET C /\ IsFiniteSet(s) /\ Cardinality(s) \in Nat
           /\ Cardinality(s \ {Pick(s)}) = Cardinality(s) - 1
           /\ Cardinality(s) > 0
<1>1. IsFiniteSet(s) /\ Pick(s) \in s
  BY FS_Subset, PickIn
<1>2. Cardinality(s) \in Nat /\ Cardinality(s \ {Pick(s)}) = Cardinality(s) - 1
  BY <1>1, FS_RemoveElement, FS_CardinalityType
<1>3. Cardinality(s) # 0
  BY <1>1, FS_EmptySet
<1>4. QED
  BY <1>1, <1>2, <1>3

(* Induction over the subsets of a finite set. *)
LEMMA SubsetInduction ==
    ASSUME NEW C, IsFiniteSet(C), NEW Good, {} \in Good,
           \A s \in SUBSET C : s # {} /\ s \ {Pick(s)} \in Good => s \in Good
    PROVE  \A s \in SUBSET C : s \in Good
<1> SUFFICES ASSUME NEW t \in SUBSET C, t \notin Good PROVE FALSE
  OBVIOUS
<1> DEFINE N == {Cardinality(s) : s \in {u \in SUBSET C : u \notin Good}}
<1>1. \A s \in SUBSET C : Cardinality(s) \in Nat
  BY FS_Subset, FS_CardinalityType
<1>2. N \in SUBSET Nat /\ N # {}
  BY <1>1
<1>3. PICK n \in N : \A m \in N : n <= m
  <2> HIDE DEF N
  <2> QED BY <1>2, LeastNumber
<1>4. PICK s \in SUBSET C : s \notin Good /\ Cardinality(s) = n
  BY <1>3
<1>5. s # {} /\ s \ {Pick(s)} \in SUBSET C /\ s \ {Pick(s)} \notin Good
  BY <1>4, PickLess
<1>6. Cardinality(s \ {Pick(s)}) \in N /\ Cardinality(s \ {Pick(s)}) = n - 1 /\ n \in Nat
  BY <1>1, <1>4, <1>5, PickLess
<1> HIDE DEF N
<1>7. QED
  BY <1>3, <1>6

(* The sums exist: level by level, for sets of at most n elements. *)
LEMMA SumsExist ==
    ASSUME NEW C, IsFiniteSet(C), NEW m \in [C -> Nat]
    PROVE  \E f \in [SUBSET C -> Nat] : IsSum(f, m, C)
<1> DEFINE D(n) == {s \in SUBSET C : Cardinality(s) <= n}
           Sums(n, f) == \A s \in D(n) : f[s] = IF s = {} THEN 0 ELSE m[Pick(s)] + f[s \ {Pick(s)}]
           Bad == {n \in Nat : ~\E f \in [D(n) -> Nat] : Sums(n, f)}
<1>a. \A s \in SUBSET C : Cardinality(s) \in Nat /\ (s = {} <=> Cardinality(s) = 0)
  BY FS_Subset, FS_CardinalityType, FS_EmptySet
<1>1. Bad = {}
  <2> SUFFICES ASSUME Bad # {} PROVE FALSE
    OBVIOUS
  <2>1. PICK n \in Bad : \A k \in Bad : n <= k
    <3>1. Bad \subseteq Nat
      OBVIOUS
    <3> HIDE DEF Bad
    <3> QED BY <3>1, LeastNumber
  <2>2. n # 0
    <3>1. [s \in D(0) |-> 0] \in [D(0) -> Nat] /\ \A s \in D(0) : s = {}
      BY <1>a
    <3>2. Sums(0, [s \in D(0) |-> 0])
      BY <3>1
    <3>3. 0 \notin Bad
      BY <3>1, <3>2
    <3> QED BY <3>3
  <2>3. n - 1 \in Nat /\ n - 1 \notin Bad /\ n \in Nat
    <3>1. n \in Nat
      OBVIOUS
    <3> HIDE DEF Bad
    <3> QED BY <2>1, <2>2, <3>1
  <2>4. PICK f \in [D(n - 1) -> Nat] : Sums(n - 1, f)
    BY <2>3
  <2> DEFINE g == [s \in D(n) |-> IF s = {} THEN 0 ELSE m[Pick(s)] + f[s \ {Pick(s)}]]
  <2>5. ASSUME NEW s \in D(n), s # {}
        PROVE  s \ {Pick(s)} \in D(n - 1) /\ s \ {Pick(s)} \in D(n) /\ m[Pick(s)] \in Nat
    BY <1>a, <2>3, <2>5, PickLess, PickIn
  <2>6. g \in [D(n) -> Nat]
    BY <2>4, <2>5
  <2>7. \A s \in D(n - 1) : s \in D(n) /\ g[s] = f[s]
    BY <1>a, <2>3, <2>4
  <2>8. Sums(n, g)
    BY <2>5, <2>7
  <2>9. n \notin Bad
    BY <2>3, <2>6, <2>8
  <2> QED BY <2>9
<1>2. Cardinality(C) \in Nat /\ D(Cardinality(C)) = SUBSET C
  BY FS_CardinalityType, FS_Subset
<1>3. PICK f \in [D(Cardinality(C)) -> Nat] : Sums(Cardinality(C), f)
  BY <1>1, <1>2
<1>4. QED
  BY <1>2, <1>3 DEF IsSum

LEMMA SumIs ==
    ASSUME NEW C, IsFiniteSet(C), NEW m \in [C -> Nat]
    PROVE  \E f \in [SUBSET C -> Nat] : IsSum(f, m, C) /\ SumFunctionOnSet(m, C) = f[C]
<1> DEFINE F(i) == [s \in SUBSET C |-> IF s = {} THEN 0
                                      ELSE m[CHOOSE x \in s : TRUE] + i[s \ {CHOOSE x \in s : TRUE}]]
           sum == CHOOSE i : i = F(i)
<1>1. SumFunctionOnSet(m, C) = sum[C]
  BY DEF SumFunctionOnSet, FoldFunctionOnSet, MapThenFoldSet
<1>2. PICK f \in [SUBSET C -> Nat] : IsSum(f, m, C)
  BY SumsExist
<1>3. f = F(f)
  BY <1>2 DEF IsSum, Pick
<1>4. sum = F(sum)
  <2>1. \E i : i = F(i)
    BY <1>3
  <2> HIDE DEF F
  <2> QED BY <2>1
<1>5. DOMAIN sum = SUBSET C /\ IsSum(sum, m, C)
  <2>1. PICK g : g = sum /\ g = F(g)
    BY <1>4
  <2>2. DOMAIN g = SUBSET C /\ IsSum(g, m, C)
    BY <2>1 DEF IsSum, Pick
  <2> QED BY <2>1, <2>2
<1> HIDE DEF sum
<1>6. \A s \in SUBSET C : sum[s] = f[s]
  <2> DEFINE Good == {s \in SUBSET C : sum[s] = f[s]}
  <2>1. {} \in Good
    BY <1>2, <1>5 DEF IsSum
  <2>2. \A s \in SUBSET C : s # {} /\ s \ {Pick(s)} \in Good => s \in Good
    BY <1>2, <1>5 DEF IsSum
  <2>3. \A s \in SUBSET C : s \in Good
    <3> HIDE DEF Good
    <3> QED BY <2>1, <2>2, SubsetInduction
  <2> QED BY <2>3
<1>7. QED
  BY <1>1, <1>2, <1>6

(* One term changes, and the sum by as much. *)
LEMMA SumChange ==
    ASSUME NEW C, IsFiniteSet(C), NEW m \in [C -> Nat], NEW n \in [C -> Nat], NEW c \in C,
           \A d \in C \ {c} : n[d] = m[d]
    PROVE  /\ SumFunctionOnSet(m, C) \in Nat /\ SumFunctionOnSet(n, C) \in Nat
           /\ SumFunctionOnSet(n, C) = SumFunctionOnSet(m, C) - m[c] + n[c]
<1>1. PICK f \in [SUBSET C -> Nat] : IsSum(f, m, C) /\ SumFunctionOnSet(m, C) = f[C]
  BY SumIs
<1>2. PICK g \in [SUBSET C -> Nat] : IsSum(g, n, C) /\ SumFunctionOnSet(n, C) = g[C]
  BY SumIs
<1> DEFINE Good == {s \in SUBSET C : g[s] = IF c \in s THEN f[s] - m[c] + n[c] ELSE f[s]}
<1>3. {} \in Good
  BY <1>1, <1>2 DEF IsSum
<1>4. ASSUME NEW s \in SUBSET C, s # {}, s \ {Pick(s)} \in Good PROVE s \in Good
  <2>1. /\ Pick(s) \in s /\ Pick(s) \in C /\ f[s] = m[Pick(s)] + f[s \ {Pick(s)}]
        /\ g[s] = n[Pick(s)] + g[s \ {Pick(s)}]
    BY <1>1, <1>2, <1>4, PickIn DEF IsSum
  <2>2. f[s] \in Nat /\ g[s] \in Nat /\ f[s \ {Pick(s)}] \in Nat /\ g[s \ {Pick(s)}] \in Nat
        /\ m[c] \in Nat /\ n[c] \in Nat /\ m[Pick(s)] \in Nat /\ n[Pick(s)] \in Nat
    BY <2>1
  <2>3. CASE Pick(s) = c
    BY <1>4, <2>1, <2>2, <2>3
  <2>4. CASE Pick(s) # c
    BY <1>4, <2>1, <2>2, <2>4
  <2> QED BY <2>3, <2>4
<1>5. \A s \in SUBSET C : s \in Good
  <2> HIDE DEF Good
  <2> QED BY <1>3, <1>4, SubsetInduction
<1>6. QED
  BY <1>1, <1>2, <1>5

LEMMA SumMonotone ==
    ASSUME NEW C, IsFiniteSet(C), NEW m \in [C -> Nat], NEW n \in [C -> Nat], \A d \in C : m[d] <= n[d]
    PROVE  SumFunctionOnSet(m, C) <= SumFunctionOnSet(n, C)
<1>1. PICK f \in [SUBSET C -> Nat] : IsSum(f, m, C) /\ SumFunctionOnSet(m, C) = f[C]
  BY SumIs
<1>2. PICK g \in [SUBSET C -> Nat] : IsSum(g, n, C) /\ SumFunctionOnSet(n, C) = g[C]
  BY SumIs
<1> DEFINE Good == {s \in SUBSET C : f[s] <= g[s]}
<1>3. {} \in Good
  <2>1. {} \in SUBSET C /\ f[{}] = 0 /\ g[{}] = 0
    BY <1>1, <1>2 DEF IsSum
  <2> QED BY <2>1
<1>4. ASSUME NEW s \in SUBSET C, s # {}, s \ {Pick(s)} \in Good PROVE s \in Good
  <2>1. /\ Pick(s) \in C /\ f[s] = m[Pick(s)] + f[s \ {Pick(s)}] /\ g[s] = n[Pick(s)] + g[s \ {Pick(s)}]
    BY <1>1, <1>2, <1>4, PickIn DEF IsSum
  <2>2. f[s \ {Pick(s)}] \in Nat /\ g[s \ {Pick(s)}] \in Nat /\ m[Pick(s)] \in Nat /\ n[Pick(s)] \in Nat
    BY <2>1
  <2> QED BY <1>4, <2>1, <2>2
<1>5. \A s \in SUBSET C : s \in Good
  <2> HIDE DEF Good
  <2> QED BY <1>3, <1>4, SubsetInduction
<1>6. QED
  BY <1>1, <1>2, <1>5

LEMMA SumZero ==
    ASSUME NEW C, IsFiniteSet(C), NEW m \in [C -> Nat], \A d \in C : m[d] = 0
    PROVE  SumFunctionOnSet(m, C) = 0
<1>1. PICK f \in [SUBSET C -> Nat] : IsSum(f, m, C) /\ SumFunctionOnSet(m, C) = f[C]
  BY SumIs
<1> DEFINE Good == {s \in SUBSET C : f[s] = 0}
<1>3. {} \in Good
  BY <1>1 DEF IsSum
<1>4. ASSUME NEW s \in SUBSET C, s # {}, s \ {Pick(s)} \in Good PROVE s \in Good
  BY <1>1, <1>4, PickIn DEF IsSum
<1>5. \A s \in SUBSET C : s \in Good
  <2> HIDE DEF Good
  <2> QED BY <1>3, <1>4, SubsetInduction
<1>6. QED
  BY <1>1, <1>5

LEMMA SumType ==
    ASSUME NEW C, IsFiniteSet(C), NEW m \in [C -> Nat]
    PROVE  SumFunctionOnSet(m, C) \in Nat
<1>1. PICK f \in [SUBSET C -> Nat] : SumFunctionOnSet(m, C) = f[C]
  BY SumIs
<1>2. QED
  BY <1>1

(* A term is at most the sum. *)
LEMMA TermInSum ==
    ASSUME NEW C, IsFiniteSet(C), NEW m \in [C -> Nat], NEW c \in C
    PROVE  m[c] <= SumFunctionOnSet(m, C)
<1>1. PICK n \in [C -> Nat] : n = [m EXCEPT ![c] = 0]
  OBVIOUS
<1>2. n[c] = 0 /\ \A d \in C \ {c} : n[d] = m[d]
  BY <1>1
<1>3. QED
  BY <1>2, SumChange

-----------------------------------------------------------------------------
(* What the server has counted for a client that the client does not hold:  *)
(* a destruction that the server has still to hear of, and a grant that the  *)
(* client has still to hear of.                                              *)
NoRequest == [op |-> "none", arg |-> None]

InTransit(c) ==
    IF cpc[c] \in {"connect", "send"} THEN Request(c)
    ELSE IF req[c] # None THEN req[c]
    ELSE IF pc[Server] = "serve" /\ cur = c THEN job
    ELSE NoRequest

Promised(c, o) ==
    /\ cpc[c] = "wait" /\ call[c].op = o
    /\ \/ rsp[c] # None /\ rsp[c].text = "Success"
       \/ pc[Server] = "reply" /\ cur = c /\ answer.text = "Success"

QpsOwed(c) == qps[c] + IF InTransit(c).op = "QP_DESTROY" \/ Promised(c, "QP_CREATE") THEN 1 ELSE 0

MemoryOwed(c) ==
    MemoryOf(c) + IF InTransit(c).op = "MR_DESTROY" THEN InTransit(c).arg
                  ELSE IF Promised(c, "MR_CREATE") THEN call[c].arg ELSE 0

Unmapped == ~mapped => \A t \in Threads : pc[t] \notin {"walk", "node", "qp", "mr"}
RequestRead == pc[Server] \in Serving => req[cur] = None

AllCounted ==
    ~mapped /\ (\A s \in Sizes : MaxMemory + s < Word) =>
        /\ SumFunctionOnSet([c \in Clients |-> QpsOwed(c)], Clients) <= global_qp_count
        /\ global_qp_count <= MaxQp
        /\ SumFunctionOnSet([c \in Clients |-> MemoryOwed(c)], Clients) <= global_memory_used
        /\ global_memory_used <= MaxMemory

GrantsInv == FreshInv /\ Unmapped /\ RequestRead /\ AllCounted

LEMMA FiniteSizes == IsFiniteSet(Clients) /\ IsFiniteSet(Sizes)
<1>1. Sizes \subseteq 0 .. Word - 1 /\ IsFiniteSet(Clients)
  BY CollectorAssumption
<1>2. IsFiniteSet(0 .. Word - 1)
  BY Limits, FS_Interval
<1>3. QED
  BY <1>1, <1>2, FS_Subset

(* What is in transit is a request, and what is owed a number. *)
OwedOK ==
    \A c \in Clients :
        /\ InTransit(c).op = "MR_DESTROY" => InTransit(c).arg \in Sizes
        /\ Promised(c, "MR_CREATE") => call[c].arg \in Sizes
        /\ MemoryOf(c) \in Nat /\ QpsOwed(c) \in Nat /\ MemoryOwed(c) \in Nat

LEMMA Owed == ServerInv => OwedOK
<1> SUFFICES ASSUME ServerInv, NEW c \in Clients
             PROVE  /\ InTransit(c).op = "MR_DESTROY" => InTransit(c).arg \in Sizes
                    /\ Promised(c, "MR_CREATE") => call[c].arg \in Sizes
                    /\ MemoryOf(c) \in Nat /\ QpsOwed(c) \in Nat /\ MemoryOwed(c) \in Nat
  BY DEF OwedOK
<1>a. ClientOK(c) /\ JobOK /\ qps \in [Clients -> Nat] /\ mrs \in [Clients -> [Sizes -> Nat]]
  BY DEF ServerInv, ClientsOK
<1>1. InTransit(c).op = "MR_DESTROY" => InTransit(c).arg \in Sizes
  <2>1. CASE cpc[c] \in {"connect", "send"}
    <3>1. InTransit(c) = Request(c) /\ call[c] \in CallType
      BY <1>a, <2>1 DEF InTransit, ClientOK, Active
    <3>2. QED
      BY <3>1 DEF Request, CallType
  <2>2. CASE cpc[c] \notin {"connect", "send"} /\ req[c] # None
    <3>1. InTransit(c) = req[c] /\ req[c] \in Job
      BY <1>a, <2>2 DEF InTransit, ClientOK
    <3>2. QED
      BY <3>1 DEF Job
  <2>3. CASE cpc[c] \notin {"connect", "send"} /\ req[c] = None /\ pc[Server] = "serve" /\ cur = c
    <3>1. InTransit(c) = job /\ job \in Job
      BY <1>a, <2>3 DEF InTransit, JobOK, Serving
    <3>2. QED
      BY <3>1 DEF Job
  <2>4. CASE cpc[c] \notin {"connect", "send"} /\ req[c] = None /\ ~(pc[Server] = "serve" /\ cur = c)
    BY <2>4 DEF InTransit, NoRequest
  <2>5. QED
    BY <2>1, <2>2, <2>3, <2>4
<1>2. Promised(c, "MR_CREATE") => call[c].arg \in Sizes
  BY <1>a DEF Promised, ClientOK, Active, CallType
<1>3. MemoryOf(c) \in Nat
  <2>1. \A s \in Sizes : s * mrs[c][s] \in Nat
    BY <1>a, Limits
  <2>2. [s \in Sizes |-> s * mrs[c][s]] \in [Sizes -> Nat]
    BY <2>1
  <2>3. QED
    BY <2>2, FiniteSizes, SumType DEF MemoryOf
<1>4. QpsOwed(c) \in Nat
  BY <1>a DEF QpsOwed
<1>5. MemoryOwed(c) \in Nat
  BY <1>1, <1>2, <1>3, Limits DEF MemoryOwed
<1>6. QED
  BY <1>1, <1>2, <1>3, <1>4, <1>5

LEMMA OwedNext == ServerInv' => OwedOK'
  BY Owed, PTL

(* Nothing of what is owed to d changes when neither d nor the server's work for d does. *)
LEMMA QuietOwed ==
    ASSUME NEW d \in Clients,
           cpc'[d] = cpc[d], call'[d] = call[d], req'[d] = req[d], rsp'[d] = rsp[d], qps'[d] = qps[d],
           mrs'[d] = mrs[d],
           (pc'[Server] = "serve" /\ cur' = d) <=> (pc[Server] = "serve" /\ cur = d),
           pc[Server] = "serve" /\ cur = d => job' = job,
           (pc'[Server] = "reply" /\ cur' = d) <=> (pc[Server] = "reply" /\ cur = d),
           pc[Server] = "reply" /\ cur = d => answer' = answer
    PROVE  QpsOwed(d)' = QpsOwed(d) /\ MemoryOwed(d)' = MemoryOwed(d)
<1>1. InTransit(d)' = InTransit(d)
  BY DEF InTransit, Request
<1>2. ASSUME NEW o PROVE Promised(d, o)' <=> Promised(d, o)
  BY DEF Promised
<1>3. MemoryOf(d)' = MemoryOf(d)
  BY DEF MemoryOf
<1>4. QED
  BY <1>1, <1>2, <1>3 DEF QpsOwed, MemoryOwed

(* A step that changes what is owed to one client, and the counts by at least as much. *)
LEMMA Balance ==
    ASSUME GrantsInv, FreshInv', UNCHANGED mapped, Unmapped', RequestRead', NEW c \in Clients,
           \A d \in Clients \ {c} : QpsOwed(d)' = QpsOwed(d) /\ MemoryOwed(d)' = MemoryOwed(d),
           ~mapped /\ (\A s \in Sizes : MaxMemory + s < Word) =>
              /\ QpsOwed(c)' - QpsOwed(c) <= global_qp_count' - global_qp_count
              /\ MemoryOwed(c)' - MemoryOwed(c) <= global_memory_used' - global_memory_used
              /\ global_qp_count' <= MaxQp /\ global_memory_used' <= MaxMemory
    PROVE  GrantsInv'
<1>1. OwedOK /\ OwedOK' /\ CountsOK /\ CountsOK'
  BY Owed, OwedNext DEF GrantsInv, FreshInv, ServerInv
<1>2. AllCounted'
  <2> SUFFICES ASSUME ~mapped, \A s \in Sizes : MaxMemory + s < Word
               PROVE  /\ SumFunctionOnSet([d \in Clients |-> QpsOwed(d)'], Clients) <= global_qp_count'
                      /\ SumFunctionOnSet([d \in Clients |-> MemoryOwed(d)'], Clients) <= global_memory_used'
    BY DEF AllCounted
  <2>1. PICK m, n : m = [d \in Clients |-> QpsOwed(d)] /\ n = [d \in Clients |-> QpsOwed(d)']
    OBVIOUS
  <2>2. PICK k, l : k = [d \in Clients |-> MemoryOwed(d)] /\ l = [d \in Clients |-> MemoryOwed(d)']
    OBVIOUS
  <2>3. /\ m \in [Clients -> Nat] /\ n \in [Clients -> Nat] /\ k \in [Clients -> Nat] /\ l \in [Clients -> Nat]
        /\ \A d \in Clients \ {c} : n[d] = m[d] /\ l[d] = k[d]
        /\ m[c] = QpsOwed(c) /\ n[c] = QpsOwed(c)' /\ k[c] = MemoryOwed(c) /\ l[c] = MemoryOwed(c)'
    BY <1>1, <2>1, <2>2 DEF OwedOK
  <2>4. /\ SumFunctionOnSet(m, Clients) <= global_qp_count
        /\ SumFunctionOnSet(k, Clients) <= global_memory_used
    BY <2>1, <2>2 DEF GrantsInv, AllCounted
  <2>5. /\ SumFunctionOnSet(m, Clients) \in Nat /\ SumFunctionOnSet(n, Clients) \in Nat
        /\ SumFunctionOnSet(n, Clients) = SumFunctionOnSet(m, Clients) - m[c] + n[c]
    BY <2>3, FiniteSizes, SumChange
  <2>6. /\ SumFunctionOnSet(k, Clients) \in Nat /\ SumFunctionOnSet(l, Clients) \in Nat
        /\ SumFunctionOnSet(l, Clients) = SumFunctionOnSet(k, Clients) - k[c] + l[c]
    BY <2>3, FiniteSizes, SumChange
  <2>7. SumFunctionOnSet(n, Clients) <= global_qp_count'
    <3>1. n[c] - m[c] <= global_qp_count' - global_qp_count
      BY <2>3
    <3>2. m[c] \in Nat /\ n[c] \in Nat /\ global_qp_count \in Nat /\ global_qp_count' \in Nat
      BY <2>3, <1>1 DEF CountsOK
    <3>3. QED
      BY <2>4, <2>5, <3>1, <3>2
  <2>8. SumFunctionOnSet(l, Clients) <= global_memory_used'
    <3>1. l[c] - k[c] <= global_memory_used' - global_memory_used
      BY <2>3
    <3>2. k[c] \in Nat /\ l[c] \in Nat /\ global_memory_used \in Nat /\ global_memory_used' \in Nat
      BY <2>3, <1>1 DEF CountsOK
    <3>3. QED
      BY <2>4, <2>6, <3>1, <3>2
  <2>9. QED
    BY <2>1, <2>2, <2>7, <2>8
<1>3. QED
  BY <1>2 DEF GrantsInv

(* A step that changes nothing of the kind. *)
LEMMA Unowed ==
    ASSUME GrantsInv, FreshInv', UNCHANGED mapped, Unmapped', RequestRead',
           \A d \in Clients : QpsOwed(d)' = QpsOwed(d) /\ MemoryOwed(d)' = MemoryOwed(d),
           ~mapped => UNCHANGED <<global_qp_count, global_memory_used>>
    PROVE  GrantsInv'
<1>1. /\ [d \in Clients |-> QpsOwed(d)'] = [d \in Clients |-> QpsOwed(d)]
      /\ [d \in Clients |-> MemoryOwed(d)'] = [d \in Clients |-> MemoryOwed(d)]
  OBVIOUS
<1>2. AllCounted'
  BY <1>1 DEF GrantsInv, AllCounted
<1>3. QED
  BY <1>2 DEF GrantsInv

(* One step of a client that does not touch the counts. *)
LEMMA ClientBalance ==
    ASSUME GrantsInv, FreshInv', NEW c \in Clients,
           UNCHANGED <<countVars, threadVars, serveVars, kernelVars>>,
           \A d \in Clients \ {c} :
               /\ cpc'[d] = cpc[d] /\ call'[d] = call[d] /\ req'[d] = req[d] /\ rsp'[d] = rsp[d]
               /\ qps'[d] = qps[d] /\ mrs'[d] = mrs[d],
           QpsOwed(c)' <= QpsOwed(c), MemoryOwed(c)' <= MemoryOwed(c),
           pc[Server] \in Serving /\ cur = c => req'[c] = req[c]
    PROVE  GrantsInv'
<1>a. UNCHANGED <<pc, global_qp_count, global_memory_used, cur, job, answer, mapped>>
  BY DEF countVars, threadVars, serveVars, kernelVars
<1>1. \A d \in Clients \ {c} : QpsOwed(d)' = QpsOwed(d) /\ MemoryOwed(d)' = MemoryOwed(d)
  BY <1>a, QuietOwed
<1>2. Unmapped' /\ RequestRead'
  <2>1. pc[Server] \in Serving => cur \in Clients
    BY DEF GrantsInv, FreshInv, ServerInv, LinksOK
  <2>2. QED
    BY <1>a, <2>1 DEF GrantsInv, Unmapped, RequestRead
<1>3. /\ QpsOwed(c) \in Nat /\ MemoryOwed(c) \in Nat /\ QpsOwed(c)' \in Nat /\ MemoryOwed(c)' \in Nat
      /\ global_qp_count \in Nat /\ global_memory_used \in Nat
  BY Owed, OwedNext DEF GrantsInv, FreshInv, ServerInv, OwedOK, CountsOK
<1>4. ~mapped /\ (\A s \in Sizes : MaxMemory + s < Word) =>
              /\ QpsOwed(c)' - QpsOwed(c) <= global_qp_count' - global_qp_count
              /\ MemoryOwed(c)' - MemoryOwed(c) <= global_memory_used' - global_memory_used
              /\ global_qp_count' <= MaxQp /\ global_memory_used' <= MaxMemory
  BY <1>a, <1>3 DEF GrantsInv, AllCounted
<1>5. QED
  BY <1>a, <1>1, <1>2, <1>4, Balance

(* A step of the server or the kernel outside "serve" and "reply". *)
LEMMA ServerQuiet ==
    ASSUME GrantsInv, FreshInv', UNCHANGED <<mapped, cpc, call, req, rsp, qps, mrs>>,
           ~mapped => UNCHANGED <<global_qp_count, global_memory_used>>, Unmapped',
           \/ pc[Server] \notin {"serve", "reply"} /\ pc'[Server] \notin {"serve", "reply"}
           \/ pc'[Server] = pc[Server] /\ UNCHANGED <<cur, job, answer>>,
           pc'[Server] \in Serving => pc[Server] \in Serving /\ cur' = cur
    PROVE  GrantsInv'
<1>1. ASSUME NEW d \in Clients PROVE QpsOwed(d)' = QpsOwed(d) /\ MemoryOwed(d)' = MemoryOwed(d)
  BY QuietOwed
<1>2. RequestRead'
  BY DEF GrantsInv, RequestRead
<1>3. QED
  BY <1>1, <1>2, Unowed

LEMMA GrantsSync ==
    ASSUME GrantsInv, NEW t \in Threads, SyncStep(t)
    PROVE  GrantsInv'
<1>a. UNCHANGED <<mapped, cpc, call, req, rsp, qps, mrs, cur, job, answer>>
  BY DEF SyncStep, serveVars, linkVars, clientVars, kernelVars
<1>b. FreshInv' /\ ThreadsOK /\ CountsOK /\ KernelOK
  BY SyncFresh DEF GrantsInv, FreshInv, ServerInv
<1>c. /\ pc[t] \in Section \cup {"lock"}
      /\ pc'[t] \in Section \cup {IF t = Server THEN "count" ELSE "check"}
      /\ \A s \in Threads \ {t} : pc'[s] = pc[s]
  BY <1>b, SyncThreads
<1>1. ASSUME ~mapped
      PROVE  /\ UNCHANGED <<global_qp_count, global_memory_used>>
             /\ \A s \in Threads : pc'[s] \notin {"walk", "node", "qp", "mr"}
  <2>1. \A s \in Threads : pc[s] \notin {"walk", "node", "qp", "mr"}
    BY <1>1 DEF GrantsInv, Unmapped
  <2>2. SyncLock(t) \/ SyncUnlock(t)
    BY <2>1 DEF SyncStep, SyncLookup, SyncNode, SyncGlobal, SyncQp, SyncMemory
  <2>3. UNCHANGED <<global_qp_count, global_memory_used>> /\ pc'[t] \in {"unlock", "count", "check"}
    BY <1>1, <1>b, <2>2 DEF SyncLock, SyncUnlock, countVars, Goto, ThreadsOK
  <2>4. QED
    BY <1>c, <2>1, <2>3
<1>2. Unmapped'
  BY <1>1, <1>a DEF Unmapped
<1>3. /\ \/ pc[Server] \notin {"serve", "reply"} /\ pc'[Server] \notin {"serve", "reply"}
         \/ pc'[Server] = pc[Server]
      /\ pc'[Server] \in Serving => pc[Server] \in Serving
  BY <1>c, ThreadNames DEF Section, Serving, Counting
<1>4. QED
  BY <1>a, <1>b, <1>1, <1>2, <1>3, ServerQuiet

LEMMA GrantsIdle ==
    ASSUME GrantsInv, SyncThread \/ Listen \/ Loop \/ signal_handler \/ Join
    PROVE  GrantsInv'
<1>a. UNCHANGED <<mapped, cpc, call, req, rsp, qps, mrs, cur, job, answer, global_qp_count, global_memory_used>>
  BY DEF SyncThread, Listen, Loop, signal_handler, Join, countVars, serveVars, linkVars, clientVars, kernelVars
<1>b. FreshInv' /\ pc \in [Threads -> ServerLabels \cup SyncerLabels]
  BY IdleSteps DEF GrantsInv, FreshInv, ServerInv, ThreadsOK
<1>1. \/ pc'[Server] = pc[Server] /\ pc'[Syncer] \in {pc[Syncer], "lock", "done"}
      \/ /\ pc'[Syncer] = pc[Syncer] /\ pc[Server] \in {"listen", "loop", "select", "join"}
         /\ pc'[Server] \in {"loop", "cleanup", "select", "down"}
  BY <1>b, ThreadNames DEF SyncThread, Listen, Loop, signal_handler, Join, Goto
<1>2. Unmapped'
  BY <1>a, <1>1, ThreadNames DEF GrantsInv, Unmapped
<1>3. QED
  BY <1>a, <1>b, <1>1, <1>2, ServerQuiet DEF Serving, Counting, Section

LEMMA GrantsAccept ==
    ASSUME GrantsInv, Accept
    PROVE  GrantsInv'
<1>a. /\ pc[Server] = "select" /\ pc' = [pc EXCEPT ![Server] = "read"]
      /\ UNCHANGED <<mapped, cpc, call, req, rsp, qps, mrs, global_qp_count, global_memory_used>>
  BY DEF Accept, Goto, countVars, clientVars, kernelVars
<1>b. FreshInv' /\ pc \in [Threads -> ServerLabels \cup SyncerLabels]
  BY AcceptStep DEF GrantsInv, FreshInv, ServerInv, ThreadsOK
<1>1. pc'[Server] = "read" /\ pc'[Syncer] = pc[Syncer]
  BY <1>a, <1>b, ThreadNames
<1>2. Unmapped'
  BY <1>a, <1>1, ThreadNames DEF GrantsInv, Unmapped
<1>3. QED
  BY <1>a, <1>b, <1>1, <1>2, ServerQuiet DEF Serving, Counting, Section

LEMMA GrantsKernel ==
    ASSUME GrantsInv, KernelCounts
    PROVE  GrantsInv'
<1>a. UNCHANGED <<mapped, cpc, call, req, rsp, qps, mrs, pc, cur, job, answer, global_qp_count, global_memory_used>>
  BY DEF KernelCounts, countVars, threadVars, serveVars, linkVars, clientVars
<1>b. FreshInv'
  BY KernelStep DEF GrantsInv
<1>1. Unmapped'
  BY <1>a DEF GrantsInv, Unmapped
<1>2. QED
  BY <1>a, <1>b, <1>1, ServerQuiet

(* Read: the request moves from the connection to the job. *)
LEMMA GrantsRead ==
    ASSUME GrantsInv, Read
    PROVE  GrantsInv'
<1>a. /\ pc[Server] = "read"
      /\ UNCHANGED <<mapped, cpc, call, rsp, qps, mrs, global_qp_count, global_memory_used>>
  BY DEF Read, countVars, clientVars, kernelVars
<1>b. FreshInv' /\ pc \in [Threads -> ServerLabels \cup SyncerLabels]
  BY ReadStep DEF GrantsInv, FreshInv, ServerInv, ThreadsOK
<1>c. cur \in Clients /\ ClientOK(cur) /\ DOMAIN req = Clients
  BY <1>a DEF GrantsInv, FreshInv, ServerInv, LinksOK, ClientsOK
<1>1. pc'[Syncer] = pc[Syncer] /\ pc'[Server] \in {"lock", "serve", "loop"}
  BY <1>b, ThreadNames DEF Read, Goto
<1>2. Unmapped'
  BY <1>a, <1>1, ThreadNames DEF GrantsInv, Unmapped
<1>3. CASE /\ req[cur] # None /\ job' = req[cur] /\ req' = [req EXCEPT ![cur] = None]
           /\ pc' = [pc EXCEPT ![Server] = IF req[cur].op \in Asking THEN "lock" ELSE "serve"]
           /\ UNCHANGED cur
  <2>1. pc'[Server] = IF req[cur].op \in Asking THEN "lock" ELSE "serve"
    BY <1>3, <1>b, ThreadNames
  <2>2. req'[cur] = None /\ \A d \in Clients \ {cur} : req'[d] = req[d]
    BY <1>3, <1>c
  <2>3. RequestRead'
    BY <1>3, <2>2 DEF RequestRead
  <2>4. ASSUME NEW d \in Clients PROVE QpsOwed(d)' = QpsOwed(d) /\ MemoryOwed(d)' = MemoryOwed(d)
    <3>1. CASE d # cur
      BY <1>3, <1>a, <2>1, <2>2, <3>1, QuietOwed
    <3>2. CASE d = cur
      <4>1. cpc[d] \in {"wait", "dead"} /\ InTransit(d) = req[d]
        BY <1>3, <1>c, <3>2 DEF InTransit, ClientOK
      <4>2. /\ req[d].op \notin Asking => InTransit(d)' = req[d]
            /\ req[d].op \in Asking => InTransit(d)' = NoRequest
        BY <1>3, <1>a, <2>1, <2>2, <3>2, <4>1 DEF InTransit
      <4>3. ASSUME NEW o PROVE Promised(d, o)' <=> Promised(d, o)
        BY <1>a, <2>1 DEF Promised
      <4>4. MemoryOf(d)' = MemoryOf(d)
        BY <1>a DEF MemoryOf
      <4>5. CASE req[d].op \in Asking
        BY <1>a, <4>1, <4>2, <4>3, <4>4, <4>5 DEF QpsOwed, MemoryOwed, NoRequest, Asking
      <4>6. CASE req[d].op \notin Asking
        BY <1>a, <4>1, <4>2, <4>3, <4>4, <4>6 DEF QpsOwed, MemoryOwed
      <4>7. QED
        BY <4>5, <4>6
    <3>3. QED
      BY <3>1, <3>2
  <2>5. QED
    BY <1>a, <1>b, <1>2, <2>3, <2>4, Unowed
<1>4. CASE pc' = [pc EXCEPT ![Server] = "loop"] /\ UNCHANGED req
  <2>1. pc'[Server] = "loop"
    BY <1>4, <1>b, ThreadNames
  <2>2. QED
    BY <1>a, <1>b, <1>2, <1>4, <2>1, ServerQuiet DEF Serving, Counting, Section
<1>5. QED
  BY <1>3, <1>4 DEF Read, Goto, Asking

LEMMA OwedCounted ==
    ASSUME GrantsInv, ~mapped, \A s \in Sizes : MaxMemory + s < Word, NEW c \in Clients
    PROVE  QpsOwed(c) <= global_qp_count /\ MemoryOwed(c) <= global_memory_used
<1>1. OwedOK /\ CountsOK
  BY Owed DEF GrantsInv, FreshInv, ServerInv
<1>2. PICK m, k : m = [d \in Clients |-> QpsOwed(d)] /\ k = [d \in Clients |-> MemoryOwed(d)]
  OBVIOUS
<1>3. m \in [Clients -> Nat] /\ k \in [Clients -> Nat] /\ m[c] = QpsOwed(c) /\ k[c] = MemoryOwed(c)
  BY <1>1, <1>2 DEF OwedOK
<1>4. /\ SumFunctionOnSet(m, Clients) <= global_qp_count
      /\ SumFunctionOnSet(k, Clients) <= global_memory_used
  BY <1>2 DEF GrantsInv, AllCounted
<1>5. /\ m[c] <= SumFunctionOnSet(m, Clients) /\ k[c] <= SumFunctionOnSet(k, Clients)
      /\ SumFunctionOnSet(m, Clients) \in Nat /\ SumFunctionOnSet(k, Clients) \in Nat
  BY <1>3, FiniteSizes, TermInSum, SumType
<1>6. m[c] \in Nat /\ k[c] \in Nat /\ global_qp_count \in Nat /\ global_memory_used \in Nat
  BY <1>1, <1>3 DEF CountsOK
<1>7. QED
  BY <1>3, <1>4, <1>5, <1>6

(* Serve: the counts move with what is owed to the client that is served. *)
LEMMA GrantsServe ==
    ASSUME GrantsInv, Serve
    PROVE  GrantsInv'
<1>a. /\ pc[Server] = "serve" /\ pc' = [pc EXCEPT ![Server] = "reply"]
      /\ QpCreate \/ QpDestroy \/ MrCreate \/ CheckMemory \/ MrDestroy
      /\ UNCHANGED <<mapped, cpc, call, req, rsp, qps, mrs, cur, job>>
  BY DEF Serve, Goto, linkVars, clientVars, kernelVars
<1>b. /\ FreshInv' /\ pc \in [Threads -> ServerLabels \cup SyncerLabels]
      /\ LinksOK /\ JobOK /\ CountsOK /\ CountsOK' /\ OwedOK /\ OwedOK'
  BY ServeStep, Owed, OwedNext DEF GrantsInv, FreshInv, ServerInv, ThreadsOK
<1>c. cur \in Clients /\ ClientOK(cur) /\ pc[Server] \in Serving /\ link[cur] = "open" /\ req[cur] = None
  BY <1>a, <1>b DEF GrantsInv, FreshInv, ServerInv, LinksOK, ClientsOK, Serving, RequestRead
<1>d. /\ job \in Job /\ job.op \notin Asking /\ rsp[cur] = None
      /\ cpc[cur] = "dead" \/ (cpc[cur] = "wait" /\ job = Request(cur))
  BY <1>a, <1>b, <1>c DEF JobOK, ClientOK
<1>1. pc'[Server] = "reply" /\ pc'[Syncer] = pc[Syncer]
  BY <1>a, <1>b, ThreadNames
<1>2. Unmapped' /\ RequestRead'
  BY <1>a, <1>1, <1>c, ThreadNames DEF GrantsInv, Unmapped, RequestRead
<1>3. \A d \in Clients \ {cur} : QpsOwed(d)' = QpsOwed(d) /\ MemoryOwed(d)' = MemoryOwed(d)
  BY <1>a, <1>1, QuietOwed
<1>4. InTransit(cur) = job /\ InTransit(cur)' = NoRequest /\ MemoryOf(cur)' = MemoryOf(cur)
  BY <1>a, <1>1, <1>c, <1>d DEF InTransit, MemoryOf
<1>5. ASSUME NEW o PROVE ~Promised(cur, o)
  BY <1>a, <1>d DEF Promised
<1>6. ASSUME NEW o \in {"QP_CREATE", "MR_CREATE"}, Promised(cur, o)'
      PROVE  job.op = o /\ job.arg = call[cur].arg /\ answer'.text = "Success"
  BY <1>6, <1>a, <1>d DEF Promised, Request
<1>7. /\ QpsOwed(cur) = qps[cur] + IF job.op = "QP_DESTROY" THEN 1 ELSE 0
      /\ MemoryOwed(cur) = MemoryOf(cur) + IF job.op = "MR_DESTROY" THEN job.arg ELSE 0
  BY <1>4, <1>5 DEF QpsOwed, MemoryOwed
<1>8. /\ qps[cur] \in Nat /\ MemoryOf(cur) \in Nat
      /\ QpsOwed(cur)' <= qps[cur] + IF job.op = "QP_CREATE" /\ answer'.text = "Success" THEN 1 ELSE 0
      /\ MemoryOwed(cur)' <= MemoryOf(cur) + IF job.op = "MR_CREATE" /\ answer'.text = "Success" THEN job.arg ELSE 0
  <2>1. qps[cur] \in Nat /\ MemoryOf(cur) \in Nat
    BY <1>b, <1>c DEF OwedOK, GrantsInv, FreshInv, ServerInv, ClientsOK
  <2>2. /\ QpsOwed(cur)' = qps[cur] + IF Promised(cur, "QP_CREATE")' THEN 1 ELSE 0
        /\ MemoryOwed(cur)' = MemoryOf(cur) + IF Promised(cur, "MR_CREATE")' THEN call[cur].arg ELSE 0
    BY <1>a, <1>4 DEF QpsOwed, MemoryOwed, NoRequest
  <2>3. job.op = "MR_CREATE" => job.arg \in Nat
    BY <1>d, Limits DEF Job
  <2>4. QpsOwed(cur)' <= qps[cur] + IF job.op = "QP_CREATE" /\ answer'.text = "Success" THEN 1 ELSE 0
    BY <2>1, <2>2, <1>6
  <2>5. MemoryOwed(cur)' <= MemoryOf(cur) + IF job.op = "MR_CREATE" /\ answer'.text = "Success" THEN job.arg ELSE 0
    BY <2>1, <2>2, <2>3, <1>6
  <2>6. QED
    BY <2>1, <2>4, <2>5
<1>9. ASSUME ~mapped, \A s \in Sizes : MaxMemory + s < Word
      PROVE  /\ QpsOwed(cur)' - QpsOwed(cur) <= global_qp_count' - global_qp_count
             /\ MemoryOwed(cur)' - MemoryOwed(cur) <= global_memory_used' - global_memory_used
             /\ global_qp_count' <= MaxQp /\ global_memory_used' <= MaxMemory
  <2>a. /\ QpsOwed(cur) \in Nat /\ MemoryOwed(cur) \in Nat /\ QpsOwed(cur)' \in Nat /\ MemoryOwed(cur)' \in Nat
        /\ global_qp_count \in Nat /\ global_memory_used \in Nat
        /\ qps[cur] \in Nat /\ MemoryOf(cur) \in Nat
    <3>1. PICK c \in Clients : c = cur /\ c = cur'
      BY <1>a, <1>c
    <3>2. QpsOwed(c) \in Nat /\ MemoryOwed(c) \in Nat /\ QpsOwed(c)' \in Nat /\ MemoryOwed(c)' \in Nat
      BY <1>b DEF OwedOK
    <3>3. QpsOwed(c)' = QpsOwed(cur)' /\ MemoryOwed(c)' = MemoryOwed(cur)'
      BY <3>1
    <3>4. global_qp_count \in Nat /\ global_memory_used \in Nat
      BY <1>b DEF CountsOK
    <3>5. QED
      BY <1>8, <3>1, <3>2, <3>3, <3>4
  <2>b. global_qp_count <= MaxQp /\ global_memory_used <= MaxMemory /\ MaxQp \in Nat /\ MaxMemory \in Nat
    BY <1>9, CollectorAssumption DEF GrantsInv, AllCounted
  <2>c. job.op \in {"MR_CREATE", "MR_DESTROY"} => job.arg \in Nat /\ job.arg \in Sizes
    BY <1>d, Limits DEF Job
  <2>d. QpsOwed(cur) <= global_qp_count /\ MemoryOwed(cur) <= global_memory_used
    BY <1>9, <1>c, OwedCounted
  <2>1. CASE QpCreate
    <3>1. /\ job.op = "QP_CREATE" /\ UNCHANGED global_memory_used
          /\ \/ answer'.text = "Error" /\ global_qp_count' = global_qp_count
             \/ global_qp_count < MaxQp /\ global_qp_count' = global_qp_count + 1
      BY <2>1 DEF QpCreate, Respond, Answer
    <3>2. QpsOwed(cur) = qps[cur] /\ MemoryOwed(cur) = MemoryOf(cur) /\ MemoryOwed(cur)' <= MemoryOf(cur)
      BY <1>7, <1>8, <2>a, <3>1
    <3>3. /\ QpsOwed(cur)' <= qps[cur] + 1 /\ (answer'.text = "Error" => QpsOwed(cur)' <= qps[cur])
      BY <1>8, <2>a, <3>1
    <3>4. QED
      BY <2>a, <2>b, <3>1, <3>2, <3>3
  <2>2. CASE QpDestroy
    <3>1. /\ job.op = "QP_DESTROY" /\ UNCHANGED global_memory_used
          /\ global_qp_count' = IF global_qp_count > 0 THEN global_qp_count - 1 ELSE 0
      BY <2>2 DEF QpDestroy
    <3>2. QpsOwed(cur) = qps[cur] + 1 /\ MemoryOwed(cur) = MemoryOf(cur)
      BY <1>7, <2>a, <3>1
    <3>3. MemoryOwed(cur)' <= MemoryOf(cur) /\ QpsOwed(cur)' <= qps[cur]
      BY <1>8, <2>a, <3>1
    <3>4. QED
      BY <2>a, <2>b, <2>d, <3>1, <3>2, <3>3
  <2>3. CASE MrCreate
    <3>1. /\ job.op = "MR_CREATE" /\ UNCHANGED global_qp_count
          /\ \/ answer'.text = "Error" /\ global_memory_used' = global_memory_used
             \/ /\ (global_memory_used + job.arg) % Word <= MaxMemory
                /\ global_memory_used' = (global_memory_used + job.arg) % Word
      BY <2>3 DEF MrCreate, Respond, Answer, MemoryFits
    <3>2. QpsOwed(cur) = qps[cur] /\ MemoryOwed(cur) = MemoryOf(cur) /\ QpsOwed(cur)' <= qps[cur]
      BY <1>7, <1>8, <2>a, <3>1
    <3>3. /\ MemoryOwed(cur)' <= MemoryOf(cur) + job.arg
          /\ (answer'.text = "Error" => MemoryOwed(cur)' <= MemoryOf(cur))
      BY <1>8, <2>a, <2>c, <3>1
    <3>4. (global_memory_used + job.arg) % Word = global_memory_used + job.arg
      <4>1. job.arg \in Nat /\ MaxMemory + job.arg < Word /\ Word \in Nat
        BY <1>9, <2>c, <3>1, Limits
      <4>2. global_memory_used + job.arg \in 0 .. Word - 1
        BY <2>a, <2>b, <4>1
      <4>3. QED
        BY <4>1, <4>2
    <3>5. QED
      BY <2>a, <2>b, <2>c, <3>1, <3>2, <3>3, <3>4
  <2>4. CASE CheckMemory
    <3>1. job.op = "CHECK_MEMORY" /\ UNCHANGED <<global_qp_count, global_memory_used>>
      BY <2>4 DEF CheckMemory, countVars
    <3>2. QpsOwed(cur) = qps[cur] /\ MemoryOwed(cur) = MemoryOf(cur)
      BY <1>7, <2>a, <3>1
    <3>3. MemoryOwed(cur)' <= MemoryOf(cur) /\ QpsOwed(cur)' <= qps[cur]
      BY <1>8, <2>a, <3>1
    <3>4. QED
      BY <2>a, <2>b, <3>1, <3>2, <3>3
  <2>5. CASE MrDestroy
    <3>1. /\ job.op = "MR_DESTROY" /\ UNCHANGED global_qp_count
          /\ global_memory_used' = IF global_memory_used >= job.arg THEN global_memory_used - job.arg
                                   ELSE global_memory_used
      BY <2>5 DEF MrDestroy
    <3>2. QpsOwed(cur) = qps[cur] /\ MemoryOwed(cur) = MemoryOf(cur) + job.arg /\ job.arg \in Nat
      BY <1>7, <2>a, <2>c, <3>1
    <3>3. MemoryOwed(cur)' <= MemoryOf(cur) /\ QpsOwed(cur)' <= qps[cur]
      BY <1>8, <2>a, <3>1
    <3>4. QED
      BY <2>a, <2>b, <2>d, <3>1, <3>2, <3>3
  <2>6. QED
    BY <1>a, <2>1, <2>2, <2>3, <2>4, <2>5
<1>10. QED
  BY <1>a, <1>b, <1>c, <1>2, <1>3, <1>9, Balance

(* A step that takes from what is owed to c, or leaves it. *)
LEMMA LessOwed ==
    ASSUME ServerInv, NEW c \in Clients, qps'[c] = qps[c], mrs'[c] = mrs[c], call'[c] = call[c],
           \/ InTransit(c)' = InTransit(c)
           \/ InTransit(c)' = NoRequest /\ ~Promised(c, "QP_CREATE") /\ ~Promised(c, "MR_CREATE"),
           \A o \in {"QP_CREATE", "MR_CREATE"} : Promised(c, o)' => Promised(c, o)
    PROVE  QpsOwed(c)' <= QpsOwed(c) /\ MemoryOwed(c)' <= MemoryOwed(c)
<1>1. /\ InTransit(c).op = "MR_DESTROY" => InTransit(c).arg \in Nat
      /\ Promised(c, "MR_CREATE") => call[c].arg \in Nat
      /\ MemoryOf(c) \in Nat /\ qps[c] \in Nat
  BY Owed, Limits DEF OwedOK, ServerInv, ClientsOK
<1>2. MemoryOf(c)' = MemoryOf(c)
  BY DEF MemoryOf
<1>3. QpsOwed(c)' <= QpsOwed(c)
  BY <1>1 DEF QpsOwed, NoRequest
<1>4. MemoryOwed(c)' <= MemoryOwed(c)
  BY <1>1, <1>2 DEF MemoryOwed, NoRequest
<1>5. QED
  BY <1>3, <1>4

(* A step of the server, counts unchanged, after which no more is owed to the client that it serves. *)
LEMMA ServedBalance ==
    ASSUME GrantsInv, FreshInv', UNCHANGED <<mapped, cpc, call, req, qps, mrs, global_qp_count, global_memory_used>>,
           Unmapped', RequestRead', NEW c \in Clients, c = cur,
           \A d \in Clients \ {c} :
               /\ rsp'[d] = rsp[d]
               /\ ~(pc'[Server] \in {"serve", "reply"} /\ cur' = d),
           \/ InTransit(c)' = InTransit(c)
           \/ InTransit(c)' = NoRequest /\ ~Promised(c, "QP_CREATE") /\ ~Promised(c, "MR_CREATE"),
           \A o \in {"QP_CREATE", "MR_CREATE"} : Promised(c, o)' => Promised(c, o)
    PROVE  GrantsInv'
<1>1. \A d \in Clients \ {c} : QpsOwed(d)' = QpsOwed(d) /\ MemoryOwed(d)' = MemoryOwed(d)
  BY QuietOwed
<1>2. QpsOwed(c)' <= QpsOwed(c) /\ MemoryOwed(c)' <= MemoryOwed(c)
  BY LessOwed DEF GrantsInv, FreshInv
<1>3. /\ QpsOwed(c) \in Nat /\ MemoryOwed(c) \in Nat /\ QpsOwed(c)' \in Nat /\ MemoryOwed(c)' \in Nat
      /\ global_qp_count \in Nat /\ global_memory_used \in Nat
  BY Owed, OwedNext DEF GrantsInv, FreshInv, ServerInv, OwedOK, CountsOK
<1>4. ~mapped /\ (\A s \in Sizes : MaxMemory + s < Word) =>
              /\ QpsOwed(c)' - QpsOwed(c) <= global_qp_count' - global_qp_count
              /\ MemoryOwed(c)' - MemoryOwed(c) <= global_memory_used' - global_memory_used
              /\ global_qp_count' <= MaxQp /\ global_memory_used' <= MaxMemory
  BY <1>2, <1>3 DEF GrantsInv, AllCounted
<1>5. QED
  BY <1>1, <1>4, Balance

(* Statistics: a client that asks has been promised nothing. *)
LEMMA GrantsStatistics ==
    ASSUME GrantsInv, Statistics
    PROVE  GrantsInv'
<1>a. /\ pc[Server] \in {"count", "memory"}
      /\ pc' = [pc EXCEPT ![Server] = "memory"] \/ pc' = [pc EXCEPT ![Server] = "reply"]
      /\ UNCHANGED <<mapped, cpc, call, req, rsp, qps, mrs, cur, job, global_qp_count, global_memory_used>>
  BY DEF Statistics, CountQp, CountMemory, get_process_resource_usage, Goto, countVars, linkVars, clientVars, kernelVars
<1>b. /\ FreshInv' /\ pc \in [Threads -> ServerLabels \cup SyncerLabels] /\ LinksOK /\ JobOK
  BY StatisticsStep DEF GrantsInv, FreshInv, ServerInv, ThreadsOK
<1>c. PICK c \in Clients : c = cur
  BY <1>a, <1>b DEF LinksOK, Serving, Counting
<1>d. job.op \in Asking /\ (cpc[c] = "dead" \/ (cpc[c] = "wait" /\ job = Request(c)))
  BY <1>a, <1>b, <1>c DEF JobOK, Serving, Counting
<1>1. pc'[Server] \in {"memory", "reply"} /\ pc'[Syncer] = pc[Syncer]
  BY <1>a, <1>b, ThreadNames
<1>2. Unmapped' /\ RequestRead'
  BY <1>a, <1>1, ThreadNames DEF GrantsInv, Unmapped, RequestRead, Serving, Counting
<1>3. InTransit(c)' = InTransit(c)
  BY <1>a, <1>1 DEF InTransit, Request
<1>4. \A o \in {"QP_CREATE", "MR_CREATE"} : ~Promised(c, o)' \/ Promised(c, o)
  <2> SUFFICES ASSUME NEW o \in {"QP_CREATE", "MR_CREATE"}, Promised(c, o)' PROVE Promised(c, o)
    OBVIOUS
  <2>1. cpc[c] = "wait" /\ call[c].op = o
    BY <1>a DEF Promised
  <2>2. FALSE
    BY <1>d, <2>1 DEF Request, Asking
  <2>3. QED
    BY <2>2
<1>5. QED
  BY <1>a, <1>b, <1>c, <1>2, <1>3, <1>4, ServedBalance

(* Reply: the promise moves from the server's answer to the connection. *)
LEMMA GrantsReply ==
    ASSUME GrantsInv, Reply
    PROVE  GrantsInv'
<1>a. /\ pc[Server] = "reply" /\ cpc[cur] # "dead" /\ pc' = [pc EXCEPT ![Server] = "loop"]
      /\ rsp' = [rsp EXCEPT ![cur] = answer]
      /\ UNCHANGED <<mapped, cpc, call, req, qps, mrs, global_qp_count, global_memory_used>>
  BY DEF Reply, Goto, countVars, clientVars, kernelVars
<1>b. /\ FreshInv' /\ pc \in [Threads -> ServerLabels \cup SyncerLabels] /\ LinksOK /\ JobOK /\ DOMAIN rsp = Clients
  BY ReplyStep DEF GrantsInv, FreshInv, ServerInv, ThreadsOK, ClientsOK
<1>c. PICK c \in Clients : c = cur
  BY <1>a, <1>b DEF LinksOK, Serving
<1>d. cpc[c] = "wait" /\ req[c] = None
  BY <1>a, <1>b, <1>c DEF JobOK, Serving, GrantsInv, RequestRead
<1>1. pc'[Server] = "loop" /\ pc'[Syncer] = pc[Syncer]
  BY <1>a, <1>b, ThreadNames
<1>2. Unmapped' /\ RequestRead'
  BY <1>a, <1>1, ThreadNames DEF GrantsInv, Unmapped, RequestRead, Serving, Counting, Section
<1>3. InTransit(c)' = InTransit(c)
  BY <1>a, <1>d, <1>1 DEF InTransit, Request
<1>4. \A o \in {"QP_CREATE", "MR_CREATE"} : ~Promised(c, o)' \/ Promised(c, o)
  BY <1>a, <1>b, <1>c, <1>1 DEF Promised
<1>5. \A d \in Clients \ {c} : rsp'[d] = rsp[d] /\ ~(pc'[Server] \in {"serve", "reply"} /\ cur' = d)
  BY <1>a, <1>b, <1>c, <1>1
<1>6. QED
  BY <1>a, <1>b, <1>c, <1>2, <1>3, <1>4, <1>5, ServedBalance

(* The server ends: it takes with it what it has not answered. *)
LEMMA GrantsEnd ==
    ASSUME GrantsInv, BrokenPipe \/ Kill \/ Cleanup
    PROVE  GrantsInv'
<1>a. UNCHANGED <<mapped, cpc, call, req, rsp, qps, mrs, global_qp_count, global_memory_used>>
  BY DEF BrokenPipe, Kill, Cleanup, Die, countVars, clientVars, kernelVars
<1>b. FreshInv' /\ pc \in [Threads -> ServerLabels \cup SyncerLabels] /\ LinksOK /\ JobOK
  BY EndSteps DEF GrantsInv, FreshInv, ServerInv, ThreadsOK
<1>1. pc'[Server] \in {"down", "join"} /\ pc'[Syncer] \in {"done", pc[Syncer]}
  BY <1>b, ThreadNames DEF BrokenPipe, Kill, Cleanup, Die, Goto
<1>2. Unmapped' /\ RequestRead'
  BY <1>a, <1>1, ThreadNames DEF GrantsInv, Unmapped, RequestRead, Serving, Counting, Section
<1>3. CASE pc[Server] \notin {"serve", "reply"}
  BY <1>a, <1>b, <1>1, <1>2, <1>3, ServerQuiet DEF Serving, Counting, Section
<1>4. CASE pc[Server] \in {"serve", "reply"}
  <2>1. PICK c \in Clients : c = cur
    BY <1>4, <1>b DEF LinksOK, Serving
  <2>2. /\ cpc[c] = "dead" \/ (cpc[c] = "wait" /\ job = Request(c))
        /\ req[c] = None /\ link[c] = "open"
    BY <1>4, <1>b, <2>1 DEF JobOK, LinksOK, Serving, GrantsInv, RequestRead
  <2>3. InTransit(c)' = NoRequest
    BY <1>a, <1>1, <2>2 DEF InTransit
  <2>4. \A o \in {"QP_CREATE", "MR_CREATE"} : ~Promised(c, o)' \/ Promised(c, o)
    BY <1>a, <1>1 DEF Promised
  <2>5. CASE pc[Server] = "reply"
    <3>1. InTransit(c) = NoRequest
      BY <2>2, <2>5 DEF InTransit
    <3>2. QED
      BY <1>a, <1>b, <1>1, <1>2, <2>1, <2>3, <2>4, <3>1, ServedBalance
  <2>6. CASE pc[Server] = "serve"
    <3>1. rsp[c] = None
      BY <2>2 DEF GrantsInv, FreshInv, ServerInv, ClientsOK, ClientOK
    <3>2. \A o \in {"QP_CREATE", "MR_CREATE"} : ~Promised(c, o)
      BY <2>6, <3>1 DEF Promised
    <3>3. QED
      BY <1>a, <1>b, <1>1, <1>2, <2>1, <2>3, <2>4, <3>2, ServedBalance
  <2>7. QED
    BY <1>4, <2>5, <2>6
<1>5. QED
  BY <1>3, <1>4

-----------------------------------------------------------------------------
(* The number of registrations of one length changes, and the memory of the client with it. *)
LEMMA MemoryChange ==
    ASSUME NEW c \in Clients, mrs[c] \in [Sizes -> Nat], mrs'[c] \in [Sizes -> Nat], NEW s \in Sizes,
           \A u \in Sizes \ {s} : mrs'[c][u] = mrs[c][u]
    PROVE  /\ MemoryOf(c) \in Nat /\ MemoryOf(c)' \in Nat /\ s \in Nat
           /\ mrs'[c][s] = mrs[c][s] => MemoryOf(c)' = MemoryOf(c)
           /\ mrs'[c][s] = mrs[c][s] + 1 => MemoryOf(c)' = MemoryOf(c) + s
           /\ mrs'[c][s] = mrs[c][s] - 1 => MemoryOf(c)' = MemoryOf(c) - s
<1>1. PICK k, l : k = [u \in Sizes |-> u * mrs[c][u]] /\ l = [u \in Sizes |-> u * mrs'[c][u]]
  OBVIOUS
<1>2. Sizes \subseteq Nat /\ s \in Nat
  BY Limits
<1>3. k \in [Sizes -> Nat] /\ l \in [Sizes -> Nat] /\ \A u \in Sizes \ {s} : l[u] = k[u]
  <2>1. \A u \in Sizes : u * mrs[c][u] \in Nat /\ u * mrs'[c][u] \in Nat
    BY <1>2
  <2>2. QED
    BY <1>1, <2>1
<1>4. /\ SumFunctionOnSet(k, Sizes) \in Nat /\ SumFunctionOnSet(l, Sizes) \in Nat
      /\ SumFunctionOnSet(l, Sizes) = SumFunctionOnSet(k, Sizes) - k[s] + l[s]
  BY <1>3, FiniteSizes, SumChange
<1>5. /\ mrs'[c][s] = mrs[c][s] => l[s] = k[s]
      /\ mrs'[c][s] = mrs[c][s] + 1 => l[s] = k[s] + s
      /\ mrs'[c][s] = mrs[c][s] - 1 => l[s] = k[s] - s
  <2>1. PICK x \in Nat : x = mrs[c][s]
    OBVIOUS
  <2>2. s * (x + 1) = s * x + s /\ s * (x - 1) = s * x - s
    BY <1>2
  <2>3. k[s] = s * x /\ l[s] = s * mrs'[c][s]
    BY <1>1, <2>1
  <2>4. QED
    BY <2>1, <2>2, <2>3
<1>6. k[s] \in Nat /\ l[s] \in Nat
  BY <1>3
<1>7. MemoryOf(c) = SumFunctionOnSet(k, Sizes) /\ MemoryOf(c)' = SumFunctionOnSet(l, Sizes)
  BY <1>1 DEF MemoryOf
<1>8. QED
  BY <1>2, <1>4, <1>5, <1>6, <1>7

(* A client that has not sent its request, or has no call, is not served. *)
LEMMA Unserved ==
    ASSUME GrantsInv, NEW c \in Clients, cpc[c] \in {"idle", "connect", "send"} \/ link[c] # "open"
    PROVE  ~(pc[Server] \in Serving /\ cur = c)
  BY DEF GrantsInv, FreshInv, ServerInv, JobOK, LinksOK

(* Call: what a client frees, it says so. *)
LEMMA GrantsCall ==
    ASSUME GrantsInv, NEW c \in Clients, Call(c)
    PROVE  GrantsInv'
<1>a. PICK k \in Calls(c, mapped) :
        /\ Frees(c, k)
        /\ call' = [call EXCEPT ![c] = [op |-> k.op, arg |-> k.arg, round |-> 1, count |-> 0,
                                        told |-> TRUE]]
  BY DEF Call
<1>b. /\ cpc[c] = "idle" /\ cpc' = [cpc EXCEPT ![c] = "connect"]
      /\ UNCHANGED <<countVars, threadVars, serveVars, kernelVars, req, rsp, pc, cur>>
  BY DEF Call, threadVars, serveVars, linkVars
<1>c. FreshInv' /\ ClientsOK /\ ClientsOK' /\ ClientOK(c) /\ mapped \in BOOLEAN /\ OwedOK
  BY CallStep, Owed DEF GrantsInv, FreshInv, ServerInv, ClientsOK, KernelOK
<1>d. k.op = "MR_DESTROY" => k.arg \in Sizes
  BY <1>a, <1>c, CallsAssumption
<1>1. req[c] = None /\ ~(pc[Server] \in Serving /\ cur = c)
  BY <1>b, <1>c, Unserved DEF ClientOK
<1>2. QpsOwed(c) = qps[c] /\ MemoryOwed(c) = MemoryOf(c)
  <2>1. InTransit(c) = NoRequest
    BY <1>b, <1>1 DEF InTransit, Serving
  <2>2. \A o \in {"QP_CREATE", "MR_CREATE"} : ~Promised(c, o)
    BY <1>b DEF Promised
  <2>3. qps[c] \in Nat /\ MemoryOf(c) \in Nat
    BY <1>c DEF ClientsOK, OwedOK
  <2>4. QED
    BY <2>1, <2>2, <2>3 DEF QpsOwed, MemoryOwed, NoRequest
<1>3. /\ cpc'[c] = "connect" /\ call'[c].op = k.op /\ call'[c].arg = k.arg
      /\ \A d \in Clients \ {c} : cpc'[d] = cpc[d] /\ call'[d] = call[d]
  BY <1>a, <1>b, <1>c DEF ClientsOK
<1>4. /\ QpsOwed(c)' = qps'[c] + IF k.op = "QP_DESTROY" THEN 1 ELSE 0
      /\ MemoryOwed(c)' = MemoryOf(c)' + IF k.op = "MR_DESTROY" THEN k.arg ELSE 0
  <2>1. /\ InTransit(c)'.op = IF k.op \in {"get_stats", "check_qp"} THEN "GET_STATS" ELSE k.op
        /\ InTransit(c)'.arg = k.arg
    BY <1>3 DEF InTransit, Request
  <2>2. \A o \in {"QP_CREATE", "MR_CREATE"} : ~Promised(c, o)'
    BY <1>3 DEF Promised
  <2>3. InTransit(c)'.op = "QP_DESTROY" <=> k.op = "QP_DESTROY"
    BY <2>1
  <2>4. InTransit(c)'.op = "MR_DESTROY" <=> k.op = "MR_DESTROY"
    BY <2>1
  <2>5. QED
    BY <2>1, <2>2, <2>3, <2>4 DEF QpsOwed, MemoryOwed
<1>5. CASE k.op = "QP_DESTROY"
  <2>1. qps' = [qps EXCEPT ![c] = @ - 1] /\ UNCHANGED mrs /\ qps \in [Clients -> Nat]
    BY <1>5, <1>a, <1>c DEF Frees, ClientsOK
  <2>2. MemoryOf(c)' = MemoryOf(c) /\ MemoryOf(c) \in Nat
    BY <2>1, <1>c DEF MemoryOf, OwedOK
  <2>3. qps'[c] = qps[c] - 1 /\ qps[c] \in Nat /\ \A d \in Clients \ {c} : qps'[d] = qps[d] /\ mrs'[d] = mrs[d]
    BY <2>1
  <2>4. QpsOwed(c)' <= QpsOwed(c) /\ MemoryOwed(c)' <= MemoryOwed(c)
    BY <1>2, <1>4, <1>5, <2>2, <2>3
  <2>5. QED
    BY <1>b, <1>c, <1>1, <1>3, <2>3, <2>4, ClientBalance
<1>6. CASE k.op = "MR_DESTROY"
  <2>1. mrs' = [mrs EXCEPT ![c][k.arg] = @ - 1] /\ UNCHANGED qps /\ mrs \in [Clients -> [Sizes -> Nat]]
    BY <1>6, <1>a, <1>c DEF Frees, ClientsOK
  <2>2. PICK s \in Sizes : s = k.arg
    BY <1>d, <1>6
  <2>3. mrs[c] \in [Sizes -> Nat] /\ mrs'[c] \in [Sizes -> Nat]
    BY <1>c DEF ClientsOK
  <2>4. /\ mrs'[c][s] = mrs[c][s] - 1 /\ \A u \in Sizes \ {s} : mrs'[c][u] = mrs[c][u]
        /\ \A d \in Clients \ {c} : qps'[d] = qps[d] /\ mrs'[d] = mrs[d]
    BY <2>1, <2>2, <2>3
  <2>5. MemoryOf(c) \in Nat /\ MemoryOf(c)' \in Nat /\ s \in Nat /\ MemoryOf(c)' = MemoryOf(c) - s
    BY <2>3, <2>4, MemoryChange
  <2>6. QpsOwed(c)' <= QpsOwed(c) /\ MemoryOwed(c)' <= MemoryOwed(c)
    <3>1. qps[c] \in Nat
      BY <1>c DEF ClientsOK
    <3>2. QED
      BY <1>2, <1>4, <1>6, <2>1, <2>2, <2>5, <3>1
  <2>7. QED
    BY <1>b, <1>c, <1>1, <1>3, <2>4, <2>6, ClientBalance
<1>7. CASE k.op \notin {"QP_DESTROY", "MR_DESTROY"}
  <2>1. UNCHANGED <<qps, mrs>>
    BY <1>7, <1>a DEF Frees
  <2>2. MemoryOf(c)' = MemoryOf(c) /\ MemoryOf(c) \in Nat /\ qps[c] \in Nat
    BY <2>1, <1>c DEF MemoryOf, OwedOK, ClientsOK
  <2>3. QpsOwed(c)' <= QpsOwed(c) /\ MemoryOwed(c)' <= MemoryOwed(c)
    BY <1>2, <1>4, <1>7, <2>1, <2>2
  <2>4. QED
    BY <1>b, <1>c, <1>1, <1>3, <2>1, <2>3, ClientBalance
<1>8. QED
  BY <1>5, <1>6, <1>7

(* After a call, and between its two rounds, a client is owed what it holds. *)
LEMMA OwedAtRest ==
    ASSUME ServerInv', NEW c \in Clients, cpc'[c] \in {"idle", "connect"},
           cpc'[c] = "connect" => Request(c)'.op = "GET_STATS"
    PROVE  QpsOwed(c)' = qps'[c] /\ MemoryOwed(c)' = MemoryOf(c)'
<1>1. /\ req'[c] = None /\ ~(pc'[Server] = "serve" /\ cur' = c) /\ qps'[c] \in Nat
  BY DEF ServerInv, ClientsOK, ClientOK, JobOK, Serving
<1>2. MemoryOf(c)' \in Nat
  BY OwedNext DEF OwedOK
<1>3. InTransit(c)'.op \notin {"QP_DESTROY", "MR_DESTROY"}
  BY <1>1 DEF InTransit, NoRequest
<1>4. \A o \in {"QP_CREATE", "MR_CREATE"} : ~Promised(c, o)'
  BY DEF Promised
<1>5. QED
  BY <1>1, <1>2, <1>3, <1>4 DEF QpsOwed, MemoryOwed

(* Connect and Send: the request goes on its way. *)
LEMMA GrantsQueue ==
    ASSUME GrantsInv, FreshInv', NEW c \in Clients, cpc[c] = "connect", cpc' = [cpc EXCEPT ![c] = "send"],
           UNCHANGED <<req, rsp, call, qps, mrs>>,
           UNCHANGED <<countVars, threadVars, serveVars, kernelVars>>
    PROVE  GrantsInv'
<1>1. cpc'[c] = "send" /\ (\A d \in Clients \ {c} : cpc'[d] = cpc[d]) /\ UNCHANGED <<pc, cur, answer>>
  BY DEF GrantsInv, FreshInv, ServerInv, ClientsOK, threadVars, serveVars
<1>2. InTransit(c)' = InTransit(c)
  BY <1>1 DEF InTransit, Request
<1>3. \A o \in {"QP_CREATE", "MR_CREATE"} : ~Promised(c, o)'
  BY <1>1 DEF Promised
<1>4. QpsOwed(c)' <= QpsOwed(c) /\ MemoryOwed(c)' <= MemoryOwed(c)
  BY <1>2, <1>3, LessOwed DEF GrantsInv, FreshInv
<1>5. QED
  BY <1>1, <1>4, ClientBalance

LEMMA GrantsSend ==
    ASSUME GrantsInv, FreshInv', NEW c \in Clients, cpc[c] = "send", cpc' = [cpc EXCEPT ![c] = "wait"],
           req' = [req EXCEPT ![c] = Request(c)],
           UNCHANGED <<rsp, call, qps, mrs>>,
           UNCHANGED <<countVars, threadVars, serveVars, kernelVars>>
    PROVE  GrantsInv'
<1>1. /\ cpc'[c] = "wait" /\ req'[c] = Request(c)
      /\ (\A d \in Clients \ {c} : cpc'[d] = cpc[d] /\ req'[d] = req[d]) /\ UNCHANGED <<pc, cur, answer>>
  BY DEF GrantsInv, FreshInv, ServerInv, ClientsOK, threadVars, serveVars
<1>2. rsp[c] = None /\ ~(pc[Server] \in Serving /\ cur = c)
  BY Unserved DEF GrantsInv, FreshInv, ServerInv, ClientsOK, ClientOK
<1>3. InTransit(c) = Request(c) /\ InTransit(c)' \in {Request(c), NoRequest}
  BY <1>1, <1>2 DEF InTransit, Serving
<1>4. \A o \in {"QP_CREATE", "MR_CREATE"} : ~Promised(c, o)' /\ ~Promised(c, o)
  BY <1>1, <1>2 DEF Promised, Serving
<1>5. QpsOwed(c)' <= QpsOwed(c) /\ MemoryOwed(c)' <= MemoryOwed(c)
  BY <1>3, <1>4, LessOwed DEF GrantsInv, FreshInv
<1>6. QED
  BY <1>1, <1>2, <1>5, ClientBalance

(* Return: a grant that the client hears of is one that it was promised. *)
LEMMA GrantsReturn ==
    ASSUME GrantsInv, FreshInv', NEW c \in Clients, NEW r, Active(c), link[c] \notin {"queued", "open"},
           r.text = "Success" => cpc[c] = "wait" /\ r = rsp[c] /\ rsp[c] # None,
           Return(c, r), UNCHANGED <<countVars, threadVars, serveVars, kernelVars>>
    PROVE  GrantsInv'
<1>a. /\ ClientsOK /\ ClientsOK' /\ ClientOK(c) /\ ServerInv /\ ServerInv' /\ OwedOK /\ UNCHANGED <<pc, cur>>
      /\ qps \in [Clients -> Nat] /\ mrs \in [Clients -> [Sizes -> Nat]] /\ DOMAIN call = Clients
      /\ mrs'[c] \in [Sizes -> Nat]
  BY Owed DEF GrantsInv, FreshInv, ServerInv, ClientsOK, threadVars, serveVars
<1>b. ~(pc[Server] \in Serving /\ cur = c)
  BY Unserved
<1>c. \A d \in Clients \ {c} : req'[d] = req[d] /\ rsp'[d] = rsp[d]
  BY <1>a DEF Return, ClientsOK
<1>d. /\ qps[c] \in Nat /\ MemoryOf(c) \in Nat /\ qps[c] <= QpsOwed(c) /\ MemoryOf(c) <= MemoryOwed(c)
  <2>1. /\ qps[c] \in Nat /\ MemoryOf(c) \in Nat
        /\ InTransit(c).op = "MR_DESTROY" => InTransit(c).arg \in Nat
        /\ Promised(c, "MR_CREATE") => call[c].arg \in Nat
    BY <1>a, Limits DEF OwedOK
  <2>2. QED
    BY <2>1 DEF QpsOwed, MemoryOwed
<1>1. CASE SecondRound(c, r)
  <2>1. /\ cpc'[c] = "connect" /\ call'[c].op = "check_qp" /\ UNCHANGED <<qps, mrs>>
        /\ \A d \in Clients \ {c} : cpc'[d] = cpc[d] /\ call'[d] = call[d]
    BY <1>1, <1>a DEF SecondRound, ClientsOK, CallType, ClientOK
  <2>2. Request(c)'.op = "GET_STATS"
    BY <2>1 DEF Request
  <2>3. QpsOwed(c)' = qps[c] /\ MemoryOwed(c)' = MemoryOf(c)
    BY <1>a, <2>1, <2>2, OwedAtRest DEF MemoryOf
  <2>4. QED
    BY <1>b, <1>c, <1>d, <2>1, <2>3, ClientBalance
<1>2. ASSUME Finished(c), \A d \in Clients \ {c} : qps'[d] = qps[d] /\ mrs'[d] = mrs[d],
             qps'[c] <= QpsOwed(c), MemoryOf(c)' <= MemoryOwed(c)
      PROVE  GrantsInv'
  <2>1. cpc'[c] = "idle" /\ \A d \in Clients \ {c} : cpc'[d] = cpc[d] /\ call'[d] = call[d]
    BY <1>2, <1>a DEF Finished, ClientsOK
  <2>2. QpsOwed(c)' = qps'[c] /\ MemoryOwed(c)' = MemoryOf(c)'
    BY <1>a, <2>1, OwedAtRest
  <2>3. QED
    BY <1>b, <1>c, <1>2, <2>1, <2>2, ClientBalance
<1>3. CASE UNCHANGED <<qps, mrs>> /\ Finished(c)
  <2>1. MemoryOf(c)' = MemoryOf(c)
    BY <1>3 DEF MemoryOf
  <2>2. QED
    BY <1>2, <1>3, <1>d, <2>1
<1>4. ASSUME r.text = "Success", NEW o \in {"QP_CREATE", "MR_CREATE"}, call[c].op = o
      PROVE  Promised(c, o) /\ InTransit(c).op # "MR_DESTROY"
  <2>1. cpc[c] = "wait" /\ r = rsp[c] /\ rsp[c] # None
    BY <1>4
  <2>2. Promised(c, o)
    BY <1>4, <2>1 DEF Promised
  <2>3. req[c] # None => req[c].op = o
    BY <1>4, <1>a, <2>1 DEF ClientOK, Request
  <2>4. InTransit(c).op # "MR_DESTROY"
    BY <1>b, <1>4, <2>1, <2>3 DEF InTransit, NoRequest, Serving
  <2>5. QED
    BY <2>2, <2>4
<1>5. CASE /\ call[c].op = "QP_CREATE" /\ qps' = [qps EXCEPT ![c] = @ + IF r.text = "Success" THEN 1 ELSE 0]
           /\ UNCHANGED mrs /\ Finished(c)
  <2>1. MemoryOf(c)' = MemoryOf(c)
    BY <1>5 DEF MemoryOf
  <2>2. /\ qps'[c] = qps[c] + IF r.text = "Success" THEN 1 ELSE 0
        /\ \A d \in Clients \ {c} : qps'[d] = qps[d] /\ mrs'[d] = mrs[d]
    BY <1>5, <1>a
  <2>3. r.text = "Success" => QpsOwed(c) = qps[c] + 1
    BY <1>4, <1>5 DEF QpsOwed
  <2>4. qps'[c] <= QpsOwed(c)
    BY <1>d, <2>2, <2>3
  <2>5. QED
    BY <1>2, <1>5, <1>d, <2>1, <2>2, <2>4
<1>6. CASE /\ call[c].op = "MR_CREATE"
           /\ mrs' = [mrs EXCEPT ![c][call[c].arg] = @ + IF r.text = "Success" THEN 1 ELSE 0]
           /\ UNCHANGED qps /\ Finished(c)
  <2>1. PICK s \in Sizes : s = call[c].arg
    BY <1>6, <1>a DEF ClientOK, CallType
  <2>2. mrs[c] \in [Sizes -> Nat]
    BY <1>a
  <2>3. /\ mrs'[c][s] = mrs[c][s] + IF r.text = "Success" THEN 1 ELSE 0
        /\ \A u \in Sizes \ {s} : mrs'[c][u] = mrs[c][u]
        /\ \A d \in Clients \ {c} : qps'[d] = qps[d] /\ mrs'[d] = mrs[d]
    BY <1>6, <1>a, <2>1, <2>2
  <2>4. CASE r.text = "Success"
    <3>1. MemoryOf(c)' = MemoryOf(c) + s
      BY <1>a, <2>2, <2>3, <2>4, MemoryChange
    <3>2. MemoryOwed(c) = MemoryOf(c) + s
      BY <1>4, <1>6, <2>1, <2>4 DEF MemoryOwed
    <3>3. s \in Nat
      BY Limits
    <3>4. MemoryOf(c)' <= MemoryOwed(c) /\ qps'[c] <= QpsOwed(c)
      BY <1>d, <1>6, <3>1, <3>2, <3>3
    <3>5. QED
      BY <1>2, <1>6, <2>3, <3>4
  <2>5. CASE r.text # "Success"
    <3>1. mrs[c][s] \in Nat
      BY <2>2
    <3>2. mrs'[c][s] = mrs[c][s]
      BY <2>3, <2>5, <3>1
    <3>3. MemoryOf(c)' = MemoryOf(c)
      BY <1>a, <2>2, <2>3, <3>2, MemoryChange
    <3>4. QED
      BY <1>2, <1>6, <1>d, <2>3, <3>3
  <2>6. QED
    BY <2>4, <2>5
<1>7. QED
  BY <1>1, <1>3, <1>5, <1>6 DEF Return, CheckedQp, CheckedMemory, Granted, Told

(* Crash: what the client held and was promised is gone, what it has sent is not. *)
LEMMA GrantsCrash ==
    ASSUME GrantsInv, NEW c \in Clients, Crash(c)
    PROVE  GrantsInv'
<1>a. /\ cpc' = [cpc EXCEPT ![c] = "dead"] /\ call' = [call EXCEPT ![c] = None]
      /\ qps' = [qps EXCEPT ![c] = 0] /\ mrs' = [mrs EXCEPT ![c] = [s \in Sizes |-> 0]]
      /\ rsp' = [rsp EXCEPT ![c] = None]
      /\ UNCHANGED <<countVars, threadVars, serveVars, kernelVars, req, pc, cur, job>>
  BY DEF Crash, threadVars, serveVars
<1>b. FreshInv' /\ ClientsOK /\ ClientOK(c) /\ OwedOK /\ OwedOK'
  BY CrashStep, Owed, OwedNext DEF GrantsInv, FreshInv, ServerInv, ClientsOK
<1>1. /\ cpc'[c] = "dead" /\ qps'[c] = 0 /\ mrs'[c] = [s \in Sizes |-> 0]
      /\ \A d \in Clients \ {c} :
            /\ cpc'[d] = cpc[d] /\ call'[d] = call[d] /\ req'[d] = req[d] /\ rsp'[d] = rsp[d]
            /\ qps'[d] = qps[d] /\ mrs'[d] = mrs[d]
  BY <1>a, <1>b DEF ClientsOK
<1>2. MemoryOf(c)' = 0
  <2>1. PICK k : k = [s \in Sizes |-> s * mrs'[c][s]]
    OBVIOUS
  <2>2. k \in [Sizes -> Nat] /\ \A s \in Sizes : k[s] = 0
    <3>1. \A s \in Sizes : s * mrs'[c][s] = 0
      BY <1>1, Limits
    <3>2. QED
      BY <2>1, <3>1
  <2>3. QED
    BY <2>1, <2>2, FiniteSizes, SumZero DEF MemoryOf
<1>3. InTransit(c)' \in {InTransit(c), NoRequest}
  <2>1. CASE cpc[c] \in {"connect", "send"}
    <3>1. req[c] = None /\ ~(pc[Server] \in Serving /\ cur = c)
      BY <1>b, <2>1, Unserved DEF ClientOK
    <3>2. QED
      BY <1>a, <1>1, <3>1 DEF InTransit, Serving
  <2>2. CASE cpc[c] \notin {"connect", "send"}
    BY <1>a, <1>1, <2>2 DEF InTransit
  <2>3. QED
    BY <2>1, <2>2
<1>4. \A o \in {"QP_CREATE", "MR_CREATE"} : ~Promised(c, o)'
  BY <1>1 DEF Promised
<1>5. /\ qps[c] \in Nat /\ MemoryOf(c) \in Nat
      /\ InTransit(c).op = "MR_DESTROY" => InTransit(c).arg \in Nat
      /\ Promised(c, "MR_CREATE") => call[c].arg \in Nat
  BY <1>b, Limits DEF OwedOK, ClientsOK
<1>6. QpsOwed(c)' <= QpsOwed(c)
  BY <1>1, <1>3, <1>4, <1>5 DEF QpsOwed, NoRequest
<1>7. MemoryOwed(c)' <= MemoryOwed(c)
  BY <1>2, <1>3, <1>4, <1>5 DEF MemoryOwed, NoRequest
<1>8. QED
  BY <1>a, <1>b, <1>1, <1>6, <1>7, ClientBalance

LEMMA GrantsClient ==
    ASSUME GrantsInv, NEW c \in Clients, ClientStep(c)
    PROVE  GrantsInv'
<1>a. FreshInv' /\ ClientOK(c)
  BY ClientSteps DEF GrantsInv, FreshInv, ServerInv, ClientsOK
<1>b. Fault.text # "Success" /\ Eof.text # "Success"
  BY DEF Fault, Eof, Answer
<1>1. CASE Connect(c)
  <2>1. cpc[c] = "connect" /\ UNCHANGED <<countVars, threadVars, serveVars, kernelVars>>
    BY <1>1 DEF Connect
  <2>2. CASE Return(c, Fault)
    <3>1. link[c] = "none" /\ Active(c)
      BY <1>a, <2>1 DEF ClientOK, Active
    <3>2. QED
      BY <1>a, <1>b, <2>1, <2>2, <3>1, GrantsReturn
  <2>3. CASE cpc' = [cpc EXCEPT ![c] = "send"] /\ UNCHANGED <<req, rsp, call, cached, qps, mrs, verdict>>
    BY <1>a, <2>1, <2>3, GrantsQueue
  <2>4. QED
    BY <1>1, <2>2, <2>3 DEF Connect
<1>2. CASE Send(c)
  <2>1. cpc[c] = "send" /\ UNCHANGED <<countVars, threadVars, serveVars, kernelVars>>
    BY <1>2 DEF Send
  <2>2. CASE link[c] = "reset" /\ Return(c, Fault)
    <3>1. Active(c)
      BY <2>1 DEF Active
    <3>2. QED
      BY <1>a, <1>b, <2>1, <2>2, <3>1, GrantsReturn
  <2>3. CASE /\ req' = [req EXCEPT ![c] = Request(c)] /\ cpc' = [cpc EXCEPT ![c] = "wait"]
             /\ UNCHANGED <<link, rsp, call, cached, qps, mrs, verdict>>
    BY <1>a, <2>1, <2>3, GrantsSend
  <2>4. QED
    BY <1>2, <2>2, <2>3 DEF Send
<1>3. CASE Receive(c)
  <2>1. cpc[c] = "wait" /\ Active(c) /\ UNCHANGED <<countVars, threadVars, serveVars, kernelVars>>
    BY <1>3 DEF Receive, Active
  <2>2. CASE rsp[c] # None /\ Return(c, rsp[c])
    <3>1. link[c] = "eof"
      BY <1>a, <2>2 DEF ClientOK
    <3>2. QED
      BY <1>a, <2>1, <2>2, <3>1, GrantsReturn
  <2>3. CASE link[c] = "eof" /\ Return(c, Eof)
    BY <1>a, <1>b, <2>1, <2>3, GrantsReturn
  <2>4. CASE link[c] = "reset" /\ Return(c, Fault)
    BY <1>a, <1>b, <2>1, <2>4, GrantsReturn
  <2>5. QED
    BY <1>3, <2>2, <2>3, <2>4 DEF Receive
<1>4. QED
  BY <1>1, <1>2, <1>3 DEF ClientStep

-----------------------------------------------------------------------------
LEMMA GrantsInit == CollectorInit => GrantsInv
<1> SUFFICES ASSUME CollectorInit PROVE GrantsInv
  OBVIOUS
<1>a. FreshInv /\ pc[Server] = "listen" /\ pc[Syncer] = "check"
  BY FreshInit, ThreadNames DEF CollectorInit
<1>1. Unmapped /\ RequestRead
  BY <1>a, ThreadNames DEF Unmapped, RequestRead, Serving, Counting, Section
<1>2. ASSUME NEW c \in Clients PROVE QpsOwed(c) = 0 /\ MemoryOwed(c) = 0
  <2>1. InTransit(c) = NoRequest
    BY <1>a DEF CollectorInit, InTransit
  <2>2. \A o \in {"QP_CREATE", "MR_CREATE"} : ~Promised(c, o)
    BY DEF CollectorInit, Promised
  <2>3. MemoryOf(c) = 0
    <3>1. PICK k : k = [s \in Sizes |-> s * mrs[c][s]]
      OBVIOUS
    <3>2. \A s \in Sizes : s * mrs[c][s] = 0
      BY Limits DEF CollectorInit
    <3>3. k \in [Sizes -> Nat] /\ \A s \in Sizes : k[s] = 0
      BY <3>1, <3>2
    <3>4. QED
      BY <3>1, <3>3, FiniteSizes, SumZero DEF MemoryOf
  <2>4. qps[c] = 0
    BY DEF CollectorInit
  <2>5. QED
    BY <2>1, <2>2, <2>3, <2>4 DEF QpsOwed, MemoryOwed, NoRequest
<1>3. AllCounted
  <2>1. PICK m, k : m = [c \in Clients |-> QpsOwed(c)] /\ k = [c \in Clients |-> MemoryOwed(c)]
    OBVIOUS
  <2>2. m \in [Clients -> Nat] /\ k \in [Clients -> Nat] /\ \A c \in Clients : m[c] = 0 /\ k[c] = 0
    BY <1>2, <2>1
  <2>3. SumFunctionOnSet(m, Clients) = 0 /\ SumFunctionOnSet(k, Clients) = 0
    BY <2>2, FiniteSizes, SumZero
  <2>4. global_qp_count = 0 /\ global_memory_used = 0 /\ MaxQp \in Nat /\ MaxMemory \in Nat
    BY CollectorAssumption DEF CollectorInit
  <2>5. QED
    BY <2>1, <2>3, <2>4 DEF AllCounted
<1>4. QED
  BY <1>a, <1>1, <1>3 DEF GrantsInv

LEMMA GrantsNext == GrantsInv /\ [CollectorNext]_vars => GrantsInv'
<1> SUFFICES ASSUME GrantsInv, [CollectorNext]_vars PROVE GrantsInv'
  OBVIOUS
<1>1. CASE ServerStep
  BY <1>1, GrantsIdle, GrantsAccept, GrantsRead, GrantsServe, GrantsStatistics, GrantsReply, GrantsEnd DEF ServerStep
<1>2. CASE signal_handler \/ SyncThread
  BY <1>2, GrantsIdle
<1>3. CASE Kill
  BY <1>3, GrantsEnd
<1>4. CASE \E t \in Threads : SyncStep(t)
  BY <1>4, GrantsSync
<1>5. CASE \E c \in Clients : Call(c) \/ ClientStep(c) \/ Crash(c)
  BY <1>5, GrantsCall, GrantsClient, GrantsCrash
<1>6. CASE KernelCounts
  BY <1>6, GrantsKernel
<1>7. CASE UNCHANGED vars
  <2>1. UNCHANGED <<mapped, cpc, call, req, rsp, qps, mrs, pc, cur, job, answer, global_qp_count, global_memory_used>>
    BY <1>7 DEF vars, countVars, threadVars, serveVars, linkVars, clientVars, kernelVars
  <2>2. FreshInv'
    BY <1>7, FreshNext DEF GrantsInv
  <2>3. Unmapped'
    BY <2>1 DEF GrantsInv, Unmapped
  <2>4. QED
    BY <2>1, <2>2, <2>3, ServerQuiet
<1>8. QED
  BY <1>1, <1>2, <1>3, <1>4, <1>5, <1>6, <1>7 DEF CollectorNext

(* QP_CREATE and MR_CREATE: without kernel maps, what the clients were        *)
(* granted and have not freed is counted by the server and stays within its   *)
(* limits, whichever clients, answers and requests are lost on the way.       *)
THEOREM GrantsAreCounted == CollectorSpec => []GrantsCounted
<1>1. GrantsInv => GrantsCounted
  <2> SUFFICES ASSUME GrantsInv PROVE GrantsCounted
    OBVIOUS
  <2>1. CollectorTypeOK
    BY TypesOfFresh DEF GrantsInv
  <2>2. OwedOK /\ CountsOK /\ qps \in [Clients -> Nat]
    BY Owed DEF GrantsInv, FreshInv, ServerInv, ClientsOK
  <2>3. PICK m, n : m = [c \in Clients |-> QpsOwed(c)] /\ n = [c \in Clients |-> MemoryOwed(c)]
    OBVIOUS
  <2>4. PICK k : k = [c \in Clients |-> MemoryOf(c)]
    OBVIOUS
  <2>5. m \in [Clients -> Nat] /\ n \in [Clients -> Nat] /\ k \in [Clients -> Nat]
    BY <2>2, <2>3, <2>4 DEF OwedOK
  <2>6. \A c \in Clients : qps[c] <= m[c] /\ k[c] <= n[c]
    <3> SUFFICES ASSUME NEW c \in Clients PROVE qps[c] <= QpsOwed(c) /\ MemoryOf(c) <= MemoryOwed(c)
      BY <2>3, <2>4
    <3>1. /\ qps[c] \in Nat /\ MemoryOf(c) \in Nat
          /\ InTransit(c).op = "MR_DESTROY" => InTransit(c).arg \in Nat
          /\ Promised(c, "MR_CREATE") => call[c].arg \in Nat
      BY <2>2, Limits DEF OwedOK
    <3>2. QED
      BY <3>1 DEF QpsOwed, MemoryOwed
  <2>7. /\ SumFunctionOnSet(qps, Clients) <= SumFunctionOnSet(m, Clients)
        /\ SumFunctionOnSet(k, Clients) <= SumFunctionOnSet(n, Clients)
    BY <2>2, <2>5, <2>6, FiniteSizes, SumMonotone
  <2>8. /\ SumFunctionOnSet(qps, Clients) \in Nat /\ SumFunctionOnSet(m, Clients) \in Nat
        /\ SumFunctionOnSet(k, Clients) \in Nat /\ SumFunctionOnSet(n, Clients) \in Nat
        /\ global_qp_count \in Nat /\ global_memory_used \in Nat
    BY <2>2, <2>5, FiniteSizes, SumType DEF CountsOK
  <2>9. ASSUME ~mapped, \A s \in Sizes : MaxMemory + s < Word
        PROVE  /\ QpsHeld <= global_qp_count /\ global_qp_count <= MaxQp
               /\ MemoryHeld <= global_memory_used /\ global_memory_used <= MaxMemory
    <3>1. /\ SumFunctionOnSet(m, Clients) <= global_qp_count /\ global_qp_count <= MaxQp
          /\ SumFunctionOnSet(n, Clients) <= global_memory_used /\ global_memory_used <= MaxMemory
      BY <2>3, <2>9 DEF GrantsInv, AllCounted
    <3>2. QpsHeld = SumFunctionOnSet(qps, Clients) /\ MemoryHeld = SumFunctionOnSet(k, Clients)
      BY <2>4 DEF QpsHeld, MemoryHeld
    <3>3. QED
      BY <2>7, <2>8, <3>1, <3>2
  <2>10. QED
    BY <2>1, <2>9 DEF GrantsCounted
<1>2. QED
  BY <1>1, GrantsInit, GrantsNext, PTL DEF CollectorSpec
=============================================================================
