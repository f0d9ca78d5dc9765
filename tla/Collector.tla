------------------------------ MODULE Collector ------------------------------
(***************************************************************************)
(* The collector (collector_server.c) and the client calls that connect to *)
(* it (collector_client.c).  One thread of the server accepts a connection *)
(* at a time, reads one request, answers it and closes; another copies the *)
(* kernel's counts over the server's own.  Clients make one connection for *)
(* every request.                                                          *)
(*                                                                         *)
(* The kernel's maps are external: they change at any time and either both *)
(* are pinned or none (mapped).  A critical section of qp_count_mutex,     *)
(* memory_count_mutex or process_resources_mutex is one step;              *)
(* ebpf_sync_mutex, held across several, is state.  Clients send no        *)
(* malformed request, and malloc and the system calls of an open           *)
(* connection do not fail for other reasons than the peer.  Nothing in     *)
(* either program handles SIGPIPE: writing to a peer that is gone ends the *)
(* server, and ends a client unless its application ignores the signal.    *)
(***************************************************************************)
EXTENDS Integers, Sequences, FiniteSetsExt

CONSTANTS
    Clients, Pids,
    KernelStates,   \* what the two maps can hold: [global, proc]
    Sizes,          \* lengths of memory registrations
    Calls(_, _),    \* the calls of a client, with maps and without: [op, arg]
    MaxQp, MaxMemory, DefaultMax,
    Word,           \* 2^64, the modulus of size_t and uint64_t
    Backlog,        \* listen(server_fd, 10)
    None,
    MaxChanges,     \* bound: changes of the kernel's maps
    MaxCalls(_, _)  \* bound: calls of a client, with maps and without

Server  == "server"
Syncer  == "syncer"
Threads == {Server, Syncer}
Free      == "free"
Destroyed == "destroyed"

Usage == [qp : Nat, mr : Nat, used : Nat]
Zero  == [qp |-> 0, mr |-> 0, used |-> 0]
Requests == {"GET_STATS", "GET_PROC_STATS", "QP_CREATE", "QP_DESTROY", "MR_CREATE",
             "MR_DESTROY", "CHECK_MEMORY"}
Texts == {"Success", "Error", "Stats"}   \* what an answer says
Answer(text, usage) == [text |-> text, usage |-> usage]
Eof   == Answer("eof", Zero)       \* read returns 0
Fault == Answer("fault", Zero)     \* socket, connect, write or read fails

ASSUME CollectorAssumption ==
    /\ {MaxQp, MaxMemory, DefaultMax, Backlog} \subseteq Nat \ {0}
    /\ Word \in Nat /\ MaxMemory < Word /\ Sizes \subseteq 0 .. Word - 1
    /\ KernelStates # {} /\ None \notin Clients /\ IsFiniteSet(Clients)
    /\ KernelStates \subseteq [global : Usage, proc : [Pids -> Usage \cup {None}]]

(* A request about a process names one, and one about memory a length. *)
ASSUME CallsAssumption ==
    \A c \in Clients, b \in BOOLEAN : \A k \in Calls(c, b) :
        /\ k \in [op : {"get_stats", "check_qp"} \cup Requests, arg : Sizes \cup Pids \cup {None}]
        /\ k.op = "GET_PROC_STATS" => k.arg \in Pids
        /\ k.op \in {"MR_CREATE", "MR_DESTROY", "CHECK_MEMORY"} => k.arg \in Sizes

VARIABLES
    \* the server
    pc, running, ebpf_sync_mutex, frame, global_qp_count, global_mr_count,
    global_memory_used, process_resources, cur, job, answer,
    \* connections: the queue of listen, the end a client sees, requests and answers in flight
    backlog, link, req, rsp,
    \* clients: where they are, the call, the static counts, what they hold, the last verdict
    cpc, call, cached, qps, mrs, verdict, made,
    \* the kernel, and what its maps have held since a client's first request of its call
    mapped, kernel, changes, seen

countVars  == <<global_qp_count, global_mr_count, global_memory_used>>
threadVars == <<pc, running, ebpf_sync_mutex, frame>>
serveVars  == <<cur, job, answer>>
linkVars   == <<backlog, link, req, rsp>>
clientVars == <<cpc, call, cached, qps, mrs, verdict, made>>
kernelVars == <<mapped, kernel, changes>>
vars == <<countVars, process_resources, threadVars, serveVars, linkVars,
          clientVars, kernelVars, seen>>

NoFrame == [due |-> {}, pid |-> None, usage |-> Zero]
Present == {p \in Pids : kernel.proc[p] # None}

Goto(t, label) == pc' = [pc EXCEPT ![t] = label]

(* initialize_service has started the synchronising thread; nobody listens yet. *)
CollectorInit ==
    /\ pc = [t \in Threads |-> IF t = Server THEN "listen" ELSE "check"]
    /\ running = TRUE /\ ebpf_sync_mutex = Free
    /\ frame = [t \in Threads |-> NoFrame]
    /\ global_qp_count = 0 /\ global_mr_count = 0 /\ global_memory_used = 0
    /\ process_resources = [p \in Pids |-> None]
    /\ cur = None /\ job = None /\ answer = None
    /\ backlog = <<>>
    /\ link = [c \in Clients |-> "none"]
    /\ req = [c \in Clients |-> None] /\ rsp = [c \in Clients |-> None]
    /\ cpc = [c \in Clients |-> "idle"]
    /\ call = [c \in Clients |-> None]
    /\ cached = [c \in Clients |-> [count |-> 0, max |-> DefaultMax]]
    /\ qps = [c \in Clients |-> 0]
    /\ mrs = [c \in Clients |-> [s \in Sizes |-> 0]]
    /\ verdict = [c \in Clients |-> None]
    /\ made = [c \in Clients |-> 0]
    /\ mapped \in BOOLEAN /\ changes = 0
    /\ kernel \in IF mapped THEN KernelStates ELSE {CHOOSE k \in KernelStates : TRUE}
    /\ seen = [c \in Clients |-> {}]

-----------------------------------------------------------------------------
(* sync_ebpf_data, by either thread.                                       *)

(* Variant: sync_ebpf_data without ebpf_sync_mutex. *)
SyncLock_nomutex(t) ==
    /\ pc[t] = "lock"
    /\ frame' = [frame EXCEPT ![t].due = IF mapped THEN Present ELSE {}]
    /\ Goto(t, IF mapped THEN "walk" ELSE "unlock")
    /\ UNCHANGED <<running, ebpf_sync_mutex, countVars, process_resources>>

SyncLock(t) ==
    /\ pc[t] = "lock"
    /\ ebpf_sync_mutex \in {Free, Destroyed}
    /\ ebpf_sync_mutex' = IF ebpf_sync_mutex = Free THEN t ELSE Destroyed
    /\ frame' = [frame EXCEPT ![t].due = IF mapped THEN Present ELSE {}]
    /\ Goto(t, IF mapped THEN "walk" ELSE "unlock")
    /\ UNCHANGED <<running, countVars, process_resources>>

(* get_next_key and lookup: an entry that has gone since is not found. *)
SyncLookup(t) ==
    /\ pc[t] = "walk"
    /\ \E p \in frame[t].due :
          /\ frame' = [frame EXCEPT ![t] =
                [due |-> @.due \ {p}, pid |-> IF p \in Present THEN p ELSE None,
                 usage |-> IF p \in Present THEN kernel.proc[p] ELSE Zero]]
          /\ Goto(t, IF p \in Present THEN "node" ELSE "walk")
    /\ UNCHANGED <<running, ebpf_sync_mutex, countVars, process_resources>>

(* The node of the process, new or not.  Nodes are never removed. *)
SyncNode(t) ==
    /\ pc[t] = "node"
    /\ process_resources' = [process_resources EXCEPT ![frame[t].pid] = frame[t].usage]
    /\ frame' = [frame EXCEPT ![t].pid = None, ![t].usage = Zero]
    /\ Goto(t, "walk")
    /\ UNCHANGED <<running, ebpf_sync_mutex, countVars>>

SyncGlobal(t) ==
    /\ pc[t] = "walk" /\ frame[t].due = {}
    /\ frame' = [frame EXCEPT ![t].usage = kernel.global]
    /\ Goto(t, "qp")
    /\ UNCHANGED <<running, ebpf_sync_mutex, countVars, process_resources>>

(* Variant: the kernel's count only ever raises the server's. *)
SyncQp_raises(t) ==
    /\ pc[t] = "qp"
    /\ global_qp_count' = Max({global_qp_count, frame[t].usage.qp})
    /\ Goto(t, "mr")
    /\ UNCHANGED <<running, ebpf_sync_mutex, frame, global_mr_count, global_memory_used,
                   process_resources>>

SyncQp(t) ==
    /\ pc[t] = "qp"
    /\ global_qp_count' = frame[t].usage.qp
    /\ Goto(t, "mr")
    /\ UNCHANGED <<running, ebpf_sync_mutex, frame, global_mr_count, global_memory_used,
                   process_resources>>

SyncMemory(t) ==
    /\ pc[t] = "mr"
    /\ global_mr_count' = frame[t].usage.mr
    /\ global_memory_used' = frame[t].usage.used
    /\ frame' = [frame EXCEPT ![t] = NoFrame]
    /\ Goto(t, "unlock")
    /\ UNCHANGED <<running, ebpf_sync_mutex, global_qp_count, process_resources>>

(* Unlocking a destroyed mutex fails without effect; a held one is not destroyed. *)
SyncUnlock(t) ==
    /\ pc[t] = "unlock"
    /\ ebpf_sync_mutex' = IF ebpf_sync_mutex = t THEN Free ELSE ebpf_sync_mutex
    /\ Goto(t, IF t = Server THEN "count" ELSE "check")
    /\ UNCHANGED <<running, frame, countVars, process_resources>>

SyncStep(t) ==
    /\ \/ SyncLock(t) \/ SyncLookup(t) \/ SyncNode(t) \/ SyncGlobal(t)
       \/ SyncQp(t) \/ SyncMemory(t) \/ SyncUnlock(t)
    /\ UNCHANGED <<serveVars, linkVars, clientVars, kernelVars, seen>>

(* Variant: the loop does not look at running. *)
SyncThread_forever ==
    /\ pc[Syncer] = "check"
    /\ Goto(Syncer, "lock")
    /\ UNCHANGED <<running, ebpf_sync_mutex, frame, countVars, process_resources,
                   serveVars, linkVars, clientVars, kernelVars, seen>>

(* sync_thread_func: at "check" the thread sleeps, or has not begun. *)
SyncThread ==
    /\ pc[Syncer] = "check"
    /\ Goto(Syncer, IF running THEN "lock" ELSE "done")
    /\ UNCHANGED <<running, ebpf_sync_mutex, frame, countVars, process_resources,
                   serveVars, linkVars, clientVars, kernelVars, seen>>

-----------------------------------------------------------------------------
(* The server's thread: start_server, main_loop, cleanup.                  *)

(* start_server fails when the address cannot be bound; main then cleans up. *)
Listen ==
    /\ pc[Server] = "listen"
    /\ \E label \in {"loop", "cleanup"} : Goto(Server, label)
    /\ UNCHANGED <<running, ebpf_sync_mutex, frame, countVars, process_resources,
                   serveVars, linkVars, clientVars, kernelVars, seen>>

Loop ==
    /\ pc[Server] = "loop"
    /\ Goto(Server, IF running THEN "select" ELSE "cleanup")
    /\ UNCHANGED <<running, ebpf_sync_mutex, frame, countVars, process_resources,
                   serveVars, linkVars, clientVars, kernelVars, seen>>

Accept ==
    /\ pc[Server] = "select" /\ backlog # <<>>
    /\ cur' = Head(backlog) /\ backlog' = Tail(backlog)
    /\ link' = [link EXCEPT ![Head(backlog)] = "open"]
    /\ Goto(Server, "read")
    /\ UNCHANGED <<running, ebpf_sync_mutex, frame, countVars, process_resources, job,
                   answer, req, rsp, clientVars, kernelVars, seen>>

(* Variant: the end of a connection is taken for a request still to come. *)
Read_waits ==
    /\ pc[Server] = "read" /\ req[cur] # None
    /\ job' = req[cur] /\ req' = [req EXCEPT ![cur] = None]
    /\ Goto(Server, IF req[cur].op \in {"GET_STATS", "GET_PROC_STATS"} THEN "lock" ELSE "serve")
    /\ UNCHANGED <<cur, link, running, ebpf_sync_mutex, frame, countVars, process_resources,
                   answer, backlog, rsp, clientVars, kernelVars, seen>>

(* Variant: statistics are answered without a synchronisation. *)
Read_unsynced ==
    /\ pc[Server] = "read" /\ req[cur] # None
    /\ job' = req[cur] /\ req' = [req EXCEPT ![cur] = None]
    /\ Goto(Server, IF req[cur].op \in {"GET_STATS", "GET_PROC_STATS"} THEN "count" ELSE "serve")
    /\ UNCHANGED <<cur, link, running, ebpf_sync_mutex, frame, countVars, process_resources,
                   answer, backlog, rsp, clientVars, kernelVars, seen>>

(* read blocks until the request is there or the client is gone. *)
Read ==
    /\ pc[Server] = "read"
    /\ \/ /\ req[cur] # None
          /\ job' = req[cur] /\ req' = [req EXCEPT ![cur] = None]
          /\ Goto(Server, IF req[cur].op \in {"GET_STATS", "GET_PROC_STATS"} THEN "lock" ELSE "serve")
          /\ UNCHANGED <<cur, link>>
       \/ /\ req[cur] = None /\ cpc[cur] = "dead"
          /\ cur' = None /\ link' = [link EXCEPT ![cur] = "none"]
          /\ Goto(Server, "loop")
          /\ UNCHANGED <<job, req>>
    /\ UNCHANGED <<running, ebpf_sync_mutex, frame, countVars, process_resources, answer,
                   backlog, rsp, clientVars, kernelVars, seen>>

(* The requests that count: one critical section each, which sets the answer. *)
Respond(text) == answer' = Answer(text, Zero)

QpCreate ==
    /\ job.op = "QP_CREATE"
    /\ \/ global_qp_count >= MaxQp /\ Respond("Error") /\ UNCHANGED global_qp_count
       \/ global_qp_count < MaxQp /\ Respond("Success") /\ global_qp_count' = global_qp_count + 1
    /\ UNCHANGED <<global_mr_count, global_memory_used>>

QpDestroy ==
    /\ job.op = "QP_DESTROY"
    /\ global_qp_count' = IF global_qp_count > 0 THEN global_qp_count - 1 ELSE 0
    /\ Respond("Success")
    /\ UNCHANGED <<global_mr_count, global_memory_used>>

MemoryFits(length) == (global_memory_used + length) % Word <= MaxMemory

(* Variant: the length asked for is left out of the test. *)
MrCreate_before ==
    /\ job.op = "MR_CREATE"
    /\ \/ /\ ~MemoryFits(0) /\ Respond("Error")
          /\ UNCHANGED <<global_mr_count, global_memory_used>>
       \/ /\ MemoryFits(0) /\ Respond("Success")
          /\ global_mr_count' = global_mr_count + 1
          /\ global_memory_used' = (global_memory_used + job.arg) % Word
    /\ UNCHANGED global_qp_count

MrCreate ==
    /\ job.op = "MR_CREATE"
    /\ \/ /\ ~MemoryFits(job.arg) /\ Respond("Error")
          /\ UNCHANGED <<global_mr_count, global_memory_used>>
       \/ /\ MemoryFits(job.arg) /\ Respond("Success")
          /\ global_mr_count' = global_mr_count + 1
          /\ global_memory_used' = (global_memory_used + job.arg) % Word
    /\ UNCHANGED global_qp_count

CheckMemory ==
    /\ job.op = "CHECK_MEMORY"
    /\ Respond(IF MemoryFits(job.arg) THEN "Success" ELSE "Error")
    /\ UNCHANGED countVars

MrDestroy ==
    /\ job.op = "MR_DESTROY"
    /\ global_mr_count' = IF global_mr_count > 0 THEN global_mr_count - 1 ELSE 0
    /\ global_memory_used' = IF global_memory_used >= job.arg THEN global_memory_used - job.arg
                             ELSE global_memory_used
    /\ Respond("Success")
    /\ UNCHANGED global_qp_count

Serve ==
    /\ pc[Server] = "serve"
    /\ QpCreate \/ QpDestroy \/ MrCreate \/ CheckMemory \/ MrDestroy
    /\ Goto(Server, "reply")
    /\ UNCHANGED <<running, ebpf_sync_mutex, frame, process_resources, cur, job,
                   linkVars, clientVars, kernelVars, seen>>

(* After sync_ebpf_data: GET_STATS reads the counts under two mutexes, one  *)
(* after the other; GET_PROC_STATS reads the node of the process.           *)
CountQp ==
    /\ pc[Server] = "count" /\ job.op = "GET_STATS"
    /\ answer' = Answer("Stats", [Zero EXCEPT !.qp = global_qp_count])
    /\ Goto(Server, "memory")

CountMemory ==
    /\ pc[Server] = "memory"
    /\ answer' = [answer EXCEPT !.usage.mr = global_mr_count, !.usage.used = global_memory_used]
    /\ Goto(Server, "reply")

get_process_resource_usage ==
    /\ pc[Server] = "count" /\ job.op = "GET_PROC_STATS"
    /\ LET node == process_resources[job.arg]
       IN  answer' = Answer("Stats", IF node = None THEN Zero ELSE node)
    /\ Goto(Server, "reply")

Statistics ==
    /\ CountQp \/ CountMemory \/ get_process_resource_usage
    /\ UNCHANGED <<running, ebpf_sync_mutex, frame, countVars, process_resources, cur, job,
                   linkVars, clientVars, kernelVars, seen>>

(* The answer is written and the connection closed. *)
Reply ==
    /\ pc[Server] = "reply" /\ cpc[cur] # "dead"
    /\ rsp' = [rsp EXCEPT ![cur] = answer]
    /\ link' = [link EXCEPT ![cur] = "eof"]
    /\ cur' = None /\ job' = None /\ answer' = None
    /\ Goto(Server, "loop")
    /\ UNCHANGED <<running, ebpf_sync_mutex, frame, countVars, process_resources,
                   backlog, req, clientVars, kernelVars, seen>>

(* A listening socket that closes resets the connections it has queued. *)
CloseQueue ==
    /\ backlog' = <<>>
    /\ link' = [c \in Clients |->
                   IF link[c] = "queued" \/ (c = cur /\ pc[Server] = "read") THEN "reset"
                   ELSE IF c = cur THEN "eof" ELSE link[c]]

(* The server's process ends, and with it both threads and the connections:  *)
(* one whose request it has read ends, the others are reset.                 *)
Die ==
    /\ pc' = [t \in Threads |-> IF t = Server THEN "down" ELSE "done"]
    /\ CloseQueue
    /\ cur' = None /\ job' = None /\ answer' = None
    /\ frame' = [t \in Threads |-> NoFrame] /\ running' = FALSE /\ ebpf_sync_mutex' = Free
    /\ UNCHANGED <<countVars, process_resources, req, rsp,
                   clientVars, kernelVars, seen>>

(* The client has gone: write raises SIGPIPE. *)
BrokenPipe == pc[Server] = "reply" /\ cpc[cur] = "dead" /\ Die

Kill == pc[Server] # "down" /\ Die

(* SIGINT or SIGTERM.  It ends a select that waits, but one that comes       *)
(* between the test of running and the select is not noticed there.  The     *)
(* other system calls are restarted.                                         *)
signal_handler ==
    /\ running /\ pc[Server] # "down"
    /\ running' = FALSE
    /\ \/ UNCHANGED pc
       \/ pc[Server] = "select" /\ Goto(Server, "loop")
    /\ UNCHANGED <<ebpf_sync_mutex, frame, countVars, process_resources, serveVars,
                   linkVars, clientVars, kernelVars, seen>>

(* cleanup destroys the mutexes before it joins the thread that uses them.   *)
(* Destroying a held mutex fails; locking a destroyed one fails at once.     *)
Cleanup ==
    /\ pc[Server] = "cleanup"
    /\ CloseQueue
    /\ ebpf_sync_mutex' = IF ebpf_sync_mutex = Free THEN Destroyed ELSE ebpf_sync_mutex
    /\ running' = FALSE
    /\ Goto(Server, "join")
    /\ UNCHANGED <<frame, countVars, process_resources, serveVars, req, rsp,
                   clientVars, kernelVars, seen>>

Join ==
    /\ pc[Server] = "join" /\ pc[Syncer] = "done"
    /\ Goto(Server, "down") /\ ebpf_sync_mutex' = Free
    /\ UNCHANGED <<running, frame, countVars, process_resources,
                   serveVars, linkVars, clientVars, kernelVars, seen>>

ServerStep == Listen \/ Loop \/ Accept \/ Read \/ Serve \/ Statistics \/ Reply \/ BrokenPipe
                     \/ Cleanup \/ Join

-----------------------------------------------------------------------------
(* Clients: every call is a connection for each request it makes.          *)

Active(c) == cpc[c] \in {"connect", "send", "wait"}
Listening == pc[Server] \notin {"down", "listen", "join"}

(* The request that a call sends; both tests of the QP limit ask for statistics. *)
Request(c) ==
    [op |-> IF call[c].op \in {"get_stats", "check_qp"} THEN "GET_STATS" ELSE call[c].op,
     arg |-> call[c].arg]

Asks(c) == Request(c).op \in {"GET_STATS", "GET_PROC_STATS"}

(* A client reports the end of what it was granted and has freed. *)
Frees(c, k) ==
    CASE k.op = "QP_DESTROY" -> /\ qps[c] > 0 /\ qps' = [qps EXCEPT ![c] = @ - 1]
                                /\ UNCHANGED mrs
      [] k.op = "MR_DESTROY" -> /\ mrs[c][k.arg] > 0 /\ mrs' = [mrs EXCEPT ![c][k.arg] = @ - 1]
                                /\ UNCHANGED qps
      [] OTHER -> UNCHANGED <<qps, mrs>>

Call(c) ==
    /\ cpc[c] = "idle" /\ made[c] < MaxCalls(c, mapped)
    /\ \E k \in Calls(c, mapped) :
          /\ Frees(c, k)
          /\ call' = [call EXCEPT ![c] = [op |-> k.op, arg |-> k.arg, round |-> 1, count |-> 0,
                                          told |-> TRUE]]
    /\ cpc' = [cpc EXCEPT ![c] = "connect"]
    /\ made' = [made EXCEPT ![c] = @ + 1]
    /\ verdict' = [verdict EXCEPT ![c] = None]
    /\ seen' = [seen EXCEPT ![c] = {}]
    /\ UNCHANGED <<countVars, process_resources, threadVars, serveVars, linkVars,
                   cached, kernelVars>>

(* get_global_qp_stats keeps the figures of an answer and, without one, the old ones. *)
Figures(c, r) ==
    IF Request(c).op = "GET_STATS" /\ r.text = "Stats" THEN [count |-> r.usage.qp, max |-> MaxQp]
    ELSE cached[c]

(* collector_get_global_qp_count has returned; the maximum is asked for next. *)
SecondRound(c, r) ==
    /\ call[c].op = "check_qp" /\ call[c].round = 1
    /\ call' = [call EXCEPT ![c].round = 2, ![c].count = Figures(c, r).count,
                            ![c].told = r.text = "Stats"]
    /\ cpc' = [cpc EXCEPT ![c] = "connect"]
    /\ UNCHANGED <<qps, mrs, verdict>>

(* collector_check_global_qp_limit: TRUE refuses. *)
CheckedQp(c, r) ==
    /\ call[c].op = "check_qp" /\ call[c].round = 2
    /\ LET count == call[c].count
           max   == Figures(c, r).max
       IN  verdict' = [verdict EXCEPT ![c] =
               [of |-> "qp", refused |-> max # 0 /\ count # 0 /\ count >= max,
                told |-> call[c].told /\ r.text = "Stats"]]
    /\ UNCHANGED <<qps, mrs>>

(* collector_check_global_memory_limit: no collector allows, an empty answer refuses. *)
CheckedMemory(c, r) ==
    /\ call[c].op = "CHECK_MEMORY"
    /\ verdict' = [verdict EXCEPT ![c] =
           [of |-> "memory", refused |-> r.text \notin {"Success", "fault"}, told |-> r.text \in Texts]]
    /\ UNCHANGED <<qps, mrs>>

(* The create events return whether the answer is a success. *)
Granted(c, r) ==
    /\ \/ /\ call[c].op = "QP_CREATE"
          /\ qps' = [qps EXCEPT ![c] = @ + IF r.text = "Success" THEN 1 ELSE 0]
          /\ UNCHANGED mrs
       \/ /\ call[c].op = "MR_CREATE"
          /\ mrs' = [mrs EXCEPT ![c][call[c].arg] = @ + IF r.text = "Success" THEN 1 ELSE 0]
          /\ UNCHANGED qps
    /\ UNCHANGED verdict

Told(c, r) ==
    /\ call[c].op \in {"get_stats", "GET_PROC_STATS", "QP_DESTROY", "MR_DESTROY"}
    /\ UNCHANGED <<qps, mrs, verdict>>

Finished(c) == cpc' = [cpc EXCEPT ![c] = "idle"] /\ call' = [call EXCEPT ![c] = None]

(* A request has ended with r: close, and on to the second request or back to the caller. *)
Return(c, r) ==
    /\ \/ SecondRound(c, r)
       \/ (CheckedQp(c, r) \/ CheckedMemory(c, r) \/ Granted(c, r) \/ Told(c, r)) /\ Finished(c)
    /\ cached' = [cached EXCEPT ![c] = Figures(c, r)]
    /\ link' = [link EXCEPT ![c] = "none"]
    /\ req' = [req EXCEPT ![c] = None] /\ rsp' = [rsp EXCEPT ![c] = None]

(* connect waits for room in the queue, and fails when nobody listens. *)
Connect(c) ==
    /\ cpc[c] = "connect"
    /\ \/ /\ Listening /\ Len(backlog) < Backlog
          /\ backlog' = Append(backlog, c) /\ link' = [link EXCEPT ![c] = "queued"]
          /\ cpc' = [cpc EXCEPT ![c] = "send"]
          /\ UNCHANGED <<req, rsp, call, cached, qps, mrs, verdict>>
       \/ ~Listening /\ Return(c, Fault) /\ UNCHANGED backlog
    /\ UNCHANGED <<countVars, process_resources, threadVars, serveVars, made,
                   kernelVars, seen>>

Send(c) ==
    /\ cpc[c] = "send"
    /\ \/ /\ link[c] \in {"queued", "open"}
          /\ req' = [req EXCEPT ![c] = Request(c)]
          /\ cpc' = [cpc EXCEPT ![c] = "wait"]
          /\ seen' = [seen EXCEPT ![c] = @ \cup IF Asks(c) THEN {kernel} ELSE {}]
          /\ UNCHANGED <<link, rsp, call, cached, qps, mrs, verdict>>
       \/ link[c] = "reset" /\ Return(c, Fault) /\ UNCHANGED seen
    /\ UNCHANGED <<countVars, process_resources, threadVars, serveVars, backlog,
                   made, kernelVars>>

Receive(c) ==
    /\ cpc[c] = "wait"
    /\ \/ rsp[c] # None /\ Return(c, rsp[c])
       \/ rsp[c] = None /\ link[c] = "eof" /\ Return(c, Eof)
       \/ rsp[c] = None /\ link[c] = "reset" /\ Return(c, Fault)
    /\ UNCHANGED <<countVars, process_resources, threadVars, serveVars, backlog,
                   made, kernelVars, seen>>

(* The process ends, by itself or by SIGPIPE: the kernel frees what it holds *)
(* and closes its connection, from which the server can still read.          *)
Crash(c) ==
    /\ cpc[c] # "dead" /\ made[c] > 0
    /\ cpc' = [cpc EXCEPT ![c] = "dead"]
    /\ call' = [call EXCEPT ![c] = None]
    /\ qps' = [qps EXCEPT ![c] = 0] /\ mrs' = [mrs EXCEPT ![c] = [s \in Sizes |-> 0]]
    /\ verdict' = [verdict EXCEPT ![c] = None]
    /\ cached' = [cached EXCEPT ![c] = [count |-> 0, max |-> DefaultMax]]
    /\ rsp' = [rsp EXCEPT ![c] = None]
    /\ seen' = [seen EXCEPT ![c] = {}] /\ made' = [made EXCEPT ![c] = MaxCalls(c, mapped)]
    /\ UNCHANGED <<countVars, process_resources, threadVars, serveVars, backlog,
                   link, req, kernelVars>>

ClientStep(c) == Connect(c) \/ Send(c) \/ Receive(c)

-----------------------------------------------------------------------------
(* The kernel's programs count verbs in the maps. *)
KernelCounts ==
    /\ mapped /\ changes < MaxChanges
    /\ kernel' \in KernelStates \ {kernel}
    /\ changes' = changes + 1
    /\ seen' = [c \in Clients |-> IF Active(c) /\ seen[c] # {} THEN seen[c] \cup {kernel'}
                                  ELSE seen[c]]
    /\ UNCHANGED <<countVars, process_resources, threadVars, serveVars, linkVars,
                   clientVars, mapped>>

CollectorNext ==
    \/ ServerStep \/ signal_handler \/ Kill
    \/ SyncThread \/ \E t \in Threads : SyncStep(t)
    \/ \E c \in Clients : Call(c) \/ ClientStep(c) \/ Crash(c)
    \/ KernelCounts

(* Threads run and calls go on; nobody has to call, to send signals  *)
(* or to die.  A thread that waits for ebpf_sync_mutex gets it, since its   *)
(* other user sleeps for a second after each turn.                                           *)
CollectorSpec ==
    /\ CollectorInit /\ [][CollectorNext]_vars
    /\ WF_vars(ServerStep) /\ WF_vars(SyncThread)
    /\ \A t \in Threads : SF_vars(SyncStep(t))
    /\ \A c \in Clients : WF_vars(ClientStep(c))

-----------------------------------------------------------------------------
(* Type invariant: counts are unsigned, a mutex has at most the holder that  *)
(* the threads' positions show, and only the served connection has a job.    *)
CollectorTypeOK ==
    /\ {global_qp_count, global_mr_count, global_memory_used} \subseteq Nat
    /\ process_resources \in [Pids -> Usage \cup {None}]
    /\ \A t \in Threads : pc[t] \in {"walk", "node", "qp", "mr", "unlock"} =>
                            ebpf_sync_mutex \in {t, Destroyed}
    /\ (job # None) => (cur \in Clients /\ job.op \in Requests)
    /\ qps \in [Clients -> Nat] /\ mrs \in [Clients -> [Sizes -> Nat]]
    /\ \A c \in Clients : link[c] = "queued" <=> \E i \in DOMAIN backlog : backlog[i] = c

MemoryOf(c) == SumFunctionOnSet([s \in Sizes |-> s * mrs[c][s]], Sizes)
QpsHeld     == SumFunctionOnSet(qps, Clients)
MemoryHeld  == SumFunctionOnSet([c \in Clients |-> MemoryOf(c)], Clients)

(* QP_CREATE and MR_CREATE: without kernel maps, what clients were granted  *)
(* and have not freed is counted and stays within the limits, whichever      *)
(* clients, answers and events of destruction are lost on the way (for       *)
(* lengths that cannot wrap a sum).                                          *)
GrantsCounted ==
    /\ CollectorTypeOK
    /\ (~mapped /\ \A s \in Sizes : MaxMemory + s < Word) =>
         /\ QpsHeld <= global_qp_count /\ global_qp_count <= MaxQp
         /\ MemoryHeld <= global_memory_used /\ global_memory_used <= MaxMemory

(* GET_STATS and GET_PROC_STATS: each figure of an answer is one that the    *)
(* kernel's maps held after the request was sent, though the synchronising   *)
(* thread copies older ones concurrently.  For a process this needs its      *)
(* entry to have been there throughout.                                      *)
FreshStats ==
    \A c \in Clients : (mapped /\ rsp[c] # None /\ rsp[c].text = "Stats") =>
        LET u == rsp[c].usage
        IN  IF Request(c).op = "GET_STATS"
            THEN /\ \E k \in seen[c] : u.qp = k.global.qp
                 /\ \E k \in seen[c] : u.mr = k.global.mr /\ u.used = k.global.used
            ELSE LET known == {k.proc[call[c].arg] : k \in seen[c]}
                 IN  None \notin known => u \in known

(* collector_check_global_qp_limit: a verdict reached with two answers of    *)
(* the collector is right for some moment since the call began, although it  *)
(* compares figures of different answers.                                    *)
VerdictOfOneMoment ==
    \A c \in Clients : (mapped /\ verdict[c] # None /\ verdict[c].of = "qp" /\ verdict[c].told) =>
        \E k \in seen[c] : verdict[c].refused = (k.global.qp >= MaxQp)

(* Every client call returns, though the server takes one connection at a    *)
(* time, shares a mutex with its other thread, and may end at any point.     *)
ClientsReturn == \A c \in Clients : Active(c) ~> ~Active(c)

(* sync_thread_func: while the server runs, its counts come back to the      *)
(* kernel's, whatever QP_CREATE and the others have added to them meanwhile. *)
CountsFollowKernel ==
    []<>((mapped /\ running /\ pc[Server] # "down") =>
            /\ global_qp_count = kernel.global.qp
            /\ global_mr_count = kernel.global.mr /\ global_memory_used = kernel.global.used)

(* cleanup: the thread to be joined ends, though the mutex it may be waiting *)
(* for, or about to take, is destroyed under it.                             *)
ShutdownCompletes == (pc[Server] = "cleanup") ~> (pc[Server] = "down")
=============================================================================
