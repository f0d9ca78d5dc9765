---------------------------- MODULE TenantDaemon ----------------------------
(***************************************************************************)
(* The tenant manager daemon (tenant_manager_daemon.c), which serves one    *)
(* connection at a time over a Unix stream socket, its clients              *)
(* (tenant_manager_client.c), and the command line tool (tenant_manager.c)  *)
(* that changes the same table without asking it.  A call of the table's    *)
(* API is one step.  The daemon handles SIGTERM and SIGINT; SIGPIPE keeps   *)
(* its default action, so a send to a client that has closed its end kills  *)
(* it.  JSON text, names, messages and the version and time stamps that     *)
(* UPDATE_QUOTA also writes are left out.                                   *)
(***************************************************************************)
EXTENDS TenantShm, Sequences

CONSTANTS
    Clients,            \* the client processes; each runs one command
    Requests,           \* what each client may ask
    Backlog,            \* connections that listen() lets wait
    DefaultLimit,       \* the limit a CREATE without qp or mr gets
    DefaultMemory,      \* the memory quota of a request that names none
    DefaultPd,          \* the PD quota every request gets
    MayInterrupt,       \* whether a client may be interrupted while it waits
    MaxSignals,         \* bound: signals sent to the daemon
    MaxStarts,          \* bound: starts of the daemon
    MaxCli              \* bound: commands of the command line tool

Absent   == -1          \* a field the request does not have
NoClient == "none"
NoAnswer == [ok |-> FALSE, seen |-> {}]
Writes   == {"CREATE", "DELETE", "UPDATE_QUOTA"}
Walks    == {"STATUS", "LIST_TENANTS"}

ASSUME DaemonAssumption ==
    /\ NoClient \notin Clients
    /\ \A c \in Clients : \A r \in Requests[c] :
         DOMAIN r = {"cmd", "tenant", "qp", "mr"} /\ {r.tenant, r.qp, r.mr} \subseteq Nat \cup {Absent}
    /\ {Backlog, DefaultLimit, DefaultMemory, DefaultPd} \subseteq Nat
    /\ {MaxSignals, MaxStarts, MaxCli} \subseteq Nat

VARIABLES
    dpc,                \* where the daemon is; "down" when there is none
    running, server_fd, \* the flag its loop tests; whether its socket listens
    cur,                \* the client whose connection it handles
    walk, answer,       \* next tenant to read; the response it is building
    queue,              \* connections not yet accepted
    cpc, request,       \* where each client is, what it asks
    sent, inbox,        \* whether its request, and the response, were delivered
    peer,               \* whether the daemon's end of its connection is open
    out,                \* what the client reports
    effects,            \* how often its request has changed the table
    stable, ever,       \* tenants that existed throughout, and at some time
                        \* in, the reading of the table under way
    signals, starts, cli

daemonVars == <<dpc, running, server_fd, cur, walk, answer, queue>>
clientVars == <<cpc, request, sent, inbox, peer, out, effects>>
readVars   == <<stable, ever>>
boundVars  == <<signals, starts, cli>>
allVars    == <<tableVars, daemonVars, clientVars, readVars, boundVars>>

NoRequest == [cmd |-> "none", tenant |-> Absent, qp |-> Absent, mr |-> Absent]

DaemonInit ==
    /\ TableInit
    /\ dpc = "down" /\ running = FALSE /\ server_fd = FALSE
    /\ cur = NoClient /\ walk = 0 /\ answer = NoAnswer /\ queue = <<>>
    /\ cpc = [c \in Clients |-> "idle"]
    /\ request = [c \in Clients |-> NoRequest]
    /\ sent = [c \in Clients |-> FALSE]
    /\ inbox = [c \in Clients |-> {}]
    /\ peer = [c \in Clients |-> FALSE]
    /\ out = [c \in Clients |-> "none"]
    /\ effects = [c \in Clients |-> 0]
    /\ stable = {} /\ ever = {}
    /\ signals = 0 /\ starts = 0 /\ cli = 0

Open(c) == cpc[c] \in {"send", "recv"}      \* the client's own end is open

-----------------------------------------------------------------------------
(* The client: main and send_command. *)

Invoke(c, r) ==
    /\ cpc[c] = "idle"
    /\ cpc' = [cpc EXCEPT ![c] = "connect"]
    /\ request' = [request EXCEPT ![c] = r]
    /\ UNCHANGED <<tableVars, daemonVars, sent, inbox, peer, out, effects, readVars, boundVars>>

Report(c, what) ==
    /\ out' = [out EXCEPT ![c] = what]
    /\ cpc' = [cpc EXCEPT ![c] = "done"]

(* connect fails when nobody listens and waits while the backlog is full.   *)
Connect(c) ==
    /\ cpc[c] = "connect"
    /\ \/ /\ ~server_fd
          /\ Report(c, "refused")
          /\ UNCHANGED <<queue, peer>>
       \/ /\ server_fd /\ Len(queue) < Backlog
          /\ queue' = Append(queue, c)
          /\ peer' = [peer EXCEPT ![c] = TRUE]
          /\ cpc' = [cpc EXCEPT ![c] = "send"]
          /\ UNCHANGED out
    /\ UNCHANGED <<tableVars, dpc, running, server_fd, cur, walk, answer,
                   request, sent, inbox, effects, readVars, boundVars>>

Send(c) ==
    /\ cpc[c] = "send"
    /\ IF peer[c]
       THEN /\ sent' = [sent EXCEPT ![c] = TRUE]
            /\ cpc' = [cpc EXCEPT ![c] = "recv"]
            /\ UNCHANGED out
       ELSE Report(c, "no answer") /\ UNCHANGED sent
    /\ UNCHANGED <<tableVars, daemonVars, request, inbox, peer, effects, readVars, boundVars>>

(* One recv, then close: data already delivered outlives the peer's end.    *)
Recv(c) ==
    /\ cpc[c] = "recv"
    /\ \/ \E a \in inbox[c] : Report(c, IF a.ok THEN "success" ELSE "failed")
       \/ inbox[c] = {} /\ ~peer[c] /\ Report(c, "no answer")
    /\ UNCHANGED <<tableVars, daemonVars, request, sent, inbox, peer, effects, readVars, boundVars>>

(* The user interrupts a client, or it is killed: its end is closed.        *)
Interrupt(c) ==
    /\ MayInterrupt /\ cpc[c] \in {"connect", "send", "recv"}
    /\ Report(c, "interrupted")
    /\ UNCHANGED <<tableVars, daemonVars, request, sent, inbox, peer, effects, readVars, boundVars>>

-----------------------------------------------------------------------------
(* The daemon.  A stale socket file is replaced, and nobody waits yet.      *)
create_server_socket == server_fd' = TRUE /\ queue' = <<>>

(* main: the table is kept as it is. *)
Start ==
    /\ dpc = "down" /\ starts < MaxStarts
    /\ dpc' = "test" /\ running' = TRUE
    /\ create_server_socket
    /\ starts' = starts + 1
    /\ UNCHANGED <<tableVars, cur, walk, answer, clientVars, readVars, signals, cli>>

(* The kernel drops the connections that wait on a socket when it closes.   *)
DropQueue ==
    /\ server_fd' = FALSE
    /\ queue' = <<>>
    /\ peer' = [c \in Clients |-> peer[c] /\ \A i \in DOMAIN queue : queue[i] # c]

(* The process ends, by return or by a signal, and everything is closed.    *)
Die ==
    /\ dpc' = "down" /\ running' = FALSE /\ server_fd' = FALSE
    /\ cur' = NoClient /\ walk' = 0 /\ answer' = NoAnswer /\ queue' = <<>>
    /\ peer' = [c \in Clients |-> FALSE]
    /\ stable' = {} /\ ever' = {}

signal_handler ==
    /\ dpc # "down" /\ signals < MaxSignals
    /\ running' = FALSE
    /\ DropQueue
    /\ signals' = signals + 1
    /\ UNCHANGED <<tableVars, dpc, cur, walk, answer, cpc, request, sent, inbox, out, effects,
                   readVars, starts, cli>>

(* while (running); past the loop main returns and cleanup removes the files. *)
Test ==
    /\ dpc = "test"
    /\ IF running
       THEN dpc' = "select"
            /\ UNCHANGED <<running, server_fd, cur, walk, answer, queue, peer, readVars>>
       ELSE Die
    /\ UNCHANGED <<tableVars, cpc, request, sent, inbox, out, effects, boundVars>>

(* select: a connection waits, or a second passes or a signal arrives.  With *)
(* server_fd at -1 FD_SET is undefined: it does no harm or the checked form  *)
(* of it aborts the process.                                                 *)
Select ==
    /\ dpc = "select"
    /\ \/ /\ dpc' = IF server_fd /\ queue # <<>> THEN "accept" ELSE "test"
          /\ UNCHANGED <<running, server_fd, cur, walk, answer, queue, peer, readVars>>
       \/ ~server_fd /\ Die
    /\ UNCHANGED <<tableVars, cpc, request, sent, inbox, out, effects, boundVars>>

(* accept: fails when the signal handler has closed the socket since.       *)
Accept ==
    /\ dpc = "accept"
    /\ IF server_fd
       THEN cur' = Head(queue) /\ queue' = Tail(queue) /\ dpc' = "recv"
       ELSE dpc' = "test" /\ UNCHANGED <<cur, queue>>
    /\ UNCHANGED <<tableVars, running, server_fd, walk, answer, clientVars, readVars, boundVars>>

Close ==
    /\ peer' = [peer EXCEPT ![cur] = FALSE]
    /\ cur' = NoClient
    /\ dpc' = "test"
    /\ answer' = NoAnswer

(* handle_client: a blocking recv, restarted after a signal, then           *)
(* process_command on what it returned.                                     *)
RecvCommand ==
    /\ dpc = "recv"
    /\ \/ sent[cur] /\ dpc' = "process" /\ UNCHANGED <<peer, cur, answer>>
       \/ ~sent[cur] /\ ~Open(cur) /\ Close
    /\ UNCHANGED <<tableVars, running, server_fd, walk, queue, cpc, request, sent, inbox, out,
                   effects, readVars, boundVars>>

(* The quota a CREATE (limit is the default one) or an UPDATE_QUOTA (limit  *)
(* is qp) describes.                                                        *)
QuotaOf(r, limit) ==
    LET Or(v, d) == IF v = Absent THEN d ELSE v IN
    [k \in Resources |-> CASE k \in {"QP", "CQ"} -> Or(r.qp, limit)
                           [] k = "MR"     -> Or(r.mr, limit)
                           [] k = "Memory" -> DefaultMemory
                           [] k = "PD"     -> DefaultPd]

handle_create(r)       == r.tenant # Absent /\ tenant_create(r.tenant, QuotaOf(r, DefaultLimit))
handle_delete(r)       == r.tenant # Absent /\ tenant_delete(r.tenant)
handle_update_quota(r) == r.tenant # Absent /\ r.qp # Absent
                          /\ tenant_update_quota(r.tenant, QuotaOf(r, r.qp))

(* The table accepts the command; when it does not, the call fails.         *)
Accepted(r) ==
    /\ r.tenant \in TenantIds
    /\ \/ r.cmd = "CREATE" /\ r.tenant # 0 /\ status[r.tenant] = "INACTIVE"
       \/ r.cmd = "DELETE" /\ r.tenant # 0 /\ status[r.tenant] # "INACTIVE"
       \/ r.cmd = "UPDATE_QUOTA" /\ r.qp # Absent /\ status[r.tenant] # "INACTIVE"

(* A command that writes. *)
ProcessWrite ==
    LET r == request[cur] IN
    /\ dpc = "process" /\ r.cmd \in Writes
    /\ IF Accepted(r)
       THEN /\ \/ r.cmd = "CREATE" /\ handle_create(r)
               \/ r.cmd = "DELETE" /\ handle_delete(r)
               \/ r.cmd = "UPDATE_QUOTA" /\ handle_update_quota(r)
            /\ effects' = [effects EXCEPT ![cur] = @ + 1]
       ELSE UNCHANGED <<tableVars, effects>>
    /\ answer' = [ok |-> Accepted(r), seen |-> {}]
    /\ dpc' = "answer"
    /\ UNCHANGED <<running, server_fd, cur, walk, queue, cpc, request, sent, inbox, peer, out,
                   readVars, boundVars>>

(* Variant: no response, and a return past the close. *)
ProcessUnknown_returns ==
    /\ dpc = "process" /\ request[cur].cmd \notin Writes \cup Walks
    /\ dpc' = "test" /\ cur' = NoClient
    /\ UNCHANGED <<tableVars, running, server_fd, walk, answer, queue, clientVars, readVars,
                   boundVars>>

(* Text that is not JSON, or no command the daemon knows. *)
ProcessUnknown ==
    /\ dpc = "process" /\ request[cur].cmd \notin Writes \cup Walks
    /\ dpc' = "answer"
    /\ UNCHANGED <<tableVars, running, server_fd, cur, walk, answer, queue, clientVars,
                   readVars, boundVars>>

ReadsFrom(pc, t, a) ==
    /\ dpc' = pc /\ walk' = t /\ answer' = a
    /\ stable' = Existing /\ ever' = Existing

(* handle_status for one tenant: tenant_get_info copies its record...       *)
ProcessStatus ==
    LET r == request[cur] IN
    /\ dpc = "process" /\ r.cmd = "STATUS" /\ r.tenant # Absent
    /\ IF r.tenant \in TenantIds
       THEN ReadsFrom("info", r.tenant, NoAnswer)
       ELSE dpc' = "answer" /\ UNCHANGED <<walk, answer, readVars>>
    /\ UNCHANGED <<tableVars, running, server_fd, cur, queue, clientVars, boundVars>>

(* ... and decides its result by a status it reads after the unlock.        *)
CheckInfo ==
    /\ dpc = "info"
    /\ answer' = IF status[walk] # "INACTIVE" THEN [ok |-> TRUE, seen |-> {walk}] ELSE NoAnswer
    /\ dpc' = "answer"
    /\ UNCHANGED <<tableVars, running, server_fd, cur, walk, queue, clientVars, readVars, boundVars>>

(* handle_status for all, and handle_list_tenants: a walk without the lock. *)
ProcessWalk ==
    /\ dpc = "process" /\ request[cur].cmd \in Walks
    /\ request[cur].cmd = "STATUS" => request[cur].tenant = Absent
    /\ ReadsFrom("walk", 0, [ok |-> TRUE, seen |-> {}])
    /\ UNCHANGED <<tableVars, running, server_fd, cur, queue, clientVars, boundVars>>

(* Variant: the walk stops one too early. *)
Shown_but_last(t) == status[t] # "INACTIVE" /\ t # MaxTenants - 1

Shown(t) == status[t] # "INACTIVE"

WalkStep ==
    /\ dpc = "walk"
    /\ answer' = [answer EXCEPT !.seen = IF Shown(walk) THEN @ \cup {walk} ELSE @]
    /\ IF walk + 1 = MaxTenants
       THEN dpc' = "answer" /\ UNCHANGED walk
       ELSE walk' = walk + 1 /\ UNCHANGED dpc
    /\ UNCHANGED <<tableVars, running, server_fd, cur, queue, clientVars, readVars, boundVars>>

(* Variant: a daemon that is shutting down does not answer any more. *)
Answer_while_running ==
    /\ dpc = "answer"
    /\ IF ~Open(cur)
       THEN Die /\ UNCHANGED inbox
       ELSE /\ inbox' = [inbox EXCEPT ![cur] = IF running THEN {answer} ELSE {}]
            /\ dpc' = "newline" /\ walk' = 0 /\ answer' = NoAnswer /\ stable' = {} /\ ever' = {}
            /\ UNCHANGED <<running, server_fd, cur, queue, peer>>
    /\ UNCHANGED <<tableVars, cpc, request, sent, out, effects, boundVars>>

(* The response: one send for it...                                         *)
Answer ==
    /\ dpc = "answer"
    /\ IF ~Open(cur)
       THEN Die /\ UNCHANGED inbox
       ELSE /\ inbox' = [inbox EXCEPT ![cur] = {answer}]
            /\ dpc' = "newline" /\ walk' = 0 /\ answer' = NoAnswer /\ stable' = {} /\ ever' = {}
            /\ UNCHANGED <<running, server_fd, cur, queue, peer>>
    /\ UNCHANGED <<tableVars, cpc, request, sent, out, effects, boundVars>>

(* ... and one for a newline, which the client does not wait for.           *)
Newline ==
    /\ dpc = "newline"
    /\ IF ~Open(cur) THEN Die
       ELSE Close /\ UNCHANGED <<running, server_fd, walk, queue, readVars>>
    /\ UNCHANGED <<tableVars, cpc, request, sent, inbox, out, effects, boundVars>>

-----------------------------------------------------------------------------
(* The command line tool: it calls the table's API itself. *)
Cli ==
    /\ cli < MaxCli
    /\ \/ \E t \in TenantIds \ {0} : tenant_create(t, QuotaOf(NoRequest, DefaultLimit))
       \/ \E t \in TenantIds : tenant_delete(t)
       \/ \E p \in Pids, t \in TenantIds \ {0} : tenant_bind_process(p, t)
       \/ \E p \in Pids : tenant_unbind_process(p)
    /\ cli' = cli + 1
    /\ stable' = IF dpc \in {"info", "walk"} THEN stable \cap Existing' ELSE stable
    /\ ever' = IF dpc \in {"info", "walk"} THEN ever \cup Existing' ELSE ever
    /\ UNCHANGED <<daemonVars, clientVars, signals, starts>>

DaemonStep ==
    \/ Test \/ Select \/ Accept \/ RecvCommand
    \/ ProcessWrite \/ ProcessUnknown \/ ProcessStatus \/ CheckInfo \/ ProcessWalk \/ WalkStep
    \/ Answer \/ Newline

ClientStep(c) == Connect(c) \/ Send(c) \/ Recv(c)

DaemonNext ==
    \/ Start \/ signal_handler \/ DaemonStep \/ Cli
    \/ \E c \in Clients : ClientStep(c) \/ Interrupt(c) \/ \E r \in Requests[c] : Invoke(c, r)

(* The daemon is one thread that runs; so is a client: it sends what it     *)
(* connected for, or is gone.                                               *)
DaemonSpec ==
    /\ DaemonInit /\ [][DaemonNext]_allVars
    /\ WF_allVars(DaemonStep)
    /\ \A c \in Clients : WF_allVars(ClientStep(c))

-----------------------------------------------------------------------------
(* What a client reports is what happened to the table: success means its   *)
(* command changed the table exactly once, failure that it never did, and a *)
(* client that got no answer, because the daemon was stopped, killed or     *)
(* restarted around it, may repeat a command that was never carried out.    *)
(* handle_client keeps this: once it has read a command it sends the        *)
(* response whatever signal arrives.                                        *)
AnswersTrue ==
    \A c \in Clients :
        LET wrote == request[c].cmd \in Writes IN
        /\ effects[c] <= 1
        /\ out[c] = "success" /\ wrote => effects[c] = 1
        /\ out[c] \in {"failed", "no answer", "refused"} => effects[c] = 0

(* STATUS and LIST_TENANTS answer for the time in which they read: a tenant *)
(* that existed throughout is reported, one that never did is not, although *)
(* the walk takes no lock and tenant_get_info decides after its unlock.     *)
Asked(c)    == IF request[c].cmd = "STATUS" /\ request[c].tenant # Absent
               THEN {request[c].tenant} ELSE TenantIds
ReportsTrue ==
    dpc = "answer" /\ request[cur].cmd \in Walks =>
        /\ stable \cap Asked(cur) \subseteq answer.seen
        /\ answer.seen \subseteq ever

(* Every client returns: whether its command is carried out or not, whoever *)
(* else is served before it, and whatever becomes of the daemon.            *)
ClientsReturn == []<>(\A c \in Clients : cpc[c] \in {"idle", "done"})

(* A daemon that was told to stop stops, although recv is restarted after   *)
(* the signal and its loop may run on with a socket it has closed.          *)
ShutdownCompletes == []<>(dpc # "down" => running)

(* Both: nobody waits for ever, neither a client nor who stops the daemon.  *)
DaemonProgress == ClientsReturn /\ ShutdownCompletes

(* The daemon keeps listening for commands until a signal stops it.         *)
ListensUntilSignalled == starts > 0 /\ signals = 0 => server_fd
=============================================================================
