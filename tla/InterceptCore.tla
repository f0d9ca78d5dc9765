---------------------------- MODULE InterceptCore ----------------------------
(***************************************************************************)
(* The interception library inside one process: its start and end           *)
(* (intercept_core.c), its configuration (config.c) and its log (logger.c). *)
(* A FILE is a path and whether it is still open; the text written to it is *)
(* left out, and of the lines that a call logs only the last is kept: the   *)
(* others are calls of the same function.  The configuration keeps the keys *)
(* that other parts read.                                                   *)
(* Callers start and stop the library while no other thread is in it.       *)
(***************************************************************************)
EXTENDS Integers, FiniteSets, SequencesExt

CONSTANTS
    Threads,        \* the threads of the process
    Uses,           \* the settings and programs that are checked; see use
    Paths,          \* log file paths
    Levels,         \* log levels that callers use
    DefaultConfig,  \* the initial g_intercept_state.config
    ConfigArgs,     \* what callers of rdma_intercept_set_config pass
    Found           \* the outcomes of the search for the real verbs

INFO  == 1
ERROR == 3

(* Keys of the configuration, those the environment can set, and those the  *)
(* table of the configuration file has.                                     *)
EnvKeys  == {"enable_qp_control", "max_qp_per_process", "enable_mr_control",
             "max_mr_per_process", "max_memory_per_process", "log_file_path"}
FileKeys == {"enable_intercept", "log_level", "log_file_path", "enable_qp_control",
             "max_qp_per_process"}
Keys     == EnvKeys \cup FileKeys

NullFile == [path |-> "NULL", open |-> FALSE]
Nobody   == "nobody"
CoreCalls == {"log", "print_config", "set_log_level", "set_log_file", "rotate_log", "set_config",
              "init", "cleanup"}

(* What a key can be set to, and what a file can say: a sequence of lines,  *)
(* those that parse setting a key to what it can be set to.                 *)
Fits(k, v) ==
    /\ k \in {"enable_intercept", "enable_qp_control", "enable_mr_control"} => v \in BOOLEAN
    /\ k \in {"log_level", "max_qp_per_process", "max_mr_per_process", "max_memory_per_process"}
          => v \in Nat
    /\ k = "log_file_path" => v # "NULL"
ConfigFits(c) == c = [k \in Keys |-> c[k]] /\ \A k \in Keys : Fits(k, c[k])
EntryFits(e)  == e.parses \in BOOLEAN /\ (e.parses => Fits(e.key, e.value))
FileFits(f)   == Len(f) \in Nat /\ DOMAIN f = 1 .. Len(f) /\ \A i \in DOMAIN f : EntryFits(f[i])

ASSUME CoreAssumption ==
    /\ IsFiniteSet(Threads) /\ Nobody \notin Threads /\ "NULL" \notin Paths
    /\ INFO \in Levels /\ Levels \subseteq Nat
    /\ \A c \in {DefaultConfig} \cup ConfigArgs : ConfigFits(c)
    /\ Found \subseteq BOOLEAN
    /\ \A u \in Uses :
         /\ u.max_calls \in Nat /\ u.started \in BOOLEAN
         /\ \A e \in u.env : EntryFits(e)
         /\ \A f \in u.default_file : FileFits(f)
         /\ \A f \in u.named_file : FileFits(f)

VARIABLES
    use,            \* what each thread calls, how many calls in all (a bound), the
                    \* environment, the files, and what else the process finds
    once,           \* hooks_init_once: "no", "running" or "done"
    initialized, config, log_file,      \* g_intercept_state
    holder,         \* who has log_file_mutex
    pc, op,         \* where each thread is, in which call
    level, path,    \* the level it logs at, the path it sets
    reg,            \* the configuration it is building
    hurt,           \* a failed call has left log_file pointing to a closed FILE
    stray,          \* set_config has changed the path and left the log where it was
    misused,        \* a FILE was used or closed after it had been closed
    calls

coreVars   == <<once, initialized, config, log_file, holder, hurt, stray, misused>>
threadVars == <<pc, op, level, path, reg>>

Idle(t)     == pc[t] = "idle"
Inside      == {t \in Threads : ~Idle(t)}
Goto(t, p)  == pc' = [pc EXCEPT ![t] = p]
Finish(t)   == Goto(t, "idle") /\ op' = [op EXCEPT ![t] = "none"]
LogAt(t, l) == Goto(t, "log") /\ level' = [level EXCEPT ![t] = l]

rdma_intercept_is_enabled == initialized /\ config["enable_intercept"]

CoreInit ==
    /\ use \in Uses
    /\ once = IF use.started THEN "done" ELSE "no"
    /\ initialized = use.started
    /\ config = DefaultConfig
    /\ log_file = IF use.started THEN [path |-> DefaultConfig["log_file_path"], open |-> TRUE]
                                 ELSE NullFile
    /\ holder = Nobody
    /\ pc = [t \in Threads |-> "idle"] /\ op = [t \in Threads |-> "none"]
    /\ level = [t \in Threads |-> INFO]
    /\ path = [t \in Threads |-> DefaultConfig["log_file_path"]]
    /\ reg = [t \in Threads |-> DefaultConfig]
    /\ hurt = FALSE /\ stray = FALSE /\ misused = FALSE /\ calls = 0

-----------------------------------------------------------------------------
(* rdma_intercept_load_config.  An entry names a key, and its value parses  *)
(* or does not; one that does not leaves the key as it was.                 *)

load_config_from_env(c) ==
    [k \in Keys |-> LET given == {e \in use.env : e.key = k /\ k \in EnvKeys /\ e.parses} IN
                    IF given = {} THEN c[k] ELSE (CHOOSE e \in given : TRUE).value]

parse_config_line(c, l) ==
    IF l.key \in FileKeys /\ l.parses THEN [c EXCEPT ![l.key] = l.value] ELSE c

(* The default file, or else the one RDMA_INTERCEPT_CONFIG names, or none.  *)
ConfigLines ==
    IF use.default_file # {} THEN CHOOSE f \in use.default_file : TRUE
    ELSE IF use.named_file # {} THEN CHOOSE f \in use.named_file : TRUE ELSE <<>>

(* Variant: a line that does not parse ends the file. *)
rdma_intercept_load_config_stops(c) ==
    LET Bad == {i \in DOMAIN ConfigLines : ~ConfigLines[i].parses} IN
    FoldLeft(parse_config_line, load_config_from_env(c),
             IF Bad = {} THEN ConfigLines ELSE SubSeq(ConfigLines, 1, Min(Bad) - 1))

rdma_intercept_load_config(c) ==
    FoldLeft(parse_config_line, load_config_from_env(c), ConfigLines)

-----------------------------------------------------------------------------
(* rdma_intercept_init: load the configuration, ...                         *)
LoadConfig(t) ==
    /\ pc[t] = "load"
    /\ reg' = [reg EXCEPT ![t] = rdma_intercept_load_config(config)]
    /\ Goto(t, "apply")
    /\ UNCHANGED <<use, coreVars, op, level, path, calls>>

ApplyConfig(t) ==
    /\ pc[t] = "apply"
    /\ config' = reg[t]
    /\ reg' = [reg EXCEPT ![t] = DefaultConfig]
    /\ Goto(t, "open")
    /\ UNCHANGED <<use, once, initialized, log_file, holder, hurt, stray, misused, op, level, path, calls>>

(* Where a thread goes after init: a verb goes on, a direct call returns.   *)
Initialised(t) ==
    /\ once' = IF op[t] = "init" THEN once ELSE "done"
    /\ IF op[t] = "init" THEN Finish(t) ELSE Goto(t, "verb") /\ UNCHANGED op

(* ... open the log, find the real verbs and write to the log that they are *)
(* found.  When they are not the log is closed and log_file still points to *)
(* it.  None of this takes log_file_mutex.                                  *)
OpenLog(t) ==
    /\ pc[t] = "open"
    /\ \/ /\ config["log_file_path"] # ""
          /\ log_file' = [path |-> config["log_file_path"], open |-> TRUE]
          /\ Goto(t, "link")
          /\ UNCHANGED <<once, op>>
       \/ log_file' = NullFile /\ Initialised(t)
    /\ stray' = FALSE
    /\ UNCHANGED <<use, initialized, config, holder, hurt, misused, level, path, reg, calls>>

LinkVerbs(t) ==
    /\ pc[t] = "link"
    /\ \E found \in Found :
         /\ initialized' = found
         /\ log_file' = [log_file EXCEPT !.open = @ /\ found]
         /\ hurt' = (hurt \/ ~found)
    /\ misused' = (misused \/ ~log_file.open)
    /\ Initialised(t)
    /\ UNCHANGED <<use, config, holder, stray, level, path, reg, calls>>

rdma_intercept_init(t) ==
    /\ IF initialized THEN Finish(t) ELSE Goto(t, "load") /\ op' = [op EXCEPT ![t] = "init"]
    /\ UNCHANGED <<coreVars, level, path, reg>>

rdma_intercept_cleanup(t) ==
    /\ IF initialized
       THEN /\ misused' = (misused \/ (log_file # NullFile /\ ~log_file.open))
            /\ log_file' = NullFile /\ initialized' = FALSE
       ELSE UNCHANGED <<misused, log_file, initialized>>
    /\ UNCHANGED <<once, config, holder, hurt, stray, threadVars>>

-----------------------------------------------------------------------------
(* The log.  A test without the mutex, then the write under it.             *)
LogEnter(t) ==
    /\ pc[t] = "log"
    /\ IF initialized /\ level[t] >= config["log_level"] /\ log_file # NullFile
       THEN Goto(t, "write_lock") /\ UNCHANGED op
       ELSE Finish(t)
    /\ level' = IF initialized /\ level[t] >= config["log_level"] /\ log_file # NullFile
                THEN level ELSE [level EXCEPT ![t] = INFO]
    /\ UNCHANGED <<use, coreVars, path, reg, calls>>

LockFile(t) ==
    /\ pc[t] \in {"write_lock", "close_lock"}
    /\ holder = Nobody
    /\ holder' = t
    /\ Goto(t, IF pc[t] = "write_lock" THEN "write" ELSE "close")
    /\ UNCHANGED <<use, once, initialized, config, log_file, hurt, stray, misused, op, level, path, reg, calls>>

LogWrite(t) ==
    /\ pc[t] = "write"
    /\ misused' = (misused \/ (log_file # NullFile /\ ~log_file.open))
    /\ holder' = Nobody
    /\ Finish(t)
    /\ level' = [level EXCEPT ![t] = INFO]
    /\ UNCHANGED <<use, once, initialized, config, log_file, hurt, stray, path, reg, calls>>

(* set_log_file closes the old file if there is one, rotate_log the one it  *)
(* saw before it took the mutex; then either opens the file anew.           *)
CloseLog(t) ==
    /\ pc[t] = "close"
    /\ misused' = (misused \/ (~log_file.open /\ (log_file # NullFile \/ op[t] = "rotate_log")))
    /\ log_file' = [log_file EXCEPT !.open = FALSE]
    /\ Goto(t, "reopen")
    /\ UNCHANGED <<use, once, initialized, config, holder, hurt, stray, op, level, path, reg, calls>>

(* Variant: set_log_file leaves the path of the configuration alone. *)
ReopenLog_forgets_path(t) ==
    /\ pc[t] = "reopen"
    /\ stray' = FALSE
    /\ log_file' = [path |-> IF op[t] = "rotate_log" THEN config["log_file_path"] ELSE path[t],
                    open |-> TRUE]
    /\ LogAt(t, INFO)
    /\ holder' = Nobody
    /\ path' = [path EXCEPT ![t] = DefaultConfig["log_file_path"]]
    /\ UNCHANGED <<use, once, initialized, config, hurt, misused, op, reg, calls>>

ReopenLog(t) ==
    LET p == IF op[t] = "rotate_log" THEN config["log_file_path"] ELSE path[t] IN
    /\ pc[t] = "reopen"
    /\ \/ /\ p # ""
          /\ log_file' = [path |-> p, open |-> TRUE]
          /\ config' = [config EXCEPT !["log_file_path"] = p]
          /\ stray' = FALSE
          /\ LogAt(t, INFO)
          /\ UNCHANGED <<hurt, op>>
       \/ /\ hurt' = (hurt \/ log_file # NullFile)
          /\ IF op[t] = "set_config" THEN LogAt(t, INFO) /\ UNCHANGED op
                                     ELSE Finish(t) /\ UNCHANGED level
          /\ UNCHANGED <<log_file, config, stray>>
    /\ holder' = Nobody
    /\ path' = [path EXCEPT ![t] = DefaultConfig["log_file_path"]]
    /\ UNCHANGED <<use, once, initialized, misused, reg, calls>>

rdma_intercept_set_log_level(t) ==
    /\ \E l \in Levels : config' = [config EXCEPT !["log_level"] = l]
    /\ LogAt(t, INFO)
    /\ UNCHANGED <<once, initialized, log_file, holder, hurt, stray, misused, path, reg>>

(* The path is unusable, or the directory cannot be made: nothing happens.  *)
rdma_intercept_set_log_file(t) ==
    /\ \/ \E p \in Paths : path' = [path EXCEPT ![t] = p] /\ Goto(t, "close_lock")
       \/ UNCHANGED <<path, pc>>
    /\ UNCHANGED <<coreVars, level, reg>>

rdma_intercept_rotate_log(t) ==
    /\ log_file # NullFile /\ config["log_file_path"] # ""
    /\ Goto(t, "close_lock")
    /\ UNCHANGED <<coreVars, level, path, reg>>

(* The configuration is replaced; then the log is, by rdma_intercept_set_-  *)
(* log_file, which an empty path skips and which does nothing when the      *)
(* directory cannot be made.                                                *)
rdma_intercept_set_config(t) ==
    /\ \E c \in ConfigArgs :
         /\ config' = c
         /\ \/ /\ c["log_file_path"] # ""
               /\ path' = [path EXCEPT ![t] = c["log_file_path"]]
               /\ Goto(t, "close_lock")
               /\ UNCHANGED <<stray, level>>
            \/ LogAt(t, INFO) /\ stray' = TRUE /\ UNCHANGED path
    /\ UNCHANGED <<once, initialized, log_file, holder, hurt, misused, reg>>

rdma_intercept_log(t) ==
    /\ \E l \in Levels : LogAt(t, l)
    /\ UNCHANGED <<coreVars, path, reg>>

rdma_intercept_print_config(t) == LogAt(t, INFO) /\ UNCHANGED <<coreVars, path, reg>>

-----------------------------------------------------------------------------
(* A thread calls the library. *)
CallCore(t) ==
    /\ Idle(t) /\ calls < use.max_calls
    /\ \A s \in Inside : op[s] # "init"
    /\ \E o \in use.calls[t] \cap CoreCalls :
         /\ \/ o = "log" /\ rdma_intercept_log(t)
            \/ o = "print_config" /\ rdma_intercept_print_config(t)
            \/ o = "set_log_level" /\ rdma_intercept_set_log_level(t)
            \/ o = "set_log_file" /\ rdma_intercept_set_log_file(t)
            \/ o = "rotate_log" /\ rdma_intercept_rotate_log(t)
            \/ o = "set_config" /\ rdma_intercept_set_config(t)
            \/ o = "init" /\ Inside = {} /\ rdma_intercept_init(t)
            \/ o = "cleanup" /\ Inside = {} /\ rdma_intercept_cleanup(t)
         /\ o \notin {"init", "cleanup"} =>
              op' = [op EXCEPT ![t] = IF pc'[t] = "idle" THEN "none" ELSE o]
    /\ calls' = calls + 1
    /\ UNCHANGED use

CoreStep(t) ==
    \/ LoadConfig(t) \/ ApplyConfig(t) \/ OpenLog(t) \/ LinkVerbs(t)
    \/ LogEnter(t) \/ LockFile(t) \/ LogWrite(t) \/ CloseLog(t) \/ ReopenLog(t)

-----------------------------------------------------------------------------
(* The library has started before a thread sets or rotates the log, or the  *)
(* caller starts it, while no other thread is in it.  The first verb starts *)
(* it whatever the other threads do, and without log_file_mutex.            *)
StartsAlone ==
    \/ use.started
    \/ \A t \in Threads : use.calls[t] \cap {"set_log_file", "rotate_log", "set_config"} = {}
    \/ \A t \in Threads : use.calls[t] \subseteq CoreCalls

(* Every write goes to a FILE that is open, and no FILE is closed twice,    *)
(* unless a call that failed left log_file pointing to a closed one.  And   *)
(* when no thread is in the library the log is open and is the file that    *)
(* the configuration names, in whatever order threads set and rotated it,   *)
(* unless rdma_intercept_set_config changed the name without getting to the *)
(* log (no path, or no directory for it) and nothing reopened it since.     *)
LogSound ==
    StartsAlone /\ ~hurt =>
        /\ ~misused
        /\ Inside = {} /\ log_file # NullFile =>
             log_file.open /\ (stray \/ log_file.path = config["log_file_path"])

(* The configuration after start: for each key the last line of the file    *)
(* that sets it to something valid, else the environment, else the default. *)
(* (config.c:362 says that the environment has priority: its comment is at  *)
(* odds with the code, where the file is read after the environment.)       *)
Setters == {"set_config", "set_log_level", "set_log_file"}
ConfigLayered ==
    LET LinesFor(k) == {i \in DOMAIN ConfigLines : /\ ConfigLines[i].key = k /\ k \in FileKeys
                                                   /\ ConfigLines[i].parses}
        EnvFor(k)   == {e \in use.env : e.key = k /\ k \in EnvKeys /\ e.parses} IN
    initialized /\ ~use.started /\ (\A t \in Threads : use.calls[t] \cap Setters = {}) =>
        \A k \in Keys :
            \/ LinesFor(k) # {} /\ config[k] = ConfigLines[Max(LinesFor(k))].value
            \/ LinesFor(k) = {} /\ \E e \in EnvFor(k) : config[k] = e.value
            \/ LinesFor(k) = {} /\ EnvFor(k) = {} /\ config[k] = DefaultConfig[k]
=============================================================================
