--------------------------- MODULE MCLegacyHooks ---------------------------
(* TLC instances of LegacyHooks: what a process and its threads do.         *)
EXTENDS LegacyHooks

CONSTANTS t1, t2

MCDefault == [k \in Keys |-> CASE k = "enable_intercept" -> TRUE
                               [] k \in {"enable_qp_control", "enable_mr_control"} -> FALSE
                               [] k = "log_level" -> INFO
                               [] k = "log_file_path" -> "a"
                               [] OTHER -> 3]
MCConfigs == {[MCDefault EXCEPT !["log_file_path"] = ""],
              [MCDefault EXCEPT !["log_file_path"] = "b", !["log_level"] = ERROR],
              [MCDefault EXCEPT !["log_file_path"] = "c", !["enable_intercept"] = FALSE]}

Entry(k, v) == [key |-> k, value |-> v, parses |-> TRUE]
Broken(k)   == [key |-> k, value |-> 0, parses |-> FALSE]

(* Control of QPs and MRs from the environment, with a limit that the file  *)
(* lowers, and entries that do not parse or that belong elsewhere.          *)
Env    == {Entry("enable_qp_control", TRUE), Entry("max_qp_per_process", 2),
           Entry("enable_mr_control", TRUE), Entry("max_mr_per_process", 1),
           Broken("max_memory_per_process"), Entry("log_level", INFO)}
File   == <<Entry("log_level", INFO), Entry("max_qp_per_process", 1), Broken("enable_qp_control"),
            Entry("log_level", ERROR), Entry("max_mr_per_process", 3), Entry("log_file_path", "b")>>
Quiet  == <<Entry("log_level", ERROR)>>

Use(f, g, n) ==
    [calls |-> [t \in Threads |-> IF t = t1 THEN f ELSE g], max_calls |-> n, started |-> FALSE,
     enabled |-> TRUE, env |-> Env, default_file |-> {}, named_file |-> {Quiet},
     resolved |-> Verbs \ {"destroy_mr"}, region |-> "room", left |-> Zero, ebpf |-> FALSE]

QpMr == {"create_qp", "destroy_qp", "reg_mr", "dereg_mr"}
MCUses ==
    \* two threads log, and change where and what
    {[Use({"log", "set_log_file", "rotate_log", "print_config", "cleanup"},
          {"set_config", "set_log_level", "set_log_file", "init"}, 6) EXCEPT !.started = TRUE],
    \* two threads do so before the library has started, and start and stop it
     Use({"init", "log", "rotate_log"}, {"set_config", "set_log_file", "cleanup"}, 5),
    \* two threads call verbs at once, with and without the region
     Use({"create_qp", "destroy_qp", "reg_mr", "dereg_mr"}, {"create_qp", "destroy_qp", "reg_mr"}, 5),
     [Use({"create_qp", "destroy_qp"}, {"create_qp", "destroy_qp"}, 6) EXCEPT !.region = "none"],
    \* one thread calls verbs while the other reconfigures or stops the library
     [Use({"create_qp", "destroy_qp"}, {"set_config", "cleanup"}, 6) EXCEPT !.default_file = {File}]}
    \* one thread calls verbs
    \cup {[Use(QpMr, {}, 6) EXCEPT !.region = r, !.ebpf = e, !.default_file = d] :
             r \in {"room", "none", "full"}, e \in BOOLEAN, d \in {{}, {File}}}
    \* one with the pid of an earlier process
    \cup {[Use(QpMr, {}, 5) EXCEPT !.left.qp = n, !.default_file = {File}] : n \in {1, 2}}
    \cup {[Use(QpMr, {}, 6) EXCEPT !.left = [qp |-> 1, mr |-> 1, memory |-> 1]]}
    \cup {[Use(Verbs, {}, 3) EXCEPT !.enabled = e, !.named_file = {}] : e \in BOOLEAN}
=============================================================================
