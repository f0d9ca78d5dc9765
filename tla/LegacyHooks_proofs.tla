------------------------- MODULE LegacyHooks_proofs -------------------------
(***************************************************************************)
(* Proofs about the interception core and the verbs of rdma_hooks.c:        *)
(* the log is sound, the configuration is layered, and what the process     *)
(* counts, publishes and is refused, for every value of the constants.      *)
(***************************************************************************)
EXTENDS LegacyHooks, FiniteSetTheorems, TLAPS

-----------------------------------------------------------------------------
(* The type invariant.                                                      *)

Starter    == {"load", "apply", "open", "link"}
FilePlaces == {"close_lock", "close", "reopen"}
LogPlaces  == {"log", "write_lock", "write"}
MrPlaces   == {"load_mr", "store_mr", "load_memory", "store_memory"}
Hooked     == {"limit", "global", "real", "count", "snapshot", "publish"} \cup MrPlaces
Places     == {"idle", "once", "verb"} \cup Starter \cup FilePlaces \cup LogPlaces \cup Hooked
Counters   == [qp : Nat, mr : Nat, memory : Nat]

LogFileOK(f) ==
    /\ f = [path |-> f.path, open |-> f.open] /\ f.open \in BOOLEAN
    /\ f = NullFile \/ f.path # "NULL"

CoreTypeOK ==
    /\ use \in Uses /\ calls \in Nat
    /\ once \in {"no", "running", "done"} /\ initialized \in BOOLEAN
    /\ ConfigFits(config)
    /\ LogFileOK(log_file)
    /\ holder \in Threads \cup {Nobody}
    /\ pc \in [Threads -> Places] /\ op \in [Threads -> Verbs \cup CoreCalls \cup {"none"}]
    /\ level \in [Threads -> Nat]
    /\ path = [t \in Threads |-> path[t]] /\ \A t \in Threads : path[t] # "NULL"
    /\ reg = [t \in Threads |-> reg[t]] /\ \A t \in Threads : ConfigFits(reg[t])
    /\ hurt \in BOOLEAN /\ stray \in BOOLEAN /\ misused \in BOOLEAN

HookTypeOK ==
    /\ qp_count \in Nat /\ mr_count \in Nat /\ memory_used \in Nat
    /\ slot \in Counters /\ tmp \in [Threads -> Counters]
    /\ have \in [qp : Int, mr : Int] /\ peak \in Int
    /\ why \in [Threads -> {"none", "type", "process", "requests", "global"}]

TypeOK == CoreTypeOK /\ HookTypeOK

(* Where a thread can be in which call. *)
CallPlace(t) ==
    /\ pc[t] = "idle" <=> op[t] = "none"
    /\ pc[t] \in Starter => op[t] \in Verbs \cup {"init"}
    /\ op[t] = "init" => pc[t] \in Starter
    /\ op[t] # "cleanup"
    /\ pc[t] \in {"once", "verb", "real"} => op[t] \in Verbs
    /\ pc[t] \in {"limit", "global"} => op[t] \in {"create_qp", "reg_mr"}
    /\ pc[t] = "count" => op[t] \in {"create_qp", "destroy_qp"}
    /\ pc[t] \in {"snapshot", "publish"} => op[t] = "create_qp"
    /\ pc[t] \in MrPlaces => op[t] \in {"reg_mr", "dereg_mr"}
    /\ pc[t] \in FilePlaces => op[t] \in {"set_log_file", "rotate_log", "set_config"}

(* The places of the threads: the thread that starts the library is alone   *)
(* in starting it, and one that was told to by its caller is alone in it.   *)
PlacesOK ==
    /\ \A t \in Threads :
         /\ CallPlace(t)
         /\ op[t] # "none" => op[t] \in use.calls[t]
         /\ level[t] # INFO => pc[t] \in LogPlaces
         /\ why[t] # "none" => pc[t] \in LogPlaces
         /\ holder = t <=> pc[t] \in {"write", "close", "reopen"}
    /\ \A s, t \in Threads : s # t /\ op[t] = "init" => pc[s] = "idle"
    /\ \A s, t \in Threads : s # t /\ pc[t] \in Starter => pc[s] \notin Starter
    /\ \A t \in Threads : pc[t] \in Starter /\ op[t] # "init" => once = "running"
    /\ use.started => once = "done"

(* The log. *)
LogOpen  == log_file = NullFile \/ log_file.open \/ \E t \in Threads : pc[t] = "reopen"
Renames(t) == pc[t] = "open" \/ (op[t] = "set_config" /\ pc[t] \in FilePlaces)
LogNamed == \/ log_file = NullFile \/ stray \/ log_file.path = config["log_file_path"]
            \/ \E t \in Threads : Renames(t)
Rotates(t) == op[t] = "rotate_log" /\ pc[t] \in {"close_lock", "close"}
LogThere == \A t \in Threads : /\ Rotates(t) => log_file # NullFile
                               /\ pc[t] = "link" => log_file.open
LogInv   == StartsAlone /\ ~hurt => ~misused /\ LogOpen /\ LogNamed /\ LogThere

-----------------------------------------------------------------------------
(* The configuration. *)
LinesFor(k) == {i \in DOMAIN ConfigLines : /\ ConfigLines[i].key = k /\ k \in FileKeys
                                           /\ ConfigLines[i].parses}
EnvFor(k)   == {e \in use.env : e.key = k /\ k \in EnvKeys /\ e.parses}
Layered(c) ==
    \A k \in Keys :
        \/ LinesFor(k) # {} /\ c[k] = ConfigLines[Max(LinesFor(k))].value
        \/ LinesFor(k) = {} /\ \E e \in EnvFor(k) : c[k] = e.value
        \/ LinesFor(k) = {} /\ EnvFor(k) = {} /\ c[k] = DefaultConfig[k]

ConfigInv ==
    ~use.started /\ (\A t \in Threads : use.calls[t] \cap Setters = {}) =>
        /\ config = DefaultConfig \/ Layered(config)
        /\ initialized => Layered(config)
        /\ \A t \in Threads : /\ pc[t] = "apply" => Layered(reg[t])
                              /\ pc[t] \in {"open", "link"} => Layered(config)

-----------------------------------------------------------------------------
(* The counts. *)
HaveInv == \A k \in {"qp", "mr"} : Cardinality(Taken(k)) <= have[k]

(* Before the start nothing has passed, and what is in a hook is intercepted. *)
StartInv ==
    Undisturbed =>
        /\ once # "done" =>
             /\ ~initialized /\ have = [qp |-> 0, mr |-> 0] /\ peak = 0
             /\ qp_count = 0 /\ mr_count = 0 /\ memory_used = 0 /\ slot = use.left
             /\ \A t \in Threads : op[t] \in Verbs => pc[t] = "once" \/ pc[t] \in Starter
        /\ \A t \in Threads : pc[t] \in Hooked => rdma_intercept_is_enabled

QpInv ==
    Undisturbed /\ rdma_intercept_is_enabled =>
        have.qp = qp_count + InPc("create_qp", "count") - InPc("destroy_qp", "count")

Single == Cardinality(VerbThreads) = 1

MrBefore(t) == IF op[t] = "reg_mr" THEN have.mr - 1 ELSE have.mr + 1
MrInv ==
    Undisturbed /\ Single /\ rdma_intercept_is_enabled =>
        /\ (\A t \in Threads : pc[t] \notin MrPlaces) =>
             mr_count = have.mr /\ memory_used = have.mr * MRLength
        /\ \A t \in Threads :
             /\ pc[t] \in {"load_mr", "store_mr"} =>
                  mr_count = MrBefore(t) /\ memory_used = MrBefore(t) * MRLength
             /\ pc[t] = "store_mr" => tmp[t].mr = mr_count
             /\ pc[t] \in {"load_memory", "store_memory"} =>
                  mr_count = have.mr /\ memory_used = MrBefore(t) * MRLength
             /\ pc[t] = "store_memory" => tmp[t].memory = memory_used

Publishing == \E t \in Threads : op[t] = "create_qp" /\ pc[t] \in {"count", "snapshot", "publish"}

(* The record is still that of an earlier process. *)
Inherited == slot = use.left /\ (peak = 0 \/ Publishing \/ ~rdma_intercept_is_enabled)

PeakInv ==
    Undisturbed /\ Single =>
        /\ 0 <= peak /\ have.qp <= peak /\ qp_count <= peak
        /\ slot.qp <= peak \/ Inherited
        /\ \A t \in Threads :
             /\ pc[t] = "publish" => tmp[t].qp <= peak
             /\ why[t] = "process" /\ op[t] = "create_qp" /\ ~use.ebpf =>
                  \/ config["max_qp_per_process"] <= peak
                  \/ peak = 0 /\ config["max_qp_per_process"] <= use.left.qp

LimitInv ==
    /\ Undisturbed /\ Single /\ rdma_intercept_is_enabled /\ config["enable_qp_control"]
    /\ use.region = "room" \/ (use.region = "none" /\ ~use.ebpf)
    => /\ have.qp <= config["max_qp_per_process"]
       /\ use.region = "room" /\ ~Publishing => have.qp <= slot.qp
       /\ \A t \in Threads :
            /\ pc[t] = "publish" => tmp[t].qp = have.qp
            /\ pc[t] \in {"global", "real"} /\ op[t] = "create_qp" =>
                 have.qp + 1 <= config["max_qp_per_process"]

CountInv == HaveInv /\ StartInv /\ QpInv /\ MrInv /\ PeakInv /\ LimitInv
LegacyInv == TypeOK /\ PlacesOK /\ LogInv /\ ConfigInv /\ CountInv

-----------------------------------------------------------------------------
(* The lines of a file, one after the other.                                *)

LEMMA LeastOf ==
    ASSUME NEW T, T \subseteq Nat, T # {}
    PROVE  \E x \in T : \A y \in T : x <= y
<1>1. PICK R : R = OpToRel(<, Nat)
  OBVIOUS
<1>2. IsWellFoundedOn(R, Nat)
  BY <1>1, NatLessThanWellFounded, Zenon
<1>3. R = {n \in Nat \X Nat : n[1] < n[2]}
  BY <1>1, Zenon DEF OpToRel
<1>4. \A x, y \in Nat : x < y => <<x, y>> \in R
  BY <1>3
<1>5. PICK x \in T : \A y \in T : ~(<<y, x>> \in R)
  BY <1>2, WFMin
<1>6. \A y \in T : x \in Nat /\ y \in Nat /\ ~(y < x)
  BY <1>4, <1>5
<1>7. QED
  BY <1>6

(* The last of some lines. *)
LEMMA MaxOf ==
    ASSUME NEW n \in Nat, NEW T, T \subseteq 1 .. n, T # {}
    PROVE  Max(T) \in T /\ \A y \in T : Max(T) >= y
<1> DEFINE D == {n - x : x \in T}
<1>0. \A x \in T : x \in Nat /\ 1 <= x /\ x <= n /\ n - x \in Nat
  <2>1. \A x \in T : x \in 1 .. n
    OBVIOUS
  <2>2. QED
    BY <2>1
<1>1. D \subseteq Nat /\ D # {}
  BY <1>0
<1>2. PICK d \in D : \A e \in D : d <= e
  <2> HIDE DEF D
  <2> QED BY <1>1, LeastOf
<1>3. PICK x \in T : d = n - x
  BY <1>2
<1>4. \A y \in T : n - y \in D
  OBVIOUS
<1>5. \A y \in T : n - x <= n - y
  <2> HIDE DEF D
  <2> QED BY <1>2, <1>3, <1>4
<1>6. \E z \in T : \A y \in T : z >= y
  BY <1>0, <1>3, <1>5
<1>7. QED
  BY <1>6 DEF Max

LEMMA MaxIs ==
    ASSUME NEW n \in Nat, NEW T, T \subseteq 1 .. n, NEW x \in T, \A y \in T : x >= y
    PROVE  Max(T) = x
<1>1. PICK m \in T : m = Max(T) /\ m >= x /\ x >= m
  BY MaxOf
<1>2. m \in Int /\ x \in Int
  OBVIOUS
<1> QED BY <1>1, <1>2

(* The configuration c after the lines of f whose numbers are in s.         *)
Setting(f, s, k) == {i \in s : f[i].key = k /\ k \in FileKeys /\ f[i].parses}
After(c, f, s) == [k \in Keys |-> IF Setting(f, s, k) = {} THEN c[k]
                                  ELSE f[Max(Setting(f, s, k))].value]

(* One more line. *)
LEMMA AfterOne ==
    ASSUME NEW c, NEW f, NEW n \in Nat, NEW s \in SUBSET (1 .. n), s # {}
    PROVE  After(c, f, s) = parse_config_line(After(c, f, s \ {Max(s)}), f[Max(s)])
<1> DEFINE x == Max(s)
           r == s \ {x}
<1>1. x \in s /\ \A y \in s : x >= y
  BY MaxOf
<1> HIDE DEF x
<1>2. ASSUME NEW k \in Keys
      PROVE  After(c, f, s)[k] = parse_config_line(After(c, f, r), f[x])[k]
  <2>1. Setting(f, r, k) = Setting(f, s, k) \ {x} /\ Setting(f, s, k) \subseteq 1 .. n
    BY DEF Setting
  <2>2. CASE f[x].key = k /\ k \in FileKeys /\ f[x].parses
    <3>1. x \in Setting(f, s, k)
      BY <1>1, <2>2 DEF Setting
    <3>2. \A y \in Setting(f, s, k) : x >= y
      BY <1>1 DEF Setting
    <3>3. Max(Setting(f, s, k)) = x
      BY <2>1, <3>1, <3>2, MaxIs
    <3>4. After(c, f, s)[k] = f[x].value
      BY <3>1, <3>3 DEF After
    <3> QED BY <2>2, <3>4 DEF parse_config_line, After
  <2>3. CASE ~(f[x].key = k /\ k \in FileKeys /\ f[x].parses)
    <3>1. Setting(f, s, k) = Setting(f, r, k)
      BY <2>1, <2>3 DEF Setting
    <3>2. After(c, f, s)[k] = After(c, f, r)[k]
      BY <3>1 DEF After
    <3> QED BY <2>3, <3>2 DEF parse_config_line, After
  <2> QED BY <2>2, <2>3
<1>3. parse_config_line(After(c, f, r), f[x])
        = [k \in Keys |-> parse_config_line(After(c, f, r), f[x])[k]]
  BY DEF parse_config_line, After
<1>4. After(c, f, s) = [k \in Keys |-> After(c, f, s)[k]]
  BY DEF After
<1>5. After(c, f, s) = parse_config_line(After(c, f, r), f[x])
  <2> HIDE DEF r
  <2> QED BY <1>2, <1>3, <1>4
<1> QED BY <1>5 DEF x

(* A whole file, line after line. *)
LEMMA LinesFold ==
    ASSUME NEW c, c = [k \in Keys |-> c[k]], NEW f, NEW n \in Nat, DOMAIN f = 1 .. n
    PROVE  FoldLeft(parse_config_line, c, f) = After(c, f, 1 .. n)
<1> DEFINE F(i) == [s \in SUBSET (1 .. n) |->
                      IF s = {} THEN c ELSE parse_config_line(i[s \ {Max(s)}], f[Max(s)])]
           it   == CHOOSE i : i = F(i)
           G    == [s \in SUBSET (1 .. n) |-> After(c, f, s)]
<1>1. FoldLeft(parse_config_line, c, f) = it[1 .. n]
  BY DEF FoldLeft, MapThenFoldSet
<1>2. G = F(G)
  <2>1. After(c, f, {}) = c
    BY DEF After, Setting
  <2>2. ASSUME NEW s \in SUBSET (1 .. n), s # {}
        PROVE  G[s] = parse_config_line(G[s \ {Max(s)}], f[Max(s)])
    BY <2>2, AfterOne
  <2>3. \A s \in SUBSET (1 .. n) : G[s] = F(G)[s]
    BY <2>1, <2>2
  <2> QED BY <2>3
<1>3. it = F(it)
  <2>1. \E i : i = F(i)
    BY <1>2
  <2> HIDE DEF F
  <2> QED BY <2>1
<1>4. \A j \in 0 .. n : it[1 .. j] = G[1 .. j]
  <2> DEFINE Bad == {j \in 0 .. n : it[1 .. j] # G[1 .. j]}
  <2> SUFFICES ASSUME Bad # {} PROVE FALSE
    OBVIOUS
  <2>1. PICK j \in Bad : \A i \in Bad : j <= i
    <3>1. Bad \subseteq Nat
      OBVIOUS
    <3> HIDE DEF Bad
    <3> QED BY <3>1, LeastOf
  <2>2. j \in 0 .. n /\ 1 .. j \in SUBSET (1 .. n) /\ it[1 .. j] # G[1 .. j]
    OBVIOUS
  <2>3. PICK g, h : g = it /\ h = G /\ g = F(g) /\ h = F(h)
    BY <1>2, <1>3
  <2>4. j # 0
    <3>1. {} \in SUBSET (1 .. n) /\ 1 .. 0 = {}
      OBVIOUS
    <3>2. g[{}] = c /\ h[{}] = c
      BY <2>3, <3>1
    <3> QED BY <2>2, <2>3, <3>1, <3>2
  <2>5. Max(1 .. j) = j /\ (1 .. j) \ {j} = 1 .. (j - 1) /\ 1 .. j # {}
    <3>1. j \in 1 .. j /\ \A y \in 1 .. j : j >= y
      BY <2>2, <2>4
    <3>2. Max(1 .. j) = j
      BY <2>2, <3>1, MaxIs
    <3> QED BY <2>2, <2>4, <3>1, <3>2
  <2>6. it[1 .. (j - 1)] = G[1 .. (j - 1)]
    <3>1. j - 1 \in 0 .. n /\ ~(j <= j - 1)
      BY <2>2, <2>4
    <3>2. j - 1 \notin Bad
      <4> HIDE DEF Bad
      <4> QED BY <2>1, <3>1
    <3> QED BY <3>1, <3>2
  <2>7. g[1 .. j] = parse_config_line(g[1 .. (j - 1)], f[j])
    <3>1. g[1 .. j] = F(g)[1 .. j]
      BY <2>3
    <3> QED BY <2>2, <2>5, <3>1
  <2>8. h[1 .. j] = parse_config_line(h[1 .. (j - 1)], f[j])
    <3>1. h[1 .. j] = F(h)[1 .. j]
      BY <2>3
    <3> QED BY <2>2, <2>5, <3>1
  <2> HIDE DEF F, it, G, Bad
  <2> QED BY <2>2, <2>3, <2>6, <2>7, <2>8
<1>5. it[1 .. n] = G[1 .. n]
  <2> HIDE DEF it, G
  <2> QED BY <1>4
<1>6. G[1 .. n] = After(c, f, 1 .. n)
  OBVIOUS
<1> HIDE DEF it, G
<1> QED BY <1>1, <1>5, <1>6

(* What the process reads is well formed. *)
LEMMA LinesFit ==
    ASSUME use \in Uses
    PROVE  \E n \in Nat : /\ DOMAIN ConfigLines = 1 .. n
                          /\ \A i \in 1 .. n : EntryFits(ConfigLines[i])
<1>1. \A f \in use.default_file \cup use.named_file : FileFits(f)
  BY CoreAssumption
<1>2. CASE ConfigLines = <<>>
  <2>1. DOMAIN ConfigLines = 1 .. 0
    BY <1>2
  <2> QED BY <2>1
<1>3. CASE ConfigLines \in use.default_file \cup use.named_file
  BY <1>1, <1>3 DEF FileFits
<1>4. ConfigLines = <<>> \/ ConfigLines \in use.default_file \cup use.named_file
  BY DEF ConfigLines
<1> QED BY <1>2, <1>3, <1>4

(* The configuration that is loaded over c, key by key. *)
LEMMA LoadIs ==
    ASSUME use \in Uses, NEW c, ConfigFits(c)
    PROVE  /\ ConfigFits(rdma_intercept_load_config(c))
           /\ \A k \in Keys :
                IF LinesFor(k) # {}
                THEN rdma_intercept_load_config(c)[k] = ConfigLines[Max(LinesFor(k))].value
                ELSE IF EnvFor(k) # {}
                THEN \E e \in EnvFor(k) : rdma_intercept_load_config(c)[k] = e.value
                ELSE rdma_intercept_load_config(c)[k] = c[k]
<1> DEFINE d == load_config_from_env(c)
           r == rdma_intercept_load_config(c)
<1>1. PICK n \in Nat : DOMAIN ConfigLines = 1 .. n /\ \A i \in 1 .. n : EntryFits(ConfigLines[i])
  BY LinesFit
<1>2. \A k \in Keys : IF EnvFor(k) # {} THEN \E e \in EnvFor(k) : d[k] = e.value ELSE d[k] = c[k]
  BY DEF EnvFor, load_config_from_env
<1>3. d = [k \in Keys |-> d[k]]
  BY DEF load_config_from_env
<1>4. \A k \in Keys : Fits(k, d[k])
  <2>1. \A k \in Keys : \A e \in EnvFor(k) : Fits(k, e.value)
    BY CoreAssumption DEF EnvFor, EntryFits
  <2> QED BY <1>2, <2>1 DEF ConfigFits
<1>5. r = After(d, ConfigLines, 1 .. n)
  <2> HIDE DEF d
  <2>1. FoldLeft(parse_config_line, d, ConfigLines) = After(d, ConfigLines, 1 .. n)
    BY <1>1, <1>3, LinesFold
  <2> QED BY <2>1 DEF rdma_intercept_load_config, d
<1>6. \A k \in Keys : LinesFor(k) = Setting(ConfigLines, 1 .. n, k)
  BY <1>1 DEF LinesFor, Setting
<1> HIDE DEF d, r
<1>7. \A k \in Keys : r[k] = IF LinesFor(k) = {} THEN d[k] ELSE ConfigLines[Max(LinesFor(k))].value
  BY <1>5, <1>6 DEF After
<1>8. \A k \in Keys : LinesFor(k) # {} => Fits(k, ConfigLines[Max(LinesFor(k))].value)
  <2> SUFFICES ASSUME NEW k \in Keys, LinesFor(k) # {}
               PROVE  Fits(k, ConfigLines[Max(LinesFor(k))].value)
    OBVIOUS
  <2>1. LinesFor(k) \subseteq 1 .. n
    BY <1>6 DEF Setting
  <2>2. PICK i \in LinesFor(k) : i = Max(LinesFor(k))
    BY <2>1, MaxOf
  <2>3. Fits(k, ConfigLines[i].value)
    BY <1>1, <2>1, <2>2 DEF LinesFor, EntryFits
  <2> QED BY <2>2, <2>3
<1>9. r = [k \in Keys |-> r[k]]
  BY <1>5 DEF After
<1>10. ConfigFits(r)
  BY <1>4, <1>7, <1>8, <1>9 DEF ConfigFits
<1> QED BY <1>2, <1>7, <1>10 DEF r

(* Whatever it is loaded over that was itself loaded, or the default.       *)
LEMMA LoadLayers ==
    ASSUME use \in Uses, NEW c, ConfigFits(c), c = DefaultConfig \/ Layered(c)
    PROVE  Layered(rdma_intercept_load_config(c))
BY LoadIs DEF Layered

-----------------------------------------------------------------------------
(* The actions, one by one, that a step of the process is.                  *)

(* A call of the library, or a step of it. *)
CoreMove(t) ==
    /\ CallCore(t) \/ CoreStep(t)
    /\ UNCHANGED <<countVars, slot, tmp, have, peak>>
    /\ why' = [why EXCEPT ![t] = IF pc'[t] = "idle" THEN "none" ELSE @]

LEMMA Moves ==
    ASSUME [LegacyNext]_legacyVars
    PROVE  \/ UNCHANGED legacyVars
           \/ \E t \in Threads : \/ CoreMove(t)
                                 \/ VerbStep(t)
                                 \/ \E o \in Verbs : CallVerb(t, o)
BY DEF LegacyNext, CoreMove

LEMMA Constants ==
    /\ ConfigFits(DefaultConfig) /\ \A c \in ConfigArgs : ConfigFits(c)
    /\ Verbs \cap CoreCalls = {} /\ "none" \notin Verbs \cup CoreCalls
    /\ IsFiniteSet(Threads) /\ MRLength \in Nat
    /\ Nobody \notin Threads
BY CoreAssumption, LegacyAssumption
  DEF Verbs, Counted, AhVerbs, SrqVerbs, CqVerbs, PdVerbs, CoreCalls

LEMMA ConfigSet ==
    ASSUME NEW c, ConfigFits(c), NEW k \in Keys, NEW v, Fits(k, v)
    PROVE  /\ ConfigFits([c EXCEPT ![k] = v]) /\ [c EXCEPT ![k] = v][k] = v
           /\ \A j \in Keys \ {k} : [c EXCEPT ![k] = v][j] = c[j]
BY DEF ConfigFits

LEMMA ConfigKeys ==
    ASSUME NEW c, ConfigFits(c)
    PROVE  /\ c["log_level"] \in Nat /\ c["log_file_path"] # "NULL"
           /\ c["max_qp_per_process"] \in Nat
           /\ c["enable_intercept"] \in BOOLEAN /\ c["enable_qp_control"] \in BOOLEAN
BY DEF ConfigFits, Fits, Keys, EnvKeys, FileKeys

LEMMA LogFiles ==
    /\ LogFileOK(NullFile) /\ [NullFile EXCEPT !.open = FALSE] = NullFile
    /\ \A p : p # "NULL" => LogFileOK([path |-> p, open |-> TRUE])
    /\ \A f : \A b \in BOOLEAN : LogFileOK(f) /\ (b => f.open) =>
         LogFileOK([f EXCEPT !.open = b]) /\ [f EXCEPT !.open = b].open = b
         /\ [f EXCEPT !.open = b].path = f.path
         /\ (f # NullFile => [f EXCEPT !.open = b] # NullFile)
<1>1. ASSUME NEW p, NEW o, NEW b
      PROVE  [[path |-> p, open |-> o] EXCEPT !.open = b] = [path |-> p, open |-> b]
  OBVIOUS
<1>2. \A p : \A b \in BOOLEAN :
        /\ p # "NULL" \/ ~b => LogFileOK([path |-> p, open |-> b])
        /\ p # "NULL" => [path |-> p, open |-> b] # NullFile
  BY DEF LogFileOK, NullFile
<1>3. ASSUME NEW f, NEW b \in BOOLEAN, LogFileOK(f), b => f.open
      PROVE  /\ LogFileOK([f EXCEPT !.open = b]) /\ [f EXCEPT !.open = b].open = b
             /\ [f EXCEPT !.open = b].path = f.path
             /\ (f # NullFile => [f EXCEPT !.open = b] # NullFile)
  <2>1. PICK p, o : f = [path |-> p, open |-> o] /\ p = f.path
    BY <1>3 DEF LogFileOK
  <2>2. [f EXCEPT !.open = b] = [path |-> p, open |-> b]
    BY <1>1, <2>1
  <2>3. p # "NULL" \/ (p = "NULL" /\ ~b)
    BY <1>3, <2>1 DEF LogFileOK, NullFile
  <2>4. f # NullFile => p # "NULL"
    BY <1>3, <2>1 DEF LogFileOK
  <2>5. LogFileOK([path |-> p, open |-> b]) /\ (f # NullFile => [path |-> p, open |-> b] # NullFile)
    BY <1>2, <2>3, <2>4
  <2> QED BY <2>1, <2>2, <2>5
<1>4. [NullFile EXCEPT !.open = FALSE] = NullFile
  <2>1. PICK p, o : NullFile = [path |-> p, open |-> o] /\ o = FALSE
    BY DEF NullFile
  <2>2. [NullFile EXCEPT !.open = FALSE] = [path |-> p, open |-> FALSE]
    BY <1>1, <2>1
  <2> QED BY <2>1, <2>2
<1>5. LogFileOK(NullFile)
  BY DEF LogFileOK, NullFile
<1> QED BY <1>2, <1>3, <1>4, <1>5

LEMMA TypeInit == ASSUME LegacyInit PROVE TypeOK
<1>1. \A u \in Uses : u.started \in BOOLEAN
  BY CoreAssumption
<1>2. CoreTypeOK
  BY <1>1, Constants, ConfigKeys, LogFiles DEF LegacyInit, CoreInit, CoreTypeOK, Places, INFO
<1>3. HookTypeOK
  <2>1. use.left \in Counters
    BY LegacyAssumption DEF LegacyInit, CoreInit, Counters
  <2> QED BY <2>1 DEF LegacyInit, HookTypeOK, Counters, Zero
<1> QED BY <1>2, <1>3 DEF TypeOK

(* A call of the library, call by call. *)
CoreCall(t, o) ==
    /\ Idle(t) /\ calls < use.max_calls /\ \A s \in Inside : op[s] # "init"
    /\ calls' = calls + 1 /\ use' = use
    /\ o \in use.calls[t] \cap CoreCalls

(* The calls that log, and those that come to lock the log file.            *)
CallToLog(t) ==
    \E o \in {"log", "print_config", "set_log_level"} :
        /\ CoreCall(t, o) /\ \E l \in Levels : LogAt(t, l)
        /\ op' = [op EXCEPT ![t] = o]
        /\ \/ config' = config
           \/ \E l \in Levels : config' = [config EXCEPT !["log_level"] = l] /\ o = "set_log_level"
        /\ UNCHANGED <<once, initialized, log_file, holder, hurt, stray, misused, path, reg>>

CallToLock(t) ==
    \E o \in {"set_log_file", "rotate_log", "set_config"} :
        /\ CoreCall(t, o) /\ Goto(t, "close_lock")
        /\ op' = [op EXCEPT ![t] = o]
        /\ \/ o = "set_log_file" /\ config' = config
              /\ \E p \in Paths : path' = [path EXCEPT ![t] = p]
           \/ o = "rotate_log" /\ log_file # NullFile /\ UNCHANGED <<config, path>>
           \/ o = "set_config"
              /\ \E c \in ConfigArgs : config' = c /\ path' = [path EXCEPT ![t] = c["log_file_path"]]
        /\ UNCHANGED <<once, initialized, log_file, holder, hurt, stray, misused, level, reg>>

(* The configuration is replaced and the log stays.                         *)
CallToStray(t) ==
    /\ CoreCall(t, "set_config") /\ LogAt(t, INFO)
    /\ op' = [op EXCEPT ![t] = "set_config"]
    /\ \E c \in ConfigArgs : config' = c
    /\ stray' = TRUE
    /\ UNCHANGED <<once, initialized, log_file, holder, hurt, misused, path, reg>>

CallToInit(t) ==
    /\ CoreCall(t, "init") /\ Inside = {} /\ ~initialized /\ Goto(t, "load")
    /\ op' = [op EXCEPT ![t] = "init"]
    /\ UNCHANGED <<coreVars, level, path, reg>>

CallToCleanup(t) ==
    /\ CoreCall(t, "cleanup") /\ Inside = {} /\ rdma_intercept_cleanup(t)

(* A call that does nothing. *)
CallToNothing(t) ==
    /\ \E o \in CoreCalls : CoreCall(t, o)
    /\ UNCHANGED coreVars /\ UNCHANGED threadVars

LEMMA Calls ==
    ASSUME TypeOK, PlacesOK, NEW t \in Threads, CallCore(t)
    PROVE  \/ CallToLog(t) \/ CallToLock(t) \/ CallToStray(t) \/ CallToInit(t) \/ CallToCleanup(t) \/ CallToNothing(t)
<1>1. pc[t] = "idle" /\ op[t] = "none"
  BY DEF CallCore, Idle, PlacesOK, CallPlace
<1>2. pc \in [Threads -> Places] /\ op \in [Threads -> Verbs \cup CoreCalls \cup {"none"}]
  BY DEF TypeOK, CoreTypeOK
<1>3. INFO \in Levels
  BY CoreAssumption
<1>4. PICK o \in use.calls[t] \cap CoreCalls :
         /\ \/ o = "log" /\ rdma_intercept_log(t)
            \/ o = "print_config" /\ rdma_intercept_print_config(t)
            \/ o = "set_log_level" /\ rdma_intercept_set_log_level(t)
            \/ o = "set_log_file" /\ rdma_intercept_set_log_file(t)
            \/ o = "rotate_log" /\ rdma_intercept_rotate_log(t)
            \/ o = "set_config" /\ rdma_intercept_set_config(t)
            \/ o = "init" /\ Inside = {} /\ rdma_intercept_init(t)
            \/ o = "cleanup" /\ Inside = {} /\ rdma_intercept_cleanup(t)
         /\ o \notin {"init", "cleanup"} =>
              op' = [op EXCEPT ![t] = IF pc'[t] = "idle" THEN "none" ELSE o]
  BY DEF CallCore
<1>5. CoreCall(t, o)
  BY <1>4 DEF CallCore, CoreCall
<1>6. CASE o \in {"log", "print_config", "set_log_level"}
  <2>1. op' = [op EXCEPT ![t] = o]
    BY <1>2, <1>4, <1>6 DEF rdma_intercept_log, rdma_intercept_print_config,
         rdma_intercept_set_log_level, LogAt, Goto
  <2> QED BY <1>3, <1>4, <1>5, <1>6, <2>1 DEF rdma_intercept_log, rdma_intercept_print_config,
         rdma_intercept_set_log_level, coreVars, CallToLog
<1>7. CASE o = "set_log_file"
  <2>1. CASE \E p \in Paths : path' = [path EXCEPT ![t] = p] /\ Goto(t, "close_lock")
    <3>1. op' = [op EXCEPT ![t] = o]
      BY <1>2, <1>4, <1>7, <2>1 DEF Goto
    <3> QED BY <1>4, <1>5, <1>7, <2>1, <3>1 DEF rdma_intercept_set_log_file, coreVars, CallToLock
  <2>2. CASE UNCHANGED <<path, pc>>
    <3>1. op' = op
      BY <1>1, <1>2, <1>4, <1>7, <2>2
    <3> QED BY <1>4, <1>5, <1>7, <2>2, <3>1
            DEF rdma_intercept_set_log_file, threadVars, CallToNothing
  <2> QED BY <1>4, <1>7, <2>1, <2>2 DEF rdma_intercept_set_log_file
<1>8. CASE o = "rotate_log"
  <2>1. op' = [op EXCEPT ![t] = o]
    BY <1>2, <1>4, <1>8 DEF Goto, rdma_intercept_rotate_log
  <2> QED BY <1>4, <1>5, <1>8, <2>1 DEF rdma_intercept_rotate_log, coreVars, CallToLock
<1>9. CASE o = "set_config"
  <2>1. op' = [op EXCEPT ![t] = o]
    BY <1>2, <1>4, <1>9 DEF Goto, LogAt, rdma_intercept_set_config
  <2>2. PICK c \in ConfigArgs :
          /\ config' = c
          /\ \/ path' = [path EXCEPT ![t] = c["log_file_path"]] /\ Goto(t, "close_lock")
                /\ UNCHANGED <<stray, level>>
             \/ LogAt(t, INFO) /\ stray' = TRUE /\ UNCHANGED path
    BY <1>4, <1>9 DEF rdma_intercept_set_config
  <2>3. UNCHANGED <<once, initialized, log_file, holder, hurt, misused, reg>>
    BY <1>4, <1>9 DEF rdma_intercept_set_config
  <2> QED BY <1>5, <1>9, <2>1, <2>2, <2>3 DEF CallToLock, CallToStray
<1>10. CASE o = "init"
  <2>1. CASE initialized
    <3>1. Finish(t)
      BY <1>4, <1>10, <2>1 DEF rdma_intercept_init
    <3>2. pc' = pc /\ op' = op
      BY <1>1, <1>2, <3>1 DEF Finish, Goto
    <3> QED BY <1>4, <1>5, <1>10, <3>2 DEF rdma_intercept_init, threadVars, CallToNothing
  <2>2. CASE ~initialized
    BY <1>4, <1>5, <1>10, <2>2 DEF rdma_intercept_init, CallToInit
  <2> QED BY <2>1, <2>2
<1>11. CASE o = "cleanup"
  BY <1>4, <1>5, <1>11 DEF CallToCleanup
<1> QED BY <1>4, <1>6, <1>7, <1>8, <1>9, <1>10, <1>11

LEMMA TypeCall ==
    ASSUME TypeOK, PlacesOK, NEW t \in Threads, CallCore(t)
    PROVE  CoreTypeOK'
<1> USE DEF CoreTypeOK, TypeOK
<1>1. \A k \in Keys : config[k] = config[k]
  OBVIOUS
<1>2. CallToLog(t) \/ CallToLock(t) \/ CallToStray(t) \/ CallToInit(t) \/ CallToCleanup(t) \/ CallToNothing(t)
  BY Calls
<1>3. CASE CallToLog(t)
  <2>1. \A l \in Levels : l \in Nat /\ ConfigFits([config EXCEPT !["log_level"] = l])
    BY CoreAssumption, ConfigSet DEF Keys, EnvKeys, FileKeys, Fits
  <2>2. ConfigFits(config')
    BY <1>3, <2>1 DEF CallToLog
  <2>3. level' \in [Threads -> Nat] /\ pc' \in [Threads -> Places]
    <3>1. PICK l \in Levels : LogAt(t, l)
      BY <1>3 DEF CallToLog
    <3> QED BY <2>1, <3>1 DEF LogAt, Goto, Places, LogPlaces
  <2>4. op' \in [Threads -> Verbs \cup CoreCalls \cup {"none"}]
    BY <1>3 DEF CallToLog, CoreCall
  <2> QED BY <1>3, <2>2, <2>3, <2>4 DEF CallToLog, CoreCall
<1>4. CASE CallToLock(t)
  <2>1. ConfigFits(config') /\ path' = [s \in Threads |-> path'[s]] /\ \A s \in Threads : path'[s] # "NULL"
    BY <1>4, CoreAssumption, Constants, ConfigKeys DEF CallToLock
  <2>2. pc' \in [Threads -> Places]
    BY <1>4 DEF CallToLock, Goto, Places, FilePlaces
  <2>3. op' \in [Threads -> Verbs \cup CoreCalls \cup {"none"}]
    BY <1>4 DEF CallToLock, CoreCall
  <2> QED BY <1>4, <2>1, <2>2, <2>3 DEF CallToLock, CoreCall
<1>8. CASE CallToStray(t)
  <2>1. ConfigFits(config') /\ stray' \in BOOLEAN
    BY <1>8, CoreAssumption DEF CallToStray
  <2>2. pc' \in [Threads -> Places] /\ level' \in [Threads -> Nat]
    BY <1>8 DEF CallToStray, LogAt, Goto, Places, LogPlaces, INFO
  <2>3. op' \in [Threads -> Verbs \cup CoreCalls \cup {"none"}]
    BY <1>8 DEF CallToStray, CoreCall
  <2> QED BY <1>8, <2>1, <2>2, <2>3 DEF CallToStray, CoreCall
<1>5. CASE CallToInit(t)
  BY <1>5 DEF CallToInit, CoreCall, coreVars, Goto, Places, Starter, CoreCalls
<1>6. CASE CallToCleanup(t)
  <2>1. LogFileOK(log_file') /\ initialized' \in BOOLEAN /\ misused' \in BOOLEAN
    BY <1>6, LogFiles DEF CallToCleanup, rdma_intercept_cleanup
  <2> QED BY <1>6, <2>1 DEF CallToCleanup, CoreCall, rdma_intercept_cleanup, threadVars
<1>7. CASE CallToNothing(t)
  BY <1>7 DEF CallToNothing, CoreCall, coreVars, threadVars
<1> QED BY <1>2, <1>3, <1>4, <1>5, <1>6, <1>7, <1>8

LEMMA TypeCoreStep ==
    ASSUME TypeOK, NEW t \in Threads, CoreStep(t)
    PROVE  CoreTypeOK'
<1> USE DEF CoreTypeOK, TypeOK
<1>1. CASE LoadConfig(t)
  <2>1. ConfigFits(rdma_intercept_load_config(config))
    BY LoadIs
  <2> QED BY <1>1, <2>1 DEF LoadConfig, coreVars, Goto, Places, Starter
<1>2. CASE ApplyConfig(t)
  <2>1. ConfigFits(config')
    BY <1>2 DEF ApplyConfig
  <2>2. reg' = [s \in Threads |-> reg'[s]] /\ \A s \in Threads : ConfigFits(reg'[s])
    BY <1>2, Constants DEF ApplyConfig
  <2> QED BY <1>2, <2>1, <2>2 DEF ApplyConfig, Goto, Places, Starter
<1>3. CASE OpenLog(t)
  <2>1. config["log_file_path"] # "NULL"
    BY ConfigKeys
  <2>2. LogFileOK(log_file')
    <3>1. log_file' = [path |-> config["log_file_path"], open |-> TRUE] \/ log_file' = NullFile
      BY <1>3 DEF OpenLog
    <3> QED BY <2>1, <3>1, LogFiles
  <2> QED BY <1>3, <2>2 DEF OpenLog, Goto, Places, Starter, Initialised, Finish
<1>4. CASE LinkVerbs(t)
  <2>1. Found \subseteq BOOLEAN
    BY CoreAssumption
  <2>2. LogFileOK(log_file')
    <3>1. PICK b \in BOOLEAN : log_file' = [log_file EXCEPT !.open = b] /\ (b => log_file.open)
      <4>1. PICK found \in BOOLEAN : log_file' = [log_file EXCEPT !.open = @ /\ found]
        BY <1>4, <2>1 DEF LinkVerbs
      <4>2. (log_file.open /\ found) \in BOOLEAN
        OBVIOUS
      <4> QED BY <4>1, <4>2
    <3> QED BY <3>1, LogFiles
  <2> QED BY <1>4, <2>1, <2>2 DEF LinkVerbs, Goto, Places, Starter, Initialised, Finish
<1>5. CASE LogEnter(t)
  BY <1>5 DEF LogEnter, Finish, Goto, Places, LogPlaces, coreVars, INFO
<1>6. CASE LockFile(t)
  BY <1>6 DEF LockFile, Goto, Places, LogPlaces, FilePlaces
<1>7. CASE LogWrite(t)
  BY <1>7 DEF LogWrite, Finish, Goto, Places, INFO
<1>8. CASE CloseLog(t)
  <2>1. LogFileOK(log_file')
    BY <1>8, LogFiles DEF CloseLog
  <2> QED BY <1>8, <2>1 DEF CloseLog, Goto, Places, FilePlaces
<1>9. CASE ReopenLog(t)
  <2> DEFINE p == IF op[t] = "rotate_log" THEN config["log_file_path"] ELSE path[t]
  <2>1. p # "NULL" /\ ConfigFits([config EXCEPT !["log_file_path"] = p])
    BY ConfigKeys, ConfigSet DEF Keys, EnvKeys, FileKeys, Fits
  <2>2. LogFileOK(log_file') /\ ConfigFits(config')
    <3>1. \/ log_file' = [path |-> p, open |-> TRUE] /\ config' = [config EXCEPT !["log_file_path"] = p]
          \/ log_file' = log_file /\ config' = config
      BY <1>9 DEF ReopenLog
    <3>2. CASE log_file' = [path |-> p, open |-> TRUE] /\ config' = [config EXCEPT !["log_file_path"] = p]
      <4> HIDE DEF p
      <4>1. LogFileOK([path |-> p, open |-> TRUE])
        BY <2>1, LogFiles
      <4> QED BY <2>1, <3>2, <4>1
    <3> QED BY <3>1, <3>2
  <2>3. path' = [s \in Threads |-> path'[s]] /\ \A s \in Threads : path'[s] # "NULL"
    BY <1>9, Constants, ConfigKeys DEF ReopenLog
  <2>4. /\ pc' \in [Threads -> Places] /\ op' \in [Threads -> Verbs \cup CoreCalls \cup {"none"}]
        /\ level' \in [Threads -> Nat]
    <3>1. \/ LogAt(t, INFO) /\ op' = op
          \/ Finish(t) /\ level' = level
      BY <1>9 DEF ReopenLog
    <3> HIDE DEF p
    <3>2. CASE LogAt(t, INFO) /\ op' = op
      BY <3>2 DEF LogAt, Goto, Places, LogPlaces, INFO
    <3>3. CASE Finish(t) /\ level' = level
      BY <3>3 DEF Finish, Goto, Places
    <3> QED BY <3>1, <3>2, <3>3
  <2> QED BY <1>9, <2>2, <2>3, <2>4 DEF ReopenLog
<1> QED BY <1>1, <1>2, <1>3, <1>4, <1>5, <1>6, <1>7, <1>8, <1>9 DEF CoreStep

LEMMA TypeCallVerb ==
    ASSUME TypeOK, NEW t \in Threads, NEW o \in Verbs, CallVerb(t, o)
    PROVE  TypeOK'
BY DEF TypeOK, CoreTypeOK, HookTypeOK, CallVerb, coreVars, hookVars, countVars, Goto, Places

LEMMA HoldingType ==
    ASSUME have \in [qp : Int, mr : Int], peak \in Int, NEW o, Holding(o)
    PROVE  have' \in [qp : Int, mr : Int] /\ peak' \in Int
<1>1. Gain(o) \in [qp : Int, mr : Int]
  BY DEF Gain, KindOf
<1> QED BY <1>1 DEF Holding

LEMMA DenyType ==
    ASSUME TypeOK, NEW t \in Threads, NEW r \in {"type", "process", "requests", "global"}, Deny(t, r)
    PROVE  /\ pc' \in [Threads -> Places] /\ level' \in [Threads -> Nat]
           /\ why' \in [Threads -> {"none", "type", "process", "requests", "global"}]
BY DEF TypeOK, CoreTypeOK, HookTypeOK, Deny, LogAt, Goto, Places, LogPlaces, ERROR

LEMMA TypeVerbStep ==
    ASSUME TypeOK, NEW t \in Threads, VerbStep(t)
    PROVE  TypeOK'
<1> USE DEF TypeOK, CoreTypeOK, HookTypeOK
<1>1. CASE Once(t)
  BY <1>1 DEF Once, hookVars, countVars, Goto, Places, Starter
<1>2. CASE FastPath(t)
  <2>1. have' \in [qp : Int, mr : Int] /\ peak' \in Int
    BY <1>2, HoldingType DEF FastPath
  <2> QED BY <1>2, <2>1 DEF FastPath, coreVars, countVars, Finish, Goto, Places
<1>3. CASE Intercept(t)
  BY <1>3 DEF Intercept, coreVars, hookVars, countVars, Goto, Places, Hooked
<1>4. CASE CheckProcess(t)
  <2>1. /\ pc' \in [Threads -> Places] /\ level' \in [Threads -> Nat]
        /\ why' \in [Threads -> {"none", "type", "process", "requests", "global"}]
    BY <1>4, DenyType DEF CheckProcess, Goto, Places, Hooked
  <2> QED BY <1>4, <2>1 DEF CheckProcess, coreVars, countVars
<1>5. CASE CheckGlobal(t)
  <2>1. /\ pc' \in [Threads -> Places] /\ level' \in [Threads -> Nat]
        /\ why' \in [Threads -> {"none", "type", "process", "requests", "global"}]
    BY <1>5, DenyType DEF CheckGlobal, Goto, Places, Hooked
  <2> QED BY <1>5, <2>1 DEF CheckGlobal, coreVars, countVars
<1>6. CASE RealVerb(t)
  <2>1. have' \in [qp : Int, mr : Int] /\ peak' \in Int
    BY <1>6, HoldingType DEF RealVerb
  <2>2. pc' \in [Threads -> Places] /\ level' \in [Threads -> Nat]
    BY <1>6 DEF RealVerb, Goto, LogAt, Places, Hooked, MrPlaces, LogPlaces, ERROR
  <2> QED BY <1>6, <2>1, <2>2 DEF RealVerb, coreVars, countVars
<1>7. CASE PassAh(t) \/ PassSrq(t) \/ PassCq(t) \/ PassPd(t)
  BY <1>7 DEF PassAh, PassSrq, PassCq, PassPd, PassOn, coreVars, hookVars, countVars, LogAt, Goto,
              Places, LogPlaces, INFO, ERROR
<1>8. CASE CountQp(t)
  BY <1>8 DEF CountQp, coreVars, LogAt, Goto, Places, LogPlaces, Hooked, INFO
<1>9. CASE Snapshot(t)
  <2>1. Now \in Counters
    BY DEF Now, Counters
  <2> QED BY <1>9, <2>1 DEF Snapshot, coreVars, countVars, Goto, Places, Hooked
<1>10. CASE Publish(t)
  <2>1. Zero \in Counters
    BY DEF Zero, Counters
  <2> QED BY <1>10, <2>1 DEF Publish, coreVars, countVars, LogAt, Goto, Places, LogPlaces, INFO
<1>11. CASE LoadMr(t)
  <2>1. Now \in Counters
    BY DEF Now, Counters
  <2> QED BY <1>11, <2>1 DEF LoadMr, coreVars, countVars, Goto, Places, Hooked, MrPlaces
<1>12. CASE StoreMr(t)
  <2>1. Zero \in Counters /\ MRLength \in Nat
    BY Constants DEF Zero, Counters
  <2>2. tmp[t].mr \in Nat /\ tmp[t].memory \in Nat
    BY DEF Counters
  <2>3. mr_count' \in Nat /\ memory_used' \in Nat
    BY <1>12, <2>1, <2>2 DEF StoreMr, Changed
  <2>4. pc' \in [Threads -> Places] /\ level' \in [Threads -> Nat]
    BY <1>12 DEF StoreMr, LogAt, Goto, Places, Hooked, MrPlaces, LogPlaces, INFO
  <2> QED BY <1>12, <2>1, <2>3, <2>4 DEF StoreMr, coreVars
<1> QED BY <1>1, <1>2, <1>3, <1>4, <1>5, <1>6, <1>7, <1>8, <1>9, <1>10, <1>11, <1>12 DEF VerbStep

LEMMA TypeNext ==
    ASSUME TypeOK, PlacesOK, [LegacyNext]_legacyVars
    PROVE  TypeOK'
<1>1. CASE UNCHANGED legacyVars
  BY <1>1 DEF TypeOK, CoreTypeOK, HookTypeOK, legacyVars, coreVars, threadVars, hookVars, countVars
<1>2. ASSUME NEW t \in Threads, CoreMove(t)
      PROVE  TypeOK'
  <2>1. CoreTypeOK'
    BY <1>2, TypeCall, TypeCoreStep DEF CoreMove
  <2>2. HookTypeOK'
    BY <1>2 DEF TypeOK, HookTypeOK, CoreMove, countVars
  <2> QED BY <2>1, <2>2 DEF TypeOK
<1>3. ASSUME NEW t \in Threads, VerbStep(t)
      PROVE  TypeOK'
  BY <1>3, TypeVerbStep
<1>4. ASSUME NEW t \in Threads, NEW o \in Verbs, CallVerb(t, o)
      PROVE  TypeOK'
  BY <1>4, TypeCallVerb
<1> QED BY <1>1, <1>2, <1>3, <1>4, Moves

-----------------------------------------------------------------------------
(* The places: what a step of a thread must do for them.                    *)

Held == {"write", "close", "reopen"}

Only(t) ==
    /\ \A s \in Threads \ {t} : /\ pc'[s] = pc[s] /\ op'[s] = op[s] /\ level'[s] = level[s]
                                /\ why'[s] = why[s] /\ tmp'[s] = tmp[s] /\ reg'[s] = reg[s]
    /\ use' = use

PlaceMove(t) ==
    /\ Only(t)
    /\ CallPlace(t)'
    /\ op'[t] # "none" => op'[t] \in use.calls[t]
    /\ level'[t] # INFO => pc'[t] \in LogPlaces
    /\ why'[t] # "none" => pc'[t] \in LogPlaces
    /\ holder' = t <=> pc'[t] \in Held
    /\ holder' # holder => t \in {holder, holder'} /\ Nobody \in {holder, holder'}
    /\ pc[t] = "idle" /\ pc'[t] # "idle" => \A s \in Threads : op[s] # "init"
    /\ pc'[t] \in Starter =>
         \/ pc[t] \in Starter /\ op'[t] = op[t] /\ once' = once
         \/ /\ op'[t] = "init" => \A s \in Threads \ {t} : pc[s] = "idle"
            /\ op'[t] # "init" => once' = "running"
            /\ \A s \in Threads \ {t} : pc[s] \notin Starter
    /\ once' # once => \A s \in Threads \ {t} : pc[s] \notin Starter
    /\ once = "done" => once' = "done"

LEMMA PlacesStep ==
    ASSUME TypeOK, PlacesOK, NEW t \in Threads, PlaceMove(t)
    PROVE  PlacesOK'
<1>1. ASSUME NEW s \in Threads
      PROVE  /\ CallPlace(s)'
             /\ op'[s] # "none" => op'[s] \in use'.calls[s]
             /\ level'[s] # INFO => pc'[s] \in LogPlaces
             /\ why'[s] # "none" => pc'[s] \in LogPlaces
             /\ holder' = s <=> pc'[s] \in Held
  <2>1. CASE s = t
    BY <2>1 DEF PlaceMove, Only
  <2>2. CASE s # t
    <3>1. /\ pc'[s] = pc[s] /\ op'[s] = op[s] /\ level'[s] = level[s] /\ why'[s] = why[s] /\ use' = use
          /\ holder' = s <=> holder = s
      BY <2>2, Constants DEF PlaceMove, Only
    <3> QED BY <3>1 DEF PlacesOK, CallPlace, Held
  <2> QED BY <2>1, <2>2
<1>2. ASSUME NEW s \in Threads, NEW r \in Threads, s # r, op'[r] = "init"
      PROVE  pc'[s] = "idle"
  <2>1. CASE r = t
    <3>1. pc'[t] \in Starter
      BY <1>2, <2>1 DEF PlaceMove, CallPlace
    <3>2. pc[s] = "idle"
      BY <1>2, <2>1, <3>1 DEF PlaceMove, PlacesOK
    <3> QED BY <1>2, <2>1, <3>2 DEF PlaceMove, Only
  <2>2. CASE r # t
    <3>1. op[r] = "init"
      BY <1>2, <2>2 DEF PlaceMove, Only
    <3>2. pc[s] = "idle"
      BY <1>2, <3>1 DEF PlacesOK
    <3>3. CASE s = t
      BY <3>1, <3>2, <3>3 DEF PlaceMove
    <3>4. CASE s # t
      BY <3>2, <3>4 DEF PlaceMove, Only
    <3> QED BY <3>3, <3>4
  <2> QED BY <2>1, <2>2
<1>3. ASSUME NEW s \in Threads, NEW r \in Threads, s # r, pc'[r] \in Starter
      PROVE  pc'[s] \notin Starter
  <2>1. CASE r = t
    <3>1. pc[s] \notin Starter
      BY <1>3, <2>1 DEF PlaceMove, PlacesOK
    <3> QED BY <1>3, <2>1, <3>1 DEF PlaceMove, Only
  <2>2. CASE r # t
    <3>1. pc[r] \in Starter
      BY <1>3, <2>2 DEF PlaceMove, Only
    <3>2. pc[s] \notin Starter
      BY <1>3, <3>1 DEF PlacesOK
    <3>3. CASE s = t
      BY <2>2, <3>1, <3>2, <3>3 DEF PlaceMove
    <3>4. CASE s # t
      BY <3>2, <3>4 DEF PlaceMove, Only
    <3> QED BY <3>3, <3>4
  <2> QED BY <2>1, <2>2
<1>4. ASSUME NEW s \in Threads, pc'[s] \in Starter, op'[s] # "init"
      PROVE  once' = "running"
  <2>1. CASE s = t
    BY <1>4, <2>1 DEF PlaceMove, PlacesOK
  <2>2. CASE s # t
    BY <1>4, <2>2 DEF PlaceMove, PlacesOK, Only
  <2> QED BY <2>1, <2>2
<1>5. use'.started => once' = "done"
  BY DEF PlaceMove, PlacesOK, Only
<1> QED BY <1>1, <1>2, <1>3, <1>4, <1>5 DEF PlacesOK, Held

(* Where the calls of a thread are, and the places of the sets.             *)
LEMMA At ==
    ASSUME TypeOK, PlacesOK, NEW t \in Threads
    PROVE  /\ CallPlace(t) /\ (op[t] # "none" => op[t] \in use.calls[t])
           /\ (level[t] # INFO => pc[t] \in LogPlaces)
           /\ (why[t] # "none" => pc[t] \in LogPlaces)
           /\ (holder = t <=> pc[t] \in Held)
           /\ pc \in [Threads -> Places] /\ op \in [Threads -> Verbs \cup CoreCalls \cup {"none"}]
           /\ level \in [Threads -> Nat] /\ DOMAIN why = Threads /\ DOMAIN tmp = Threads
           /\ DOMAIN reg = Threads
BY DEF TypeOK, CoreTypeOK, HookTypeOK, PlacesOK, Held

LEMMA CoreOnly ==
    ASSUME TypeOK, PlacesOK, NEW t \in Threads, CoreMove(t)
    PROVE  Only(t)
<1>1. \A s \in Threads \ {t} : why'[s] = why[s] /\ tmp'[s] = tmp[s]
  BY At DEF CoreMove
<1>2. \A s \in Threads \ {t} : pc'[s] = pc[s] /\ op'[s] = op[s] /\ level'[s] = level[s] /\ reg'[s] = reg[s]
  <2>1. CASE CallCore(t)
    BY <2>1, At, Calls DEF CallToLog, CallToLock, CallToStray, CallToInit, CallToCleanup, CallToNothing, LogAt, Goto,
                threadVars, rdma_intercept_cleanup
  <2>2. CASE CoreStep(t)
    BY <2>2, At DEF CoreStep, LoadConfig, ApplyConfig, OpenLog, LinkVerbs, LogEnter, LockFile, LogWrite,
                CloseLog, ReopenLog, Initialised, LogAt, Finish, Goto, coreVars
  <2> QED BY <2>1, <2>2 DEF CoreMove
<1>3. use' = use
  <2>1. CASE CallCore(t)
    BY <2>1 DEF CallCore
  <2>2. CASE CoreStep(t)
    BY <2>2 DEF CoreStep, LoadConfig, ApplyConfig, OpenLog, LinkVerbs, LogEnter, LockFile, LogWrite,
                CloseLog, ReopenLog
  <2> QED BY <2>1, <2>2 DEF CoreMove
<1> QED BY <1>1, <1>2, <1>3 DEF Only

LEMMA VerbOnly ==
    ASSUME TypeOK, PlacesOK, NEW t \in Threads, VerbStep(t) \/ \E o \in Verbs : CallVerb(t, o)
    PROVE  Only(t)
<1>1. CASE \E o \in Verbs : CallVerb(t, o)
  BY <1>1, At DEF CallVerb, Only, Goto, hookVars
<1>2. CASE Once(t) \/ FastPath(t) \/ Intercept(t)
  BY <1>2, At DEF Once, FastPath, Intercept, Only, Goto, Finish, hookVars
<1>3. CASE CheckProcess(t) \/ CheckGlobal(t)
  BY <1>3, At DEF CheckProcess, CheckGlobal, Deny, LogAt, Only, Goto, Finish
<1>4. CASE PassAh(t) \/ PassSrq(t) \/ PassCq(t) \/ PassPd(t) \/ RealVerb(t)
  BY <1>4, At DEF PassAh, PassSrq, PassCq, PassPd, PassOn, RealVerb, LogAt, Only, Goto, hookVars
<1>5. CASE CountQp(t) \/ Snapshot(t) \/ Publish(t) \/ LoadMr(t) \/ StoreMr(t)
  BY <1>5, At DEF CountQp, Snapshot, Publish, LoadMr, StoreMr, LogAt, Only, Goto
<1> QED BY <1>1, <1>2, <1>3, <1>4, <1>5 DEF VerbStep

LEMMA CallPlaces ==
    ASSUME TypeOK, PlacesOK, NEW t \in Threads, CoreMove(t), CallCore(t)
    PROVE  PlaceMove(t)
<1> USE DEF PlaceMove, CallPlace, Starter, FilePlaces, LogPlaces, MrPlaces, Held
<1>1. Only(t) /\ pc[t] = "idle" /\ level[t] = INFO /\ why[t] = "none"
  BY CoreOnly, At DEF CallCore, Idle
<1>2. /\ pc \in [Threads -> Places] /\ op \in [Threads -> Verbs \cup CoreCalls \cup {"none"}]
      /\ level \in [Threads -> Nat] /\ DOMAIN why = Threads
  BY At
<1>3. why' = [why EXCEPT ![t] = IF pc'[t] = "idle" THEN "none" ELSE @]
  BY DEF CoreMove
<1>4. why'[t] = "none"
  BY <1>1, <1>2, <1>3
<1>5. \A s \in Threads : op[s] # "init"
  BY At DEF CallCore, Inside, Idle
<1>6. CASE CallToLog(t)
  BY <1>1, <1>2, <1>4, <1>5, <1>6, Constants, At DEF CallToLog, CoreCall, LogAt, Goto
<1>7. CASE CallToLock(t)
  BY <1>1, <1>2, <1>4, <1>5, <1>7, Constants, At DEF CallToLock, CoreCall, Goto
<1>11. CASE CallToStray(t)
  BY <1>1, <1>2, <1>4, <1>5, <1>11, Constants, At DEF CallToStray, CoreCall, LogAt, Goto
<1>8. CASE CallToInit(t)
  <2>1. \A s \in Threads : pc[s] = "idle"
    BY <1>8 DEF CallToInit, Inside, Idle
  <2> QED BY <1>1, <1>2, <1>4, <1>5, <1>8, <2>1, Constants, At DEF CallToInit, CoreCall, coreVars, Goto
<1>9. CASE CallToCleanup(t)
  BY <1>1, <1>2, <1>4, <1>9, At DEF CallToCleanup, rdma_intercept_cleanup, threadVars
<1>10. CASE CallToNothing(t)
  BY <1>1, <1>2, <1>4, <1>10, At DEF CallToNothing, coreVars, threadVars
<1> QED BY <1>6, <1>7, <1>8, <1>9, <1>10, <1>11, Calls

LEMMA CoreStepPlaces ==
    ASSUME TypeOK, PlacesOK, NEW t \in Threads, CoreMove(t), CoreStep(t)
    PROVE  PlaceMove(t)
<1> USE DEF PlaceMove, CallPlace, Starter, FilePlaces, LogPlaces, MrPlaces, Held
<1>1. Only(t) /\ use' = use
  BY CoreOnly DEF Only
<1>2. /\ CallPlace(t) /\ (op[t] # "none" => op[t] \in use.calls[t])
      /\ (level[t] # INFO => pc[t] \in LogPlaces)
      /\ (why[t] # "none" => pc[t] \in LogPlaces)
      /\ (holder = t <=> pc[t] \in Held)
  BY At
<1>3. /\ pc \in [Threads -> Places] /\ op \in [Threads -> Verbs \cup CoreCalls \cup {"none"}]
      /\ level \in [Threads -> Nat] /\ DOMAIN why = Threads
  BY At
<1>4. why' = [why EXCEPT ![t] = IF pc'[t] = "idle" THEN "none" ELSE @]
  BY DEF CoreMove
<1>5. why'[t] = IF pc'[t] = "idle" THEN "none" ELSE why[t]
  BY <1>3, <1>4
<1>6. t # Nobody /\ Verbs \cap CoreCalls = {} /\ "init" \in CoreCalls /\ "none" \notin Verbs
  BY Constants DEF CoreCalls
<1>7. pc[t] \in Starter => \A s \in Threads \ {t} : pc[s] \notin Starter
  BY DEF PlacesOK
<1>8. pc[t] \in Starter /\ op[t] # "init" => once = "running"
  BY DEF PlacesOK
<1>9. CASE LoadConfig(t) \/ ApplyConfig(t)
  BY <1>1, <1>2, <1>3, <1>5, <1>6, <1>9 DEF LoadConfig, ApplyConfig, Goto, coreVars
<1>10. CASE OpenLog(t)
  BY <1>1, <1>2, <1>3, <1>5, <1>6, <1>7, <1>8, <1>10 DEF OpenLog, Initialised, Finish, Goto
<1>11. CASE LinkVerbs(t)
  BY <1>1, <1>2, <1>3, <1>5, <1>6, <1>7, <1>8, <1>11 DEF LinkVerbs, Initialised, Finish, Goto
<1>12. CASE LogEnter(t)
  <2>1. /\ pc[t] = "log"
        /\ \/ pc' = [pc EXCEPT ![t] = "write_lock"] /\ op' = op /\ level' = level
           \/ /\ pc' = [pc EXCEPT ![t] = "idle"] /\ op' = [op EXCEPT ![t] = "none"]
              /\ level' = [level EXCEPT ![t] = INFO]
        /\ holder' = holder /\ once' = once
    BY <1>12 DEF LogEnter, Finish, Goto, coreVars
  <2> QED BY <1>1, <1>2, <1>3, <1>5, <1>6, <2>1
<1>13. CASE LockFile(t)
  BY <1>1, <1>2, <1>3, <1>5, <1>6, <1>13 DEF LockFile, Goto
<1>14. CASE LogWrite(t)
  BY <1>1, <1>2, <1>3, <1>5, <1>6, <1>14 DEF LogWrite, Finish, Goto
<1>15. CASE CloseLog(t)
  BY <1>1, <1>2, <1>3, <1>5, <1>6, <1>15 DEF CloseLog, Goto
<1>16. CASE ReopenLog(t)
  <2>1. /\ pc[t] = "reopen"
        /\ \/ pc' = [pc EXCEPT ![t] = "log"] /\ op' = op /\ level' = [level EXCEPT ![t] = INFO]
           \/ /\ pc' = [pc EXCEPT ![t] = "idle"] /\ op' = [op EXCEPT ![t] = "none"] /\ level' = level
        /\ holder' = Nobody /\ once' = once
    BY <1>16 DEF ReopenLog, LogAt, Finish, Goto
  <2> QED BY <1>1, <1>2, <1>3, <1>5, <1>6, <2>1
<1> QED BY <1>9, <1>10, <1>11, <1>12, <1>13, <1>14, <1>15, <1>16 DEF CoreStep

LEMMA VerbPlaces ==
    ASSUME TypeOK, PlacesOK, NEW t \in Threads, VerbStep(t)
    PROVE  PlaceMove(t)
<1> USE DEF PlaceMove, CallPlace, Starter, FilePlaces, LogPlaces, MrPlaces, Held
<1>1. Only(t) /\ use' = use
  BY VerbOnly DEF Only
<1>2. /\ CallPlace(t) /\ (op[t] # "none" => op[t] \in use.calls[t])
      /\ (level[t] # INFO => pc[t] \in LogPlaces)
      /\ (why[t] # "none" => pc[t] \in LogPlaces)
      /\ (holder = t <=> pc[t] \in Held)
  BY At
<1>3. /\ pc \in [Threads -> Places] /\ op \in [Threads -> Verbs \cup CoreCalls \cup {"none"}]
      /\ level \in [Threads -> Nat] /\ DOMAIN why = Threads
  BY At
<1>4. Verbs \cap CoreCalls = {} /\ "init" \in CoreCalls /\ "none" \notin Verbs
  BY Constants DEF CoreCalls
<1>5. \A o \in {"create_qp", "destroy_qp", "reg_mr", "dereg_mr"} : o \in Verbs
  BY DEF Verbs, Counted
<1>6. CASE Once(t)
  <2>1. once # "running" => \A s \in Threads : pc[s] \notin Starter
    <3>1. SUFFICES ASSUME once # "running", NEW s \in Threads, pc[s] \in Starter PROVE FALSE
      OBVIOUS
    <3>2. op[s] = "init" /\ s # t
      BY <1>2, <1>4, <1>6, <3>1 DEF PlacesOK, Once
    <3> QED BY <1>6, <3>2 DEF PlacesOK, Once
  <2> QED BY <1>1, <1>2, <1>3, <1>4, <1>6, <2>1 DEF Once, hookVars, Goto
<1>7. CASE FastPath(t)
  BY <1>1, <1>2, <1>3, <1>7 DEF FastPath, coreVars, Finish, Goto
<1>8. CASE Intercept(t)
  BY <1>1, <1>2, <1>3, <1>4, <1>8 DEF Intercept, coreVars, hookVars, Goto
<1>9. CASE CheckProcess(t)
  <2>1. /\ pc[t] = "limit" /\ op' = op /\ holder' = holder /\ once' = once
        /\ \/ pc' = [pc EXCEPT ![t] = "log"]
           \/ pc' = [pc EXCEPT ![t] = "global"] /\ level' = level /\ why' = why
    BY <1>9 DEF CheckProcess, Deny, LogAt, Goto, coreVars
  <2> QED BY <1>1, <1>2, <1>3, <1>4, <1>5, <2>1
<1>10. CASE CheckGlobal(t)
  <2>1. /\ pc[t] = "global" /\ op' = op /\ holder' = holder /\ once' = once
        /\ \/ pc' = [pc EXCEPT ![t] = "log"]
           \/ pc' = [pc EXCEPT ![t] = "real"] /\ level' = level /\ why' = why
    BY <1>10 DEF CheckGlobal, Deny, LogAt, Goto, coreVars
  <2> QED BY <1>1, <1>2, <1>3, <1>4, <1>5, <2>1
<1>11. CASE RealVerb(t)
  <2>1. /\ pc[t] = "real" /\ op' = op /\ holder' = holder /\ once' = once /\ why' = why
        /\ op[t] \in {"create_qp", "destroy_qp", "reg_mr", "dereg_mr"}
        /\ \/ pc' = [pc EXCEPT ![t] = "log"]
           \/ /\ op[t] \in {"create_qp", "destroy_qp"}
              /\ pc' = [pc EXCEPT ![t] = "count"] /\ level' = level
           \/ /\ op[t] \notin {"create_qp", "destroy_qp"}
              /\ pc' = [pc EXCEPT ![t] = "load_mr"] /\ level' = level
    BY <1>11 DEF RealVerb, LogAt, Goto, coreVars, Counted, KindOf
  <2> QED BY <1>1, <1>2, <1>3, <1>4, <1>5, <2>1
<1>12. CASE PassAh(t) \/ PassSrq(t) \/ PassCq(t) \/ PassPd(t)
  <2>1. /\ pc[t] = "real" /\ op' = op /\ holder' = holder /\ once' = once /\ why' = why
        /\ pc' = [pc EXCEPT ![t] = "log"]
    BY <1>12 DEF PassAh, PassSrq, PassCq, PassPd, PassOn, LogAt, Goto, coreVars, hookVars
  <2> QED BY <1>1, <1>2, <1>3, <1>4, <1>5, <2>1
<1>13. CASE CountQp(t)
  BY <1>1, <1>2, <1>3, <1>4, <1>5, <1>13 DEF CountQp, LogAt, Goto, coreVars
<1>14. CASE Snapshot(t) \/ Publish(t)
  BY <1>1, <1>2, <1>3, <1>4, <1>5, <1>14 DEF Snapshot, Publish, LogAt, Goto, coreVars
<1>15. CASE LoadMr(t)
  BY <1>1, <1>2, <1>3, <1>4, <1>5, <1>15 DEF LoadMr, Goto, coreVars
<1>16. CASE StoreMr(t)
  BY <1>1, <1>2, <1>3, <1>4, <1>5, <1>16 DEF StoreMr, LogAt, Goto, coreVars
<1> QED BY <1>6, <1>7, <1>8, <1>9, <1>10, <1>11, <1>12, <1>13, <1>14, <1>15, <1>16 DEF VerbStep

LEMMA CallVerbPlaces ==
    ASSUME TypeOK, PlacesOK, NEW t \in Threads, NEW o \in Verbs, CallVerb(t, o)
    PROVE  PlaceMove(t)
<1>1. Only(t)
  BY VerbOnly
<1>2. pc[t] = "idle" /\ level[t] = INFO /\ why[t] = "none"
  BY At DEF CallVerb, Idle, LogPlaces
<1>3. \A s \in Threads : op[s] # "init"
  BY At DEF CallVerb, Inside, Idle, CallPlace, Starter
<1>4. /\ pc' = [pc EXCEPT ![t] = "once"] /\ op' = [op EXCEPT ![t] = o] /\ o \in use.calls[t]
      /\ holder' = holder /\ once' = once /\ level' = level /\ why' = why
  BY DEF CallVerb, Goto, coreVars, hookVars
<1>5. Verbs \cap CoreCalls = {} /\ "init" \in CoreCalls /\ "cleanup" \in CoreCalls /\ "none" \notin Verbs
  BY Constants DEF CoreCalls
<1> QED BY <1>1, <1>2, <1>3, <1>4, <1>5, At
        DEF PlaceMove, CallPlace, Starter, FilePlaces, LogPlaces, MrPlaces, Held

LEMMA PlacesNext ==
    ASSUME TypeOK, PlacesOK, [LegacyNext]_legacyVars
    PROVE  PlacesOK'
<1>1. CASE UNCHANGED legacyVars
  BY <1>1 DEF PlacesOK, CallPlace, legacyVars, coreVars, threadVars, hookVars
<1>2. ASSUME NEW t \in Threads, CoreMove(t)
      PROVE  PlacesOK'
  <2>1. PlaceMove(t)
    BY <1>2, CallPlaces, CoreStepPlaces DEF CoreMove
  <2> QED BY <2>1, PlacesStep
<1>3. ASSUME NEW t \in Threads, VerbStep(t)
      PROVE  PlacesOK'
  BY <1>3, VerbPlaces, PlacesStep
<1>4. ASSUME NEW t \in Threads, NEW o \in Verbs, CallVerb(t, o)
      PROVE  PlacesOK'
  BY <1>4, CallVerbPlaces, PlacesStep
<1> QED BY <1>1, <1>2, <1>3, <1>4, Moves

LEMMA PlacesInit == ASSUME LegacyInit PROVE PlacesOK
<1>1. "none" \notin {"init", "cleanup"} /\ \A t \in Threads : t # Nobody
  BY Constants
<1> QED BY <1>1 DEF LegacyInit, CoreInit, PlacesOK, CallPlace, Starter, FilePlaces, LogPlaces, MrPlaces

LEMMA Frame == LegacySpec => [](TypeOK /\ PlacesOK)
<1>1. LegacyInit => TypeOK /\ PlacesOK
  BY TypeInit, PlacesInit
<1>2. TypeOK /\ PlacesOK /\ [LegacyNext]_legacyVars => (TypeOK /\ PlacesOK)'
  BY TypeNext, PlacesNext
<1> QED BY <1>1, <1>2, PTL DEF LegacySpec

(* Every variable of the library and of its verbs keeps to its values.      *)
THEOREM TypeCorrect == LegacySpec => []TypeOK
BY Frame, PTL

-----------------------------------------------------------------------------
(* The configuration is layered. *)

NoSetters == ~use.started /\ (\A t \in Threads : use.calls[t] \cap Setters = {})

LEMMA SameLayers ==
    ASSUME use' = use, NEW c
    PROVE  /\ NoSetters' <=> NoSetters
           /\ \A k : LinesFor(k)' = LinesFor(k) /\ EnvFor(k)' = EnvFor(k)
           /\ ConfigLines' = ConfigLines
BY DEF NoSetters, LinesFor, EnvFor, ConfigLines

(* What a step that keeps the configuration layered does.                   *)
LEMMA LayersStep ==
    ASSUME TypeOK, ConfigInv, NEW t \in Threads, Only(t),
           NoSetters => /\ config' = config \/ Layered(config')
                        /\ initialized' => Layered(config') \/ (initialized /\ config' = config)
                        /\ pc'[t] = "apply" => Layered(reg'[t])
                        /\ pc'[t] \in {"open", "link"} =>
                             Layered(config') \/ (pc[t] \in {"open", "link"} /\ config' = config)
    PROVE  ConfigInv'
<1> SUFFICES ASSUME NoSetters
             PROVE  /\ config' = DefaultConfig \/ Layered(config)'
                    /\ initialized' => Layered(config)'
                    /\ \A s \in Threads : /\ pc'[s] = "apply" => Layered(reg[s])'
                                          /\ pc'[s] \in {"open", "link"} => Layered(config)'
  BY SameLayers DEF ConfigInv, NoSetters, Only
<1>1. use' = use
  BY DEF Only
<1>2. Layered(config)' <=> Layered(config')
  BY <1>1, SameLayers DEF Layered
<1>3. \A s \in Threads : Layered(reg[s])' <=> Layered(reg'[s])
  BY <1>1, SameLayers DEF Layered
<1>4. /\ config = DefaultConfig \/ Layered(config)
      /\ initialized => Layered(config)
      /\ \A s \in Threads : /\ pc[s] = "apply" => Layered(reg[s])
                            /\ pc[s] \in {"open", "link"} => Layered(config)
  BY DEF ConfigInv, NoSetters
<1>5. \A s \in Threads \ {t} : pc'[s] = pc[s] /\ reg'[s] = reg[s]
  BY DEF Only
<1>6. config' = config \/ Layered(config')
  OBVIOUS
<1>7. Layered(config) => Layered(config')
  BY <1>6
<1>8. ASSUME NEW s \in Threads
      PROVE  /\ pc'[s] = "apply" => Layered(reg'[s])
             /\ pc'[s] \in {"open", "link"} => Layered(config')
  <2>1. CASE s = t
    BY <1>4, <1>7, <2>1
  <2>2. CASE s # t
    BY <1>4, <1>5, <1>7, <2>2
  <2> QED BY <2>1, <2>2
<1> QED BY <1>2, <1>3, <1>4, <1>6, <1>7, <1>8

LEMMA LayersCall ==
    ASSUME TypeOK, PlacesOK, ConfigInv, NEW t \in Threads, CoreMove(t), CallCore(t)
    PROVE  ConfigInv'
<1>1. Only(t) /\ pc \in [Threads -> Places]
  BY CoreOnly, At
<1>2. \A o \in Setters : o \in use.calls[t] => ~NoSetters
  BY DEF NoSetters
<1>3. NoSetters => config' = config
  BY <1>2, Calls DEF CallToLog, CallToLock, CallToStray, CallToInit, CallToCleanup, CallToNothing, CoreCall,
       coreVars, rdma_intercept_cleanup, Setters
<1>4. /\ initialized' => initialized
      /\ pc'[t] \notin {"apply", "open", "link"}
  <2>1. pc[t] = "idle"
    BY DEF CallCore, Idle
  <2>2. CASE CallToLog(t)
    BY <1>1, <2>2 DEF CallToLog, LogAt, Goto
  <2>3. CASE CallToLock(t)
    BY <1>1, <2>3 DEF CallToLock, Goto
  <2>7. CASE CallToStray(t)
    BY <1>1, <2>7 DEF CallToStray, LogAt, Goto
  <2>4. CASE CallToInit(t)
    BY <1>1, <2>4 DEF CallToInit, Goto, coreVars
  <2>5. CASE CallToCleanup(t)
    BY <2>1, <2>5 DEF CallToCleanup, rdma_intercept_cleanup, threadVars
  <2>6. CASE CallToNothing(t)
    BY <2>1, <2>6 DEF CallToNothing, coreVars, threadVars
  <2> QED BY <2>2, <2>3, <2>4, <2>5, <2>6, <2>7, Calls
<1> QED BY <1>1, <1>3, <1>4, LayersStep

LEMMA LayersCoreStep ==
    ASSUME TypeOK, PlacesOK, ConfigInv, NEW t \in Threads, CoreMove(t), CoreStep(t)
    PROVE  ConfigInv'
<1>1. Only(t) /\ pc \in [Threads -> Places] /\ DOMAIN reg = Threads
  BY CoreOnly, At
<1>2. CASE LoadConfig(t)
  <2>1. NoSetters => config = DefaultConfig \/ Layered(config)
    BY DEF ConfigInv, NoSetters
  <2>2. NoSetters => Layered(rdma_intercept_load_config(config))
    BY <2>1, LoadLayers DEF TypeOK, CoreTypeOK
  <2>3. reg'[t] = rdma_intercept_load_config(config) /\ pc'[t] = "apply"
        /\ config' = config /\ initialized' = initialized
    BY <1>1, <1>2 DEF LoadConfig, Goto, coreVars
  <2>4. NoSetters => Layered(reg'[t])
    BY <2>2, <2>3
  <2> QED BY <1>1, <2>3, <2>4, LayersStep
<1>3. CASE ApplyConfig(t)
  <2>1. NoSetters => Layered(reg[t])
    BY <1>3 DEF ConfigInv, NoSetters, ApplyConfig
  <2>2. config' = reg[t] /\ pc'[t] = "open"
    BY <1>1, <1>3 DEF ApplyConfig, Goto
  <2>3. NoSetters => Layered(config')
    BY <2>1, <2>2
  <2> QED BY <1>1, <2>2, <2>3, LayersStep
<1>4. CASE OpenLog(t) \/ LinkVerbs(t)
  <2>1. NoSetters => Layered(config)
    BY <1>4 DEF ConfigInv, NoSetters, OpenLog, LinkVerbs
  <2>2. config' = config /\ pc'[t] # "apply"
    BY <1>1, <1>4 DEF OpenLog, LinkVerbs, Initialised, Finish, Goto
  <2>3. NoSetters => Layered(config')
    BY <2>1, <2>2
  <2> QED BY <1>1, <2>2, <2>3, LayersStep
<1>5. CASE LogEnter(t) \/ LockFile(t) \/ LogWrite(t) \/ CloseLog(t)
  <2>1. config' = config /\ initialized' = initialized /\ pc'[t] \notin {"apply", "open", "link"}
    BY <1>1, <1>5 DEF LogEnter, LockFile, LogWrite, CloseLog, Finish, Goto, coreVars
  <2> QED BY <1>1, <2>1, LayersStep
<1>6. CASE ReopenLog(t)
  <2>1. initialized' = initialized /\ pc'[t] \notin {"apply", "open", "link"}
    BY <1>1, <1>6 DEF ReopenLog, LogAt, Finish, Goto
  <2>2. NoSetters => op[t] = "rotate_log"
    BY <1>6, At DEF ReopenLog, CallPlace, FilePlaces, NoSetters, Setters
  <2>3. [config EXCEPT !["log_file_path"] = config["log_file_path"]] = config
    BY DEF TypeOK, CoreTypeOK, ConfigFits
  <2>4. NoSetters => config' = config
    BY <1>6, <2>2, <2>3 DEF ReopenLog
  <2> QED BY <1>1, <2>1, <2>4, LayersStep
<1> QED BY <1>2, <1>3, <1>4, <1>5, <1>6 DEF CoreStep

LEMMA VerbKeepsConfig ==
    ASSUME TypeOK, PlacesOK, NEW t \in Threads, VerbStep(t) \/ \E o \in Verbs : CallVerb(t, o)
    PROVE  /\ UNCHANGED <<initialized, config, log_file, holder, hurt, stray, misused>>
           /\ pc'[t] \notin {"apply", "open", "link"} \cup FilePlaces
<1>1. pc \in [Threads -> Places]
  BY At
<1>2. CASE \E o \in Verbs : CallVerb(t, o)
  BY <1>1, <1>2 DEF CallVerb, Goto, FilePlaces, coreVars
<1>3. CASE Once(t) \/ FastPath(t) \/ Intercept(t)
  BY <1>1, <1>3 DEF Once, FastPath, Intercept, Goto, Finish, FilePlaces, coreVars
<1>4. CASE CheckProcess(t) \/ CheckGlobal(t)
  BY <1>1, <1>4 DEF CheckProcess, CheckGlobal, Deny, LogAt, Goto, FilePlaces, coreVars
<1>5. CASE PassAh(t) \/ PassSrq(t) \/ PassCq(t) \/ PassPd(t) \/ RealVerb(t)
  BY <1>1, <1>5 DEF PassAh, PassSrq, PassCq, PassPd, PassOn, RealVerb, LogAt, Goto, FilePlaces, coreVars
<1>6. CASE CountQp(t) \/ Snapshot(t) \/ Publish(t) \/ LoadMr(t) \/ StoreMr(t)
  BY <1>1, <1>6 DEF CountQp, Snapshot, Publish, LoadMr, StoreMr, LogAt, Goto, FilePlaces, coreVars
<1> QED BY <1>2, <1>3, <1>4, <1>5, <1>6 DEF VerbStep

LEMMA LayersNext ==
    ASSUME TypeOK, PlacesOK, ConfigInv, [LegacyNext]_legacyVars
    PROVE  ConfigInv'
<1>1. CASE UNCHANGED legacyVars
  BY <1>1, SameLayers DEF ConfigInv, Layered, legacyVars, coreVars, threadVars
<1>2. ASSUME NEW t \in Threads, CoreMove(t)
      PROVE  ConfigInv'
  BY <1>2, LayersCall, LayersCoreStep DEF CoreMove
<1>3. ASSUME NEW t \in Threads, VerbStep(t) \/ \E o \in Verbs : CallVerb(t, o)
      PROVE  ConfigInv'
  <2>1. /\ config' = config /\ initialized' = initialized
        /\ pc'[t] \notin {"apply", "open", "link"}
    BY <1>3, VerbKeepsConfig
  <2> QED BY <1>3, <2>1, VerbOnly, LayersStep
<1> QED BY <1>1, <1>2, <1>3, Moves

(* After the start each key of the configuration is what the last line of   *)
(* the file that sets it says, else the environment, else its default.      *)
THEOREM ConfigIsLayered == LegacySpec => []ConfigLayered
<1>1. LegacyInit => ConfigInv
  BY DEF LegacyInit, CoreInit, ConfigInv
<1>2. TypeOK /\ PlacesOK /\ ConfigInv /\ [LegacyNext]_legacyVars => ConfigInv'
  BY LayersNext
<1>3. ConfigInv => ConfigLayered
  BY DEF ConfigInv, ConfigLayered, Layered, LinesFor, EnvFor
<1> QED BY <1>1, <1>2, <1>3, Frame, PTL DEF LegacySpec

-----------------------------------------------------------------------------
(* The log is sound. *)

(* While the library starts nobody is about to close or open the log, and   *)
(* only one thread has the file.                                            *)
LEMMA Aloof ==
    ASSUME TypeOK, PlacesOK, NEW t \in Threads
    PROVE  /\ StartsAlone /\ pc[t] \in Starter => \A s \in Threads : pc[s] \notin FilePlaces
           /\ pc[t] \in Held => \A s \in Threads \ {t} : pc[s] \notin Held
           /\ pc[t] \in Starter => \A s \in Threads \ {t} : pc[s] \notin Starter
<1>1. ASSUME StartsAlone, pc[t] \in Starter, NEW s \in Threads, pc[s] \in FilePlaces
      PROVE  FALSE
  <2>1. s # t /\ op[s] \in {"set_log_file", "rotate_log", "set_config"} /\ op[s] \in use.calls[s]
    BY <1>1, At DEF CallPlace, Starter, FilePlaces
  <2>2. CASE op[t] = "init"
    BY <1>1, <2>1, <2>2 DEF PlacesOK, FilePlaces
  <2>3. CASE op[t] # "init"
    <3>1. op[t] \in Verbs /\ op[t] \in use.calls[t] /\ op[t] \notin CoreCalls
      BY <1>1, <2>3, At, Constants DEF CallPlace
    <3>2. once = "running"
      BY <1>1, <2>3 DEF PlacesOK
    <3> QED BY <1>1, <2>1, <3>1, <3>2 DEF StartsAlone, PlacesOK
  <2> QED BY <2>2, <2>3
<1>2. ASSUME pc[t] \in Held, NEW s \in Threads \ {t}, pc[s] \in Held
      PROVE  FALSE
  BY <1>2, At
<1>3. pc[t] \in Starter => \A s \in Threads \ {t} : pc[s] \notin Starter
  BY DEF PlacesOK
<1> QED BY <1>1, <1>2, <1>3

(* A step of t that leaves the log and its name alone.                      *)
LEMMA LogKept ==
    ASSUME LogInv, NEW t \in Threads, Only(t),
           log_file' = log_file, config'["log_file_path"] = config["log_file_path"], hurt' = hurt, stray' = stray,
           StartsAlone /\ ~hurt => misused' = misused,
           pc[t] # "reopen", Renames(t) => Renames(t)', pc'[t] # "link",
           Rotates(t)' => log_file # NullFile \/ Rotates(t)
    PROVE  LogInv'
<1> SUFFICES ASSUME StartsAlone, ~hurt PROVE (~misused /\ LogOpen /\ LogNamed /\ LogThere)'
  BY DEF LogInv, StartsAlone, Only
<1>1. ~misused /\ LogOpen /\ LogNamed /\ LogThere
  BY DEF LogInv
<1>2. \A s \in Threads \ {t} : pc'[s] = pc[s] /\ op'[s] = op[s]
  BY DEF Only
<1>3. LogOpen'
  BY <1>1, <1>2 DEF LogOpen
<1>4. LogNamed'
  <2>1. \A s \in Threads \ {t} : Renames(s)' <=> Renames(s)
    BY <1>2 DEF Renames
  <2> QED BY <1>1, <2>1 DEF LogNamed
<1>5. LogThere'
  <2>1. \A s \in Threads \ {t} : Rotates(s)' <=> Rotates(s)
    BY <1>2 DEF Rotates
  <2> QED BY <1>1, <1>2, <2>1 DEF LogThere
<1> QED BY <1>1, <1>3, <1>4, <1>5

LEMMA LogCall ==
    ASSUME TypeOK, PlacesOK, LogInv, NEW t \in Threads, CoreMove(t), CallCore(t)
    PROVE  LogInv'
<1>1. /\ Only(t) /\ pc \in [Threads -> Places] /\ pc[t] = "idle" /\ op[t] = "none"
      /\ op \in [Threads -> Verbs \cup CoreCalls \cup {"none"}]
  BY CoreOnly, At DEF CallCore, Idle, CallPlace
<1>2. ~Renames(t) /\ pc[t] # "reopen"
  BY <1>1 DEF Renames, FilePlaces
<1>3. \A l : [config EXCEPT !["log_level"] = l]["log_file_path"] = config["log_file_path"]
  BY DEF TypeOK, CoreTypeOK, ConfigFits, Keys, EnvKeys
<1>4. CASE CallToLog(t)
  <2>1. /\ log_file' = log_file /\ hurt' = hurt /\ stray' = stray /\ misused' = misused
        /\ config'["log_file_path"] = config["log_file_path"]
    BY <1>3, <1>4 DEF CallToLog
  <2>2. pc'[t] = "log"
    BY <1>1, <1>4 DEF CallToLog, LogAt, Goto
  <2> QED BY <1>1, <1>2, <2>1, <2>2, LogKept DEF Rotates
<1>5. CASE CallToLock(t)
  <2>1. log_file' = log_file /\ hurt' = hurt /\ stray' = stray /\ misused' = misused /\ pc'[t] = "close_lock"
    BY <1>1, <1>5 DEF CallToLock, Goto
  <2>2. CASE op'[t] # "set_config"
    <3>1. config' = config /\ (op'[t] = "rotate_log" => log_file # NullFile)
      BY <1>1, <1>5, <2>2 DEF CallToLock
    <3> QED BY <1>1, <1>2, <2>1, <3>1, LogKept DEF Rotates
  <2>3. CASE op'[t] = "set_config"
    <3> SUFFICES ASSUME StartsAlone, ~hurt PROVE (~misused /\ LogOpen /\ LogNamed /\ LogThere)'
      BY <1>1, <2>1 DEF LogInv, StartsAlone, Only
    <3>1. ~misused /\ LogOpen /\ LogThere
      BY DEF LogInv
    <3>2. \A s \in Threads \ {t} : pc'[s] = pc[s] /\ op'[s] = op[s]
      BY <1>1 DEF Only
    <3>3. LogOpen'
      BY <1>1, <2>1, <3>1, <3>2 DEF LogOpen
    <3>4. LogNamed'
      BY <2>1, <2>3 DEF LogNamed, Renames, FilePlaces
    <3>5. LogThere'
      BY <2>1, <2>3, <3>1, <3>2 DEF LogThere, Rotates
    <3> QED BY <2>1, <3>1, <3>3, <3>4, <3>5
  <2> QED BY <2>2, <2>3
<1>9. CASE CallToStray(t)
  <2> SUFFICES ASSUME StartsAlone, ~hurt PROVE (~misused /\ LogOpen /\ LogNamed /\ LogThere)'
    BY <1>1, <1>9 DEF LogInv, StartsAlone, Only, CallToStray
  <2>1. ~misused /\ LogOpen /\ LogThere
    BY DEF LogInv
  <2>2. log_file' = log_file /\ misused' = misused /\ stray' = TRUE /\ pc'[t] = "log"
    BY <1>1, <1>9 DEF CallToStray, LogAt, Goto
  <2>3. \A s \in Threads \ {t} : pc'[s] = pc[s] /\ op'[s] = op[s]
    BY <1>1 DEF Only
  <2> QED BY <1>1, <2>1, <2>2, <2>3 DEF LogOpen, LogNamed, LogThere, Rotates
<1>6. CASE CallToInit(t)
  <2>1. log_file' = log_file /\ hurt' = hurt /\ stray' = stray /\ misused' = misused /\ config' = config /\ pc'[t] = "load"
    BY <1>1, <1>6 DEF CallToInit, Goto, coreVars
  <2> QED BY <1>1, <1>2, <2>1, LogKept DEF Rotates
<1>7. CASE CallToCleanup(t)
  <2>1. (\A s \in Threads : pc'[s] = "idle") /\ hurt' = hurt /\ stray' = stray /\ use' = use
    BY <1>1, <1>7 DEF CallToCleanup, Inside, Idle, rdma_intercept_cleanup, threadVars, Only
  <2>2. \A s \in Threads : pc[s] # "reopen"
    BY <1>7 DEF CallToCleanup, Inside, Idle
  <2>3. CASE initialized
    <3> SUFFICES ASSUME StartsAlone, ~hurt PROVE (~misused /\ LogOpen /\ LogNamed /\ LogThere)'
      BY <2>1 DEF LogInv, StartsAlone
    <3>1. ~misused /\ (log_file = NullFile \/ log_file.open)
      BY <2>2 DEF LogInv, LogOpen
    <3>2. ~misused' /\ log_file' = NullFile
      BY <1>7, <2>3, <3>1 DEF CallToCleanup, rdma_intercept_cleanup
    <3> QED BY <2>1, <3>2 DEF LogOpen, LogNamed, LogThere, Rotates
  <2>4. CASE ~initialized
    <3>1. log_file' = log_file /\ misused' = misused /\ config' = config
      BY <1>7, <2>4 DEF CallToCleanup, rdma_intercept_cleanup
    <3> QED BY <1>1, <1>2, <2>1, <3>1, LogKept DEF Rotates
  <2> QED BY <2>3, <2>4
<1>8. CASE CallToNothing(t)
  <2>1. log_file' = log_file /\ hurt' = hurt /\ stray' = stray /\ misused' = misused /\ config' = config /\ pc' = pc /\ op' = op
    BY <1>8 DEF CallToNothing, coreVars, threadVars
  <2> QED BY <1>1, <1>2, <2>1, LogKept DEF Rotates
<1> QED BY <1>4, <1>5, <1>6, <1>7, <1>8, <1>9, Calls

LEMMA LogStart ==
    ASSUME TypeOK, PlacesOK, LogInv, NEW t \in Threads, CoreMove(t),
           ApplyConfig(t) \/ OpenLog(t) \/ LinkVerbs(t)
    PROVE  LogInv'
<1>1. /\ Only(t) /\ pc \in [Threads -> Places] /\ op \in [Threads -> Verbs \cup CoreCalls \cup {"none"}]
  <2>1. CoreStep(t)
    BY DEF CoreStep
  <2> QED BY CoreOnly, At
<1>2. pc[t] \in {"apply", "open", "link"} /\ pc[t] \in Starter
  BY DEF ApplyConfig, OpenLog, LinkVerbs, Starter
<1>3. \A s \in Threads \ {t} : pc'[s] = pc[s] /\ op'[s] = op[s] /\ pc[s] \notin Starter
  BY <1>1, <1>2, Aloof DEF Only
<1>4. hurt => hurt'
  BY DEF ApplyConfig, OpenLog, LinkVerbs
<1> SUFFICES ASSUME StartsAlone, ~hurt' PROVE (~misused /\ LogOpen /\ LogNamed /\ LogThere)'
  BY <1>1 DEF LogInv, StartsAlone, Only
<1>5. ~misused /\ LogOpen /\ LogNamed /\ LogThere
  BY <1>4 DEF LogInv
<1>6. \A s \in Threads : pc[s] \notin FilePlaces
  BY <1>2, Aloof
<1>7. \A s \in Threads : ~Rotates(s)'
  <2>1. pc'[t] \notin {"close_lock", "close"}
    BY <1>1 DEF ApplyConfig, OpenLog, LinkVerbs, Initialised, Finish, Goto
  <2> QED BY <1>3, <1>6, <2>1 DEF Rotates, FilePlaces
<1>8. \A s \in Threads \ {t} : pc'[s] # "link"
  BY <1>3 DEF Starter
<1>9. log_file = NullFile \/ log_file.open
  BY <1>5, <1>6 DEF LogOpen, FilePlaces
<1>10. CASE ApplyConfig(t)
  <2>1. log_file' = log_file /\ misused' = misused /\ pc'[t] = "open"
    BY <1>1, <1>10 DEF ApplyConfig, Goto
  <2> QED BY <1>5, <1>7, <1>8, <1>9, <2>1 DEF LogOpen, LogNamed, LogThere, Renames
<1>11. CASE OpenLog(t)
  <2>1. /\ misused' = misused /\ config' = config
        /\ \/ log_file' = [path |-> config["log_file_path"], open |-> TRUE]
           \/ log_file' = NullFile /\ pc'[t] # "link"
    BY <1>1, <1>11 DEF OpenLog, Initialised, Finish, Goto
  <2> QED BY <1>5, <1>7, <1>8, <2>1 DEF LogOpen, LogNamed, LogThere
<1>12. CASE LinkVerbs(t)
  <2>1. log_file.open
    BY <1>5, <1>12 DEF LogThere, LinkVerbs
  <2>2. log_file # NullFile
    BY <2>1 DEF NullFile
  <2>3. PICK found \in Found : /\ log_file' = [log_file EXCEPT !.open = @ /\ found]
                               /\ hurt' = (hurt \/ ~found)
    BY <1>12 DEF LinkVerbs
  <2>4. found = TRUE
    BY <2>3, CoreAssumption
  <2>5. log_file'.open /\ log_file'.path = log_file.path
    <3>1. (log_file.open /\ found) = TRUE
      BY <2>1, <2>4
    <3>2. log_file' = [log_file EXCEPT !.open = TRUE]
      BY <2>3, <3>1
    <3> QED BY <2>1, <3>2, LogFiles DEF TypeOK, CoreTypeOK
  <2>6. ~misused' /\ config' = config /\ pc'[t] # "link"
    BY <1>1, <1>12, <2>1, <1>5 DEF LinkVerbs, Initialised, Finish, Goto
  <2>7. stray' = stray /\ (stray \/ log_file.path = config["log_file_path"])
    <3>1. \A s \in Threads : ~Renames(s)
      BY <1>3, <1>6, <1>12 DEF Renames, LinkVerbs, Starter
    <3>2. stray' = stray
      BY <1>12 DEF LinkVerbs
    <3> QED BY <1>5, <2>2, <3>1, <3>2 DEF LogNamed
  <2> QED BY <1>5, <1>7, <1>8, <2>5, <2>6, <2>7 DEF LogOpen, LogNamed, LogThere
<1> QED BY <1>10, <1>11, <1>12

LEMMA LogCoreStep ==
    ASSUME TypeOK, PlacesOK, LogInv, NEW t \in Threads, CoreMove(t), CoreStep(t)
    PROVE  LogInv'
<1>1. /\ Only(t) /\ pc \in [Threads -> Places] /\ op \in [Threads -> Verbs \cup CoreCalls \cup {"none"}]
  BY CoreOnly, At
<1>2. \A s \in Threads \ {t} : pc'[s] = pc[s] /\ op'[s] = op[s]
  BY <1>1 DEF Only
<1>3. StartsAlone' <=> StartsAlone
  BY <1>1 DEF StartsAlone, Only
<1>4. CASE ApplyConfig(t) \/ OpenLog(t) \/ LinkVerbs(t)
  BY <1>4, LogStart
<1>5. CASE LoadConfig(t) \/ LogEnter(t) \/ LockFile(t)
  <2>1. log_file' = log_file /\ hurt' = hurt /\ stray' = stray /\ misused' = misused /\ config' = config
    BY <1>5 DEF LoadConfig, LogEnter, LockFile, coreVars
  <2>2. pc[t] # "reopen" /\ pc'[t] # "link" /\ (Renames(t) => Renames(t)') /\ (Rotates(t)' => Rotates(t))
    BY <1>1, <1>5 DEF LoadConfig, LogEnter, LockFile, Finish, Goto, Renames, Rotates, FilePlaces
  <2> QED BY <1>1, <2>1, <2>2, LogKept
<1>6. CASE LogWrite(t)
  <2>1. StartsAlone /\ ~hurt => log_file = NullFile \/ log_file.open
    <3>1. \A s \in Threads : pc[s] # "reopen"
      BY <1>6, Aloof DEF LogWrite, Held
    <3> QED BY <3>1 DEF LogInv, LogOpen
  <2>2. StartsAlone /\ ~hurt => misused' = misused
    BY <1>6, <2>1 DEF LogWrite, LogInv, TypeOK, CoreTypeOK
  <2>3. log_file' = log_file /\ hurt' = hurt /\ stray' = stray /\ config' = config
    BY <1>6 DEF LogWrite
  <2>4. pc[t] # "reopen" /\ pc'[t] # "link" /\ (Renames(t) => Renames(t)') /\ (Rotates(t)' => Rotates(t))
    BY <1>1, <1>6 DEF LogWrite, Finish, Goto, Renames, Rotates, FilePlaces
  <2> QED BY <1>1, <2>2, <2>3, <2>4, LogKept
<1>7. CASE CloseLog(t)
  <2> SUFFICES ASSUME StartsAlone, ~hurt PROVE (~misused /\ LogOpen /\ LogNamed /\ LogThere)'
    BY <1>3, <1>7 DEF LogInv, CloseLog
  <2>1. ~misused /\ LogOpen /\ LogNamed /\ LogThere
    BY DEF LogInv
  <2>2. log_file = NullFile \/ log_file.open
    <3>1. \A s \in Threads : pc[s] # "reopen"
      BY <1>7, Aloof DEF CloseLog, Held
    <3> QED BY <2>1, <3>1 DEF LogOpen
  <2>3. op[t] = "rotate_log" => log_file # NullFile
    BY <1>7, <2>1 DEF CloseLog, LogThere, Rotates
  <2>4. ~misused'
    BY <1>7, <2>1, <2>2, <2>3 DEF CloseLog
  <2>5. pc'[t] = "reopen" /\ op' = op /\ config' = config /\ pc[t] = "close"
    BY <1>1, <1>7 DEF CloseLog, Goto
  <2>6. log_file' = [log_file EXCEPT !.open = FALSE] /\ LogFileOK(log_file)
    BY <1>7 DEF CloseLog, TypeOK, CoreTypeOK
  <2>7. log_file'.path = log_file.path /\ (log_file # NullFile => log_file' # NullFile)
    BY <2>6, LogFiles
  <2>8. log_file = NullFile => log_file' = NullFile
    BY <2>6, LogFiles
  <2>9. LogNamed'
    <3>1. \A s \in Threads : Renames(s) => Renames(s)'
      BY <1>2, <2>5 DEF Renames, FilePlaces
    <3>2. stray' = stray
      BY <1>7 DEF CloseLog
    <3> QED BY <2>1, <2>5, <2>7, <2>8, <3>1, <3>2 DEF LogNamed
  <2>10. LogThere'
    <3>1. \A s \in Threads : pc'[s] # "link"
      <4>1. \A s \in Threads : pc[s] \notin Starter
        BY <1>7, Aloof DEF CloseLog, FilePlaces
      <4> QED BY <1>2, <2>5, <4>1 DEF Starter
    <3>2. \A s \in Threads : Rotates(s)' => log_file # NullFile
      BY <1>2, <2>1, <2>5 DEF Rotates, LogThere
    <3> QED BY <2>7, <3>1, <3>2 DEF LogThere
  <2> QED BY <2>4, <2>5, <2>9, <2>10 DEF LogOpen
<1>8. CASE ReopenLog(t)
  <2> DEFINE p == IF op[t] = "rotate_log" THEN config["log_file_path"] ELSE path[t]
  <2>0. \/ log_file' = [path |-> p, open |-> TRUE] /\ config' = [config EXCEPT !["log_file_path"] = p]
        \/ (hurt' \/ log_file = NullFile) /\ log_file' = log_file /\ config' = config
    BY <1>8 DEF ReopenLog
  <2>1. pc[t] = "reopen" /\ misused' = misused /\ pc'[t] \in {"log", "idle"} /\ (~hurt' => ~hurt)
    <3>1. ~hurt' => ~hurt
      <4>1. hurt' = hurt \/ hurt' = (hurt \/ log_file # NullFile)
        BY <1>8 DEF ReopenLog
      <4> QED BY <4>1, Zenon DEF TypeOK, CoreTypeOK
    <3>2. pc[t] = "reopen" /\ misused' = misused /\ pc'[t] \in {"log", "idle"}
      BY <1>1, <1>8 DEF ReopenLog, LogAt, Finish, Goto
    <3> QED BY <3>1, <3>2
  <2> HIDE DEF p
  <2>2. [config EXCEPT !["log_file_path"] = p]["log_file_path"] = p
    BY DEF TypeOK, CoreTypeOK, ConfigFits, Keys, EnvKeys
  <2> SUFFICES ASSUME StartsAlone, ~hurt' PROVE (~misused /\ LogOpen /\ LogNamed /\ LogThere)'
    BY <1>3 DEF LogInv
  <2>3. ~misused /\ LogOpen /\ LogNamed /\ LogThere
    BY <2>1 DEF LogInv
  <2>4. \/ log_file'.open /\ log_file'.path = config'["log_file_path"] /\ log_file' # NullFile
        \/ log_file' = NullFile /\ log_file = NullFile
    <3>1. /\ [path |-> p, open |-> TRUE].path = p /\ [path |-> p, open |-> TRUE].open = TRUE
          /\ NullFile.open = FALSE
      BY DEF NullFile
    <3> QED BY <2>0, <2>2, <3>1
  <2>5. \A s \in Threads : pc'[s] # "link"
    <3>1. \A s \in Threads : pc[s] \notin Starter
      BY <2>1, Aloof DEF FilePlaces
    <3> QED BY <1>2, <2>1, <3>1 DEF Starter
  <2>6. \A s \in Threads : Rotates(s)' => Rotates(s)
    BY <1>2, <2>1 DEF Rotates
  <2>7. LogThere'
    BY <2>3, <2>4, <2>5, <2>6 DEF LogThere
  <2> QED BY <2>1, <2>3, <2>4, <2>7 DEF LogOpen, LogNamed
<1> QED BY <1>4, <1>5, <1>6, <1>7, <1>8 DEF CoreStep

LEMMA LogNext ==
    ASSUME TypeOK, PlacesOK, LogInv, [LegacyNext]_legacyVars
    PROVE  LogInv'
<1>1. CASE UNCHANGED legacyVars
  BY <1>1 DEF LogInv, LogOpen, LogNamed, LogThere, Renames, Rotates, StartsAlone, legacyVars, coreVars,
              threadVars
<1>2. ASSUME NEW t \in Threads, CoreMove(t)
      PROVE  LogInv'
  BY <1>2, LogCall, LogCoreStep DEF CoreMove
<1>3. ASSUME NEW t \in Threads, VerbStep(t) \/ \E o \in Verbs : CallVerb(t, o)
      PROVE  LogInv'
  <2>1. Only(t) /\ PlaceMove(t)
    BY <1>3, VerbOnly, VerbPlaces, CallVerbPlaces
  <2>2. /\ log_file' = log_file /\ hurt' = hurt /\ stray' = stray /\ misused' = misused /\ config' = config
        /\ pc'[t] \notin {"apply", "open", "link"} \cup FilePlaces
    BY <1>3, VerbKeepsConfig
  <2>3. pc[t] # "reopen" /\ ~Renames(t)
    <3>1. CASE \E o \in Verbs : CallVerb(t, o)
      BY <3>1 DEF CallVerb, Idle, Renames, FilePlaces
    <3>2. CASE VerbStep(t)
      BY <3>2 DEF VerbStep, Once, FastPath, Intercept, CheckProcess, CheckGlobal, PassAh, PassSrq, PassCq,
                  PassPd, PassOn, RealVerb, CountQp, Snapshot, Publish, LoadMr, StoreMr, Renames, FilePlaces
    <3> QED BY <1>3, <3>1, <3>2
  <2> QED BY <2>1, <2>2, <2>3, LogKept DEF Rotates, FilePlaces
<1> QED BY <1>1, <1>2, <1>3, Moves

(* No write goes to a FILE that is closed and none is closed twice, and the *)
(* log is open and is the file that the configuration names when no thread  *)
(* is inside, unless set_config changed the name and did not get to the log. *)
THEOREM LogIsSound == LegacySpec => []LogSound
<1>1. LegacyInit => LogInv
  BY DEF LegacyInit, CoreInit, LogInv, LogOpen, LogNamed, LogThere, Rotates
<1>2. TypeOK /\ PlacesOK /\ LogInv /\ [LegacyNext]_legacyVars => LogInv'
  BY LogNext
<1>3. LogInv => LogSound
  BY DEF LogInv, LogSound, LogOpen, LogNamed, Renames, FilePlaces, Inside, Idle
<1> QED BY <1>1, <1>2, <1>3, Frame, PTL DEF LegacySpec

-----------------------------------------------------------------------------
(* What the process holds. *)

(* Two sets of threads that differ in t at most. *)
LEMMA CardOne ==
    ASSUME NEW A \in SUBSET Threads, NEW B \in SUBSET Threads, NEW t \in Threads,
           \A s \in Threads \ {t} : s \in A <=> s \in B
    PROVE  /\ Cardinality(A) \in Nat /\ Cardinality(B) \in Nat
           /\ Cardinality(B) = Cardinality(A) + (IF t \in B THEN 1 ELSE 0) - (IF t \in A THEN 1 ELSE 0)
<1>1. IsFiniteSet(A) /\ IsFiniteSet(B)
  BY Constants, FS_Subset
<1>2. A \ {t} = B \ {t}
  OBVIOUS
<1>3. Cardinality(A) \in Nat /\ Cardinality(B) \in Nat
  BY <1>1, FS_CardinalityType
<1>4. Cardinality(A \ {t}) = IF t \in A THEN Cardinality(A) - 1 ELSE Cardinality(A)
  BY <1>1, FS_RemoveElement
<1>5. Cardinality(B \ {t}) = IF t \in B THEN Cardinality(B) - 1 ELSE Cardinality(B)
  BY <1>1, FS_RemoveElement
<1> QED BY <1>2, <1>3, <1>4, <1>5

(* Whether t keeps an object of kind k from the application.                *)
Takes(t, k) ==
    /\ pc[t] # "idle" /\ op[t] \in Counted /\ KindOf(op[t]) = k
    /\ IF op[t] \in {"destroy_qp", "dereg_mr"} THEN pc[t] \in Before
       ELSE pc[t] \notin Before /\ level[t] = INFO

LEMMA TakenBy == \A k : Taken(k) \in SUBSET Threads /\ \A t \in Threads : t \in Taken(k) <=> Takes(t, k)
BY DEF Taken, Takes, Inside, Idle

LEMMA TakenBy2 ==
    \A k : Taken(k)' \in SUBSET Threads /\ \A t \in Threads : t \in Taken(k)' <=> Takes(t, k)'
BY DEF Taken, Takes, Inside, Idle

LEMMA HaveStep ==
    ASSUME TypeOK, TypeOK', HaveInv, NEW t \in Threads, Only(t),
           \A k \in {"qp", "mr"} :
             \/ have'[k] = have[k] /\ (Takes(t, k)' => Takes(t, k))
             \/ have'[k] = have[k] /\ Cardinality(Taken(k)) < have[k]
             \/ have'[k] = have[k] + 1
             \/ have'[k] = have[k] - 1 /\ Takes(t, k) /\ ~Takes(t, k)'
    PROVE  HaveInv'
<1> SUFFICES ASSUME NEW k \in {"qp", "mr"} PROVE Cardinality(Taken(k)') <= have'[k]
  BY DEF HaveInv
<1>1. \A s \in Threads \ {t} : s \in Taken(k) <=> s \in Taken(k)'
  <2>1. \A s \in Threads \ {t} : Takes(s, k) <=> Takes(s, k)'
    BY DEF Only, Takes
  <2> QED BY <2>1, TakenBy, TakenBy2
<1>2. Taken(k) \in SUBSET Threads /\ Taken(k)' \in SUBSET Threads
  BY TakenBy, TakenBy2
<1>3. /\ Cardinality(Taken(k)) \in Nat /\ Cardinality(Taken(k)') \in Nat
      /\ Cardinality(Taken(k)') = Cardinality(Taken(k)) + (IF t \in Taken(k)' THEN 1 ELSE 0)
                                                        - (IF t \in Taken(k) THEN 1 ELSE 0)
  BY <1>1, <1>2, CardOne
<1>4. have[k] \in Int /\ have'[k] \in Int /\ Cardinality(Taken(k)) <= have[k]
  BY DEF HaveInv, TypeOK, HookTypeOK
<1>5. (t \in Taken(k) <=> Takes(t, k)) /\ (t \in Taken(k)' <=> Takes(t, k)')
  BY TakenBy, TakenBy2
<1> QED BY <1>3, <1>4, <1>5

(* What a step of the library itself does to an object that is taken.       *)
LEMMA CoreTakes ==
    ASSUME TypeOK, PlacesOK, NEW t \in Threads, CoreMove(t), NEW k
    PROVE  Takes(t, k)' => Takes(t, k)
<1> USE DEF Takes, Before
<1>1. /\ pc \in [Threads -> Places] /\ op \in [Threads -> Verbs \cup CoreCalls \cup {"none"}]
      /\ level \in [Threads -> Nat] /\ CallPlace(t) /\ (level[t] # INFO => pc[t] \in LogPlaces)
  BY At
<1>2. Counted \cap CoreCalls = {}
  BY Constants DEF Verbs
<1>3. CASE CallCore(t)
  <2>1. op'[t] \notin Counted
    <3>1. op[t] = "none" /\ "none" \notin Counted
      BY <1>1, <1>3 DEF CallCore, Idle, CallPlace, Counted
    <3> QED BY <1>1, <1>2, <1>3, <3>1, Calls DEF CallToLog, CallToLock, CallToStray, CallToInit, CallToCleanup,
          CallToNothing, CoreCall, CoreCalls, rdma_intercept_cleanup, threadVars
  <2> QED BY <2>1
<1>4. CASE LoadConfig(t) \/ ApplyConfig(t) \/ OpenLog(t) \/ LinkVerbs(t)
  <2>1. pc[t] \in Before /\ pc'[t] \in Before \cup {"idle"} /\ level' = level
        /\ (pc'[t] # "idle" => op' = op)
    BY <1>1, <1>4 DEF LoadConfig, ApplyConfig, OpenLog, LinkVerbs, Initialised, Finish, Goto, coreVars
  <2> QED BY <1>1, <2>1
<1>5. CASE LogEnter(t) \/ LockFile(t) \/ LogWrite(t) \/ CloseLog(t)
  <2>1. /\ pc[t] \in LogPlaces \cup FilePlaces /\ pc'[t] \in LogPlaces \cup FilePlaces \cup {"idle"}
        /\ (pc'[t] # "idle" => op' = op /\ level' = level)
    BY <1>1, <1>5 DEF LogEnter, LockFile, LogWrite, CloseLog, Finish, Goto, LogPlaces, FilePlaces
  <2> QED BY <1>1, <2>1 DEF LogPlaces, FilePlaces
<1>6. CASE ReopenLog(t)
  <2>1. op[t] \notin Counted
    BY <1>1, <1>2, <1>6 DEF ReopenLog, CallPlace, FilePlaces, CoreCalls
  <2>2. op' = op \/ pc'[t] = "idle"
    BY <1>1, <1>6 DEF ReopenLog, Finish, LogAt, Goto
  <2> QED BY <2>1, <2>2
<1> QED BY <1>3, <1>4, <1>5, <1>6 DEF CoreMove, CoreStep

LEMMA HoldingIs ==
    ASSUME TypeOK, NEW o, Holding(o)
    PROVE  /\ have'.qp = have.qp + (IF o = "create_qp" THEN 1 ELSE IF o = "destroy_qp" THEN -1 ELSE 0)
           /\ have'.mr = have.mr + (IF o = "reg_mr" THEN 1 ELSE IF o = "dereg_mr" THEN -1 ELSE 0)
           /\ peak' = IF have'.qp > peak THEN have'.qp ELSE peak
<1>1. have \in [qp : Int, mr : Int]
  BY DEF TypeOK, HookTypeOK
<1>2. have' = Gain(o)
  BY DEF Holding
<1>3. CASE o = "create_qp"
  BY <1>1, <1>2, <1>3 DEF Gain, KindOf, Holding
<1>4. CASE o = "destroy_qp"
  BY <1>1, <1>2, <1>4 DEF Gain, KindOf, Holding
<1>5. CASE o = "reg_mr"
  BY <1>1, <1>2, <1>5 DEF Gain, KindOf, Holding
<1>6. CASE o = "dereg_mr"
  BY <1>1, <1>2, <1>6 DEF Gain, KindOf, Holding
<1>7. CASE o \notin {"create_qp", "destroy_qp", "reg_mr", "dereg_mr"}
  BY <1>1, <1>2, <1>7 DEF Gain, KindOf, Holding
<1> QED BY <1>3, <1>4, <1>5, <1>6, <1>7

LEMMA HaveVerb ==
    ASSUME TypeOK, TypeOK', PlacesOK, HaveInv, NEW t \in Threads, VerbStep(t)
    PROVE  HaveInv'
<1>1. Only(t)
  BY VerbOnly
<1>2. /\ pc \in [Threads -> Places] /\ op \in [Threads -> Verbs \cup CoreCalls \cup {"none"}]
      /\ level \in [Threads -> Nat] /\ CallPlace(t) /\ (level[t] # INFO => pc[t] \in LogPlaces)
  BY At
<1>3. /\ KindOf("create_qp") = "qp" /\ KindOf("destroy_qp") = "qp"
      /\ KindOf("reg_mr") = "mr" /\ KindOf("dereg_mr") = "mr"
  BY DEF KindOf
<1>4. Counted = {"create_qp", "destroy_qp", "reg_mr", "dereg_mr"} /\ ERROR # INFO
  BY DEF Counted, ERROR, INFO
<1>5. CASE FastPath(t)
  <2>1. pc[t] = "verb" /\ pc'[t] = "idle"
    BY <1>2, <1>5 DEF FastPath, Finish, Goto
  <2>2. CASE have' = have
    BY <1>1, <2>1, <2>2, HaveStep DEF Takes
  <2>3. CASE Holding(op[t])
    <3>1. op[t] \in {"destroy_qp", "dereg_mr"} => Takes(t, KindOf(op[t]))
      BY <1>4, <2>1 DEF Takes, Before
    <3>2. ASSUME NEW k \in {"qp", "mr"}
          PROVE  \/ have'[k] = have[k]
                 \/ have'[k] = have[k] + 1
                 \/ have'[k] = have[k] - 1 /\ Takes(t, k)
      <4>1. have.qp \in Int /\ have.mr \in Int
        BY DEF TypeOK, HookTypeOK
      <4> QED BY <1>3, <2>3, <3>1, <4>1, HoldingIs
    <3>3. \A k : ~Takes(t, k)'
      BY <2>1 DEF Takes
    <3> QED BY <1>1, <3>2, <3>3, HaveStep
  <2> QED BY <1>5, <2>2, <2>3 DEF FastPath
<1>6. CASE RealVerb(t)
  <2>1. /\ pc[t] = "real" /\ op'[t] = op[t] /\ op[t] \in Counted
        /\ \/ Holding(op[t]) /\ pc'[t] \in {"count", "load_mr"} /\ level' = level
           \/ have' = have /\ pc'[t] = "log" /\ level'[t] = ERROR
    BY <1>2, <1>6 DEF RealVerb, LogAt, Goto
  <2>2. CASE have' = have /\ pc'[t] = "log" /\ level'[t] = ERROR
    <3>1. \A k : ~Takes(t, k)'
      BY <1>4, <2>1, <2>2 DEF Takes, Before
    <3> QED BY <1>1, <2>2, <3>1, HaveStep
  <2>3. CASE Holding(op[t]) /\ pc'[t] \in {"count", "load_mr"} /\ level' = level
    <3>1. op[t] \in {"destroy_qp", "dereg_mr"} => Takes(t, KindOf(op[t]))
      BY <1>4, <2>1 DEF Takes, Before
    <3>2. op[t] \in {"destroy_qp", "dereg_mr"} => \A k : ~Takes(t, k)'
      BY <2>1, <2>3 DEF Takes, Before
    <3>3. ASSUME NEW k \in {"qp", "mr"}, k # KindOf(op[t])
          PROVE  ~Takes(t, k)'
      BY <2>1, <3>3 DEF Takes
    <3>4. ASSUME NEW k \in {"qp", "mr"}
          PROVE  \/ have'[k] = have[k] /\ ~Takes(t, k)'
                 \/ have'[k] = have[k] + 1
                 \/ have'[k] = have[k] - 1 /\ Takes(t, k) /\ ~Takes(t, k)'
      <4>1. have.qp \in Int /\ have.mr \in Int
        BY DEF TypeOK, HookTypeOK
      <4>2. CASE k = "qp"
        BY <1>3, <1>4, <2>1, <2>3, <3>1, <3>2, <3>3, <4>1, <4>2, HoldingIs
      <4>3. CASE k = "mr"
        BY <1>3, <1>4, <2>1, <2>3, <3>1, <3>2, <3>3, <4>1, <4>3, HoldingIs
      <4> QED BY <4>2, <4>3
    <3> QED BY <1>1, <3>4, HaveStep
  <2> QED BY <2>1, <2>2, <2>3
<1>7. CASE ~FastPath(t) /\ ~RealVerb(t)
  <2>1. have' = have
    BY <1>7 DEF VerbStep, Once, Intercept, CheckProcess, CheckGlobal, PassAh, PassSrq, PassCq, PassPd, PassOn,
                CountQp, Snapshot, Publish, LoadMr, StoreMr, hookVars
  <2>2. \A k : Takes(t, k)' => Takes(t, k)
    <3>1. CASE Once(t) \/ Intercept(t)
      <4>1. pc[t] \in Before \cap {"once", "verb"} /\ pc'[t] \in Before /\ op' = op /\ level' = level
        BY <1>2, <3>1 DEF Once, Intercept, Goto, Before
      <4> QED BY <1>2, <4>1 DEF Takes
    <3>2. CASE CheckProcess(t) \/ CheckGlobal(t)
      <4>1. /\ op' = op /\ op[t] \in {"create_qp", "reg_mr"} /\ pc[t] \in Before
            /\ \/ pc'[t] \in {"global", "real"}
               \/ pc'[t] = "log" /\ level'[t] = ERROR
        BY <1>2, <3>2 DEF CheckProcess, CheckGlobal, Deny, LogAt, Goto, CallPlace, Before
      <4> QED BY <1>2, <1>4, <4>1 DEF Takes, Before
    <3>3. CASE PassAh(t) \/ PassSrq(t) \/ PassCq(t) \/ PassPd(t)
      <4>1. op' = op /\ op[t] \notin Counted
        BY <3>3 DEF PassAh, PassSrq, PassCq, PassPd, PassOn, AhVerbs, SrqVerbs, CqVerbs, PdVerbs, Counted
      <4> QED BY <4>1 DEF Takes
    <3>4. CASE CountQp(t) \/ Snapshot(t) \/ Publish(t) \/ LoadMr(t) \/ StoreMr(t)
      <4>1. /\ op' = op /\ pc[t] \in Hooked \ Before /\ pc'[t] \in (Hooked \ Before) \cup {"log"}
            /\ level[t] = INFO
        <5>1. pc[t] \in {"count", "snapshot", "publish"} \cup MrPlaces
          BY <3>4 DEF CountQp, Snapshot, Publish, LoadMr, StoreMr, MrPlaces
        <5>2. op' = op /\ pc'[t] \in {"count", "snapshot", "publish", "log"} \cup MrPlaces
          BY <1>2, <3>4 DEF CountQp, Snapshot, Publish, LoadMr, StoreMr, LogAt, Goto, MrPlaces
        <5> QED BY <1>2, <5>1, <5>2 DEF Hooked, Before, MrPlaces, LogPlaces
      <4> QED BY <4>1 DEF Takes, Hooked, Before, MrPlaces
    <3> QED BY <1>7, <3>1, <3>2, <3>3, <3>4 DEF VerbStep
  <2> QED BY <1>1, <2>1, <2>2, HaveStep
<1> QED BY <1>5, <1>6, <1>7

LEMMA HaveNext ==
    ASSUME TypeOK, PlacesOK, HaveInv, [LegacyNext]_legacyVars
    PROVE  HaveInv'
<1>0. TypeOK'
  BY TypeNext
<1>1. CASE UNCHANGED legacyVars
  <2>1. \A k : Taken(k)' = Taken(k)
    BY <1>1 DEF Taken, Inside, Idle, legacyVars, threadVars
  <2> QED BY <1>1, <2>1 DEF HaveInv, legacyVars, hookVars
<1>2. ASSUME NEW t \in Threads, CoreMove(t)
      PROVE  HaveInv'
  <2>1. have' = have
    BY <1>2 DEF CoreMove
  <2> QED BY <1>0, <1>2, <2>1, CoreOnly, CoreTakes, HaveStep
<1>3. ASSUME NEW t \in Threads, VerbStep(t)
      PROVE  HaveInv'
  BY <1>0, <1>3, HaveVerb
<1>4. ASSUME NEW t \in Threads, NEW o \in Verbs, CallVerb(t, o)
      PROVE  HaveInv'
  <2>1. have' = have /\ Only(t)
    BY <1>4, VerbOnly DEF CallVerb, hookVars
  <2>2. pc'[t] = "once" /\ op'[t] = o
    BY <1>4, At DEF CallVerb, Goto
  <2>3. \A k : Takes(t, k)' => o \in {"destroy_qp", "dereg_mr"} /\ k = KindOf(o)
    BY <2>2 DEF Takes, Before
  <2>4. o \in {"destroy_qp", "dereg_mr"} => Cardinality(Taken(KindOf(o))) < have[KindOf(o)]
    BY <1>4 DEF CallVerb
  <2> QED BY <1>0, <2>1, <2>3, <2>4, HaveStep
<1> QED BY <1>1, <1>2, <1>3, <1>4, Moves

LEMMA HaveInit == ASSUME LegacyInit PROVE HaveInv
<1>1. \A k : Taken(k) = {}
  BY DEF LegacyInit, CoreInit, Taken, Inside, Idle
<1> QED BY <1>1, FS_EmptySet DEF LegacyInit, HaveInv

-----------------------------------------------------------------------------
(* Before and after the start, when nothing else turns interception on or   *)
(* off or changes a limit.                                                  *)

Steady ==
    /\ once' = "done" /\ initialized' = initialized
    /\ \A k \in Keys \ {"log_level", "log_file_path"} : config'[k] = config[k]
Starting(t) ==
    /\ UNCHANGED <<countVars, slot, have, peak>>
    /\ op'[t] \in Verbs => pc'[t] \in {"once", "verb"} \cup Starter
    /\ once' # "done" => ~initialized' /\ (op'[t] \in Verbs => pc'[t] # "verb")

LEMMA CoreStarts ==
    ASSUME TypeOK, PlacesOK, StartInv, Undisturbed, NEW t \in Threads, CoreMove(t)
    PROVE  /\ once = "done" => Steady
           /\ once # "done" => Starting(t)
<1>1. /\ pc \in [Threads -> Places] /\ op \in [Threads -> Verbs \cup CoreCalls \cup {"none"}]
      /\ CallPlace(t) /\ (op[t] # "none" => op[t] \in use.calls[t])
  BY At
<1>2. UNCHANGED <<countVars, slot, have, peak>>
  BY DEF CoreMove
<1>3. \A o \in use.calls[t] : o \notin {"init", "cleanup", "set_config"}
  BY DEF Undisturbed
<1>4. op[t] \notin {"init", "cleanup", "set_config"}
  BY <1>1, <1>3
<1>5. \A k \in {"log_level", "log_file_path"} : \A v : \A j \in Keys \ {"log_level", "log_file_path"} :
         [config EXCEPT ![k] = v][j] = config[j]
  BY DEF TypeOK, CoreTypeOK, ConfigFits
<1>6. Verbs \cap CoreCalls = {} /\ "none" \notin Verbs
  BY Constants
<1>7. once # "done" => ~initialized /\ (op[t] \in Verbs => pc[t] = "once" \/ pc[t] \in Starter)
  BY DEF StartInv
<1>8. pc[t] \in Starter => op[t] \in Verbs /\ once = "running"
  BY <1>1, <1>4 DEF CallPlace, PlacesOK
<1>9. CASE CallCore(t)
  <2>1. CASE CallToLog(t)
    <3>1. \E o \in CoreCalls : op' = [op EXCEPT ![t] = o]
      BY <2>1 DEF CallToLog, CoreCalls
    <3>2. once' = once /\ initialized' = initialized /\ op'[t] \notin Verbs
      BY <1>1, <1>6, <2>1, <3>1 DEF CallToLog
    <3>3. config' = config \/ \E v : config' = [config EXCEPT !["log_level"] = v]
      BY <2>1 DEF CallToLog
    <3>4. \A k \in Keys \ {"log_level", "log_file_path"} : config'[k] = config[k]
      <4>1. CASE config' = config
        BY <4>1
      <4>2. CASE \E v : config' = [config EXCEPT !["log_level"] = v]
        BY <1>5, <4>2
      <4> QED BY <3>3, <4>1, <4>2
    <3> QED BY <1>2, <1>7, <3>2, <3>4 DEF Steady, Starting
  <2>2. CASE CallToLock(t)
    <3>1. PICK o \in {"set_log_file", "rotate_log", "set_config"} : op' = [op EXCEPT ![t] = o] /\ CoreCall(t, o)
      BY <2>2 DEF CallToLock
    <3>2. o \in CoreCalls /\ o # "set_config" /\ op'[t] = o
      BY <1>1, <1>3, <3>1 DEF CoreCall
    <3>3. config' = config /\ once' = once /\ initialized' = initialized
      BY <1>3, <2>2 DEF CallToLock, CoreCall
    <3>4. op'[t] \notin Verbs
      BY <1>6, <3>2
    <3> QED BY <1>2, <1>7, <3>3, <3>4 DEF Steady, Starting
  <2>3. ~CallToInit(t) /\ ~CallToCleanup(t) /\ ~CallToStray(t)
    BY <1>3 DEF CallToInit, CallToCleanup, CallToStray, CoreCall
  <2>4. CASE CallToNothing(t)
    <3>1. UNCHANGED <<config, once, initialized, pc, op>> /\ op[t] = "none"
      BY <1>1, <1>9, <2>4 DEF CallToNothing, coreVars, threadVars, CallCore, Idle, CallPlace
    <3> QED BY <1>2, <1>6, <1>7, <3>1 DEF Steady, Starting
  <2> QED BY <1>9, <2>1, <2>2, <2>3, <2>4, Calls
<1>10. CASE LoadConfig(t) \/ ApplyConfig(t) \/ OpenLog(t) \/ LinkVerbs(t)
  <2>1. pc[t] \in Starter /\ once = "running" /\ op[t] # "init"
    BY <1>4, <1>8, <1>10 DEF LoadConfig, ApplyConfig, OpenLog, LinkVerbs, Starter
  <2>2. op' = op /\ pc'[t] \in {"verb"} \cup Starter
    BY <1>1, <1>10, <2>1 DEF LoadConfig, ApplyConfig, OpenLog, LinkVerbs, Initialised, Goto, Starter
  <2>3. once' # "done" => initialized' = initialized /\ pc'[t] # "verb"
    BY <1>1, <1>10, <2>1 DEF LoadConfig, ApplyConfig, OpenLog, LinkVerbs, Initialised, Goto, coreVars
  <2> QED BY <1>2, <1>7, <2>1, <2>2, <2>3 DEF Starting
<1>11. CASE LogEnter(t) \/ LockFile(t) \/ LogWrite(t) \/ CloseLog(t) \/ ReopenLog(t)
  <2>1. once' = once /\ initialized' = initialized
    BY <1>11 DEF LogEnter, LockFile, LogWrite, CloseLog, ReopenLog, coreVars
  <2>2. \A k \in Keys \ {"log_level", "log_file_path"} : config'[k] = config[k]
    <3>1. config' = config \/ \E v : config' = [config EXCEPT !["log_file_path"] = v]
      BY <1>11 DEF LogEnter, LockFile, LogWrite, CloseLog, ReopenLog, coreVars
    <3> QED BY <1>5, <3>1
  <2>3. pc[t] \notin {"once"} \cup Starter
    BY <1>11 DEF LogEnter, LockFile, LogWrite, CloseLog, ReopenLog, Starter
  <2>4. op'[t] \in {op[t], "none"}
    BY <1>1, <1>11 DEF LogEnter, LockFile, LogWrite, CloseLog, ReopenLog, Finish, LogAt, Goto
  <2>5. once # "done" => op'[t] \notin Verbs
    BY <1>6, <1>7, <2>3, <2>4
  <2> QED BY <1>2, <1>7, <2>1, <2>2, <2>5 DEF Steady, Starting
<1> QED BY <1>9, <1>10, <1>11 DEF CoreMove, CoreStep

LEMMA VerbStarts ==
    ASSUME TypeOK, PlacesOK, StartInv, Undisturbed, NEW t \in Threads,
           VerbStep(t) \/ \E o \in Verbs : CallVerb(t, o)
    PROVE  /\ once = "done" => Steady
           /\ once # "done" => Starting(t) /\ (Once(t) \/ \E o \in Verbs : CallVerb(t, o))
<1>1. /\ pc \in [Threads -> Places] /\ CallPlace(t)
  BY At
<1>2. config' = config /\ initialized' = initialized
  BY VerbKeepsConfig
<1>3. once # "done" => ~initialized /\ (op[t] \in Verbs => pc[t] = "once" \/ pc[t] \in Starter)
  BY DEF StartInv
<1>4. CASE \E o \in Verbs : CallVerb(t, o)
  <2>1. once' = once /\ UNCHANGED <<countVars, slot, have, peak>> /\ pc'[t] = "once"
    BY <1>1, <1>4 DEF CallVerb, coreVars, hookVars, Goto
  <2> QED BY <1>2, <1>3, <1>4, <2>1 DEF Steady, Starting
<1>5. CASE Once(t)
  <2>1. /\ UNCHANGED <<countVars, slot, have, peak>>
        /\ \/ pc'[t] = "verb" /\ once' = "done"
           \/ pc'[t] = "load" /\ once' = "running" /\ once # "done"
    BY <1>1, <1>5 DEF Once, hookVars, Goto
  <2> QED BY <1>2, <1>3, <1>5, <2>1 DEF Steady, Starting, Starter
<1>6. CASE VerbStep(t) /\ ~Once(t)
  <2>1. once' = once
    BY <1>6 DEF VerbStep, FastPath, Intercept, CheckProcess, CheckGlobal, PassAh, PassSrq, PassCq, PassPd,
                PassOn, RealVerb, CountQp, Snapshot, Publish, LoadMr, StoreMr, coreVars
  <2>2. pc[t] \in {"verb", "limit", "global", "real", "count", "snapshot", "publish"} \cup MrPlaces
    BY <1>6 DEF VerbStep, FastPath, Intercept, CheckProcess, CheckGlobal, PassAh, PassSrq, PassCq, PassPd,
                PassOn, RealVerb, CountQp, Snapshot, Publish, LoadMr, StoreMr, MrPlaces
  <2>3. op[t] \in Verbs
    <3>1. Counted \subseteq Verbs
      BY DEF Verbs
    <3> QED BY <1>1, <2>2, <3>1 DEF CallPlace, Counted
  <2>4. once = "done"
    BY <1>3, <2>2, <2>3 DEF Starter, MrPlaces
  <2> QED BY <1>2, <2>1, <2>4 DEF Steady
<1> QED BY <1>4, <1>5, <1>6

(* The library itself is outside the hooks. *)
LEMMA CoreElsewhere ==
    ASSUME TypeOK, PlacesOK, NEW t \in Threads, CoreMove(t)
    PROVE  pc[t] \notin Hooked /\ pc'[t] \notin Hooked
<1>1. /\ pc \in [Threads -> Places] /\ CallPlace(t)
  BY At
<1>2. Hooked \cap ({"idle", "once", "verb"} \cup Starter \cup FilePlaces \cup LogPlaces) = {}
  BY DEF Hooked, Starter, FilePlaces, LogPlaces, MrPlaces
<1>3. CASE CallCore(t)
  BY <1>1, <1>2, <1>3, Calls DEF CallCore, Idle, CallToLog, CallToLock, CallToStray, CallToInit, CallToCleanup, CallToNothing,
         rdma_intercept_cleanup, LogAt, Goto, threadVars, Starter, FilePlaces, LogPlaces
<1>4. CASE LoadConfig(t) \/ ApplyConfig(t) \/ OpenLog(t) \/ LinkVerbs(t)
  BY <1>1, <1>2, <1>4 DEF LoadConfig, ApplyConfig, OpenLog, LinkVerbs, Initialised, Finish, Goto, Starter
<1>5. CASE LogEnter(t) \/ LockFile(t) \/ LogWrite(t) \/ CloseLog(t) \/ ReopenLog(t)
  BY <1>1, <1>2, <1>5 DEF LogEnter, LockFile, LogWrite, CloseLog, ReopenLog, Finish, LogAt, Goto,
         FilePlaces, LogPlaces
<1> QED BY <1>3, <1>4, <1>5 DEF CoreMove, CoreStep

(* A thread comes into a hook by being intercepted. *)
LEMMA EntersHook ==
    ASSUME TypeOK, PlacesOK, NEW t \in Threads, pc'[t] \in Hooked,
           CoreMove(t) \/ VerbStep(t) \/ \E o \in Verbs : CallVerb(t, o)
    PROVE  VerbStep(t) /\ (pc[t] \in Hooked \/ Intercept(t))
<1>1. /\ pc \in [Threads -> Places] /\ ~CoreMove(t)
  BY At, CoreElsewhere
<1>2. {"idle", "once", "verb", "load"} \cap Hooked = {}
  BY DEF Hooked, MrPlaces
<1>3. CASE \E o \in Verbs : CallVerb(t, o)
  BY <1>1, <1>2, <1>3 DEF CallVerb, Goto
<1>4. CASE VerbStep(t)
  <2>1. CASE Once(t) \/ FastPath(t)
    BY <1>1, <1>2, <2>1 DEF Once, FastPath, Finish, Goto
  <2>2. CASE ~Once(t) /\ ~FastPath(t)
    BY <1>4, <2>2 DEF VerbStep, CheckProcess, CheckGlobal, PassAh, PassSrq, PassCq, PassPd,
         PassOn, RealVerb, CountQp, Snapshot, Publish, LoadMr, StoreMr, Hooked, MrPlaces
  <2> QED BY <1>4, <2>1, <2>2
<1> QED BY <1>1, <1>3, <1>4

(* Once it has started, interception stays on or off. *)
LEMMA StaysOn ==
    ASSUME TypeOK, Steady
    PROVE  /\ rdma_intercept_is_enabled' = rdma_intercept_is_enabled
           /\ config'["enable_qp_control"] = config["enable_qp_control"]
           /\ config'["max_qp_per_process"] = config["max_qp_per_process"]
BY DEF Steady, rdma_intercept_is_enabled, Keys, EnvKeys, FileKeys

LEMMA StartStep ==
    ASSUME TypeOK, PlacesOK, PlacesOK', StartInv, NEW t \in Threads,
           CoreMove(t) \/ VerbStep(t) \/ \E o \in Verbs : CallVerb(t, o)
    PROVE  StartInv'
<1>1. Only(t)
  BY CoreOnly, VerbOnly
<1>2. Undisturbed' <=> Undisturbed
  BY <1>1 DEF Undisturbed, Only
<1> SUFFICES ASSUME Undisturbed PROVE StartInv'
  BY <1>2 DEF StartInv
<1>3. /\ once = "done" => Steady
      /\ once # "done" => Starting(t)
  BY CoreStarts, VerbStarts
<1>4. CASE once = "done"
  <2>1. Steady
    BY <1>3, <1>4
  <2>2. ASSUME NEW s \in Threads, pc'[s] \in Hooked
        PROVE  rdma_intercept_is_enabled'
    <3>1. pc[s] \in Hooked \/ rdma_intercept_is_enabled
      BY <1>1, <2>2, EntersHook DEF Only, Intercept
    <3> QED BY <2>1, <3>1, StaysOn DEF StartInv
  <2> QED BY <2>1, <2>2 DEF StartInv, Steady
<1>5. CASE once # "done"
  <2>1. /\ Starting(t)
        /\ ~initialized /\ have = [qp |-> 0, mr |-> 0] /\ peak = 0
        /\ qp_count = 0 /\ mr_count = 0 /\ memory_used = 0 /\ slot = use.left
        /\ \A s \in Threads : op[s] \in Verbs => pc[s] = "once" \/ pc[s] \in Starter
    BY <1>3, <1>5 DEF StartInv
  <2>2. \A s \in Threads \ {t} : op'[s] \in Verbs => pc'[s] = "once" \/ pc'[s] \in Starter
    BY <1>1, <2>1 DEF Only
  <2>3. op'[t] \in Verbs => pc'[t] \in {"once", "verb"} \cup Starter
    BY <2>1 DEF Starting
  <2>4. ASSUME NEW s \in Threads PROVE pc'[s] \notin Hooked
    <3>1. pc'[s] \in Hooked => op'[s] \in Verbs
      BY DEF PlacesOK, CallPlace, Hooked, Verbs, Counted
    <3>2. pc'[s] \in {"once", "verb"} \cup Starter => pc'[s] \notin Hooked
      BY DEF Hooked, Starter, MrPlaces
    <3> QED BY <2>2, <2>3, <3>1, <3>2
  <2>5. use' = use
    BY <1>1 DEF Only
  <2>6. once' # "done" =>
             /\ ~initialized' /\ have' = [qp |-> 0, mr |-> 0] /\ peak' = 0
             /\ qp_count' = 0 /\ mr_count' = 0 /\ memory_used' = 0 /\ slot' = use.left
             /\ \A s \in Threads : op'[s] \in Verbs => pc'[s] = "once" \/ pc'[s] \in Starter
    BY <2>1, <2>2, <2>3 DEF Starting, countVars
  <2> QED BY <2>4, <2>5, <2>6 DEF StartInv
<1> QED BY <1>4, <1>5

LEMMA StartInit == ASSUME LegacyInit PROVE StartInv
<1>1. \A t \in Threads : pc[t] = "idle" /\ op[t] = "none"
  BY DEF LegacyInit, CoreInit
<1>2. "idle" \notin Hooked /\ "none" \notin Verbs
  BY Constants DEF Hooked, MrPlaces
<1> QED BY <1>1, <1>2 DEF LegacyInit, CoreInit, StartInv

-----------------------------------------------------------------------------
(* What a step does to the counters while interception is on: a verb that   *)
(* succeeds, one that counts or publishes, or nothing.                      *)

Counting == {"count", "snapshot", "publish"} \cup MrPlaces

Elsewhere(t) ==
    /\ UNCHANGED <<have, peak, countVars, slot, tmp>>
    /\ pc[t] \notin Counting /\ pc'[t] \notin Counting

Succeeds(t) ==
    /\ pc[t] = "real" /\ op[t] \in Counted
    /\ Holding(op[t]) /\ UNCHANGED <<op, countVars, slot, tmp, why, level>>
    /\ Goto(t, IF KindOf(op[t]) = "qp" THEN "count" ELSE "load_mr")

Move(t) == CoreMove(t) \/ VerbStep(t) \/ \E o \in Verbs : CallVerb(t, o)

LEMMA WhileOn ==
    ASSUME TypeOK, PlacesOK, NEW t \in Threads, rdma_intercept_is_enabled, Move(t)
    PROVE  \/ Elsewhere(t) \/ Succeeds(t) \/ CountQp(t)
           \/ Snapshot(t) \/ Publish(t) \/ LoadMr(t) \/ StoreMr(t)
<1>1. /\ pc \in [Threads -> Places] /\ CallPlace(t)
  BY At
<1>2. Counting \subseteq Hooked
  BY DEF Counting, Hooked
<1>3. Counting \cap ({"idle", "once", "verb", "limit", "global", "real"} \cup Starter \cup LogPlaces) = {}
  BY DEF Counting, Starter, LogPlaces, MrPlaces
<1>4. CASE CoreMove(t)
  BY <1>2, <1>4, CoreElsewhere DEF CoreMove, Elsewhere
<1>5. CASE \E o \in Verbs : CallVerb(t, o)
  BY <1>1, <1>3, <1>5 DEF CallVerb, Idle, Goto, hookVars, Elsewhere
<1>6. CASE Once(t) \/ Intercept(t)
  BY <1>1, <1>3, <1>6 DEF Once, Intercept, Goto, hookVars, Elsewhere, Starter
<1>7. CASE FastPath(t)
  BY <1>1, <1>3, <1>7 DEF FastPath, Finish, Goto, Elsewhere
<1>8. CASE CheckProcess(t) \/ CheckGlobal(t)
  BY <1>1, <1>3, <1>8 DEF CheckProcess, CheckGlobal, Deny, LogAt, Goto, Elsewhere, LogPlaces
<1>9. CASE PassAh(t) \/ PassSrq(t) \/ PassCq(t) \/ PassPd(t)
  BY <1>1, <1>3, <1>9 DEF PassAh, PassSrq, PassCq, PassPd, PassOn, LogAt, Goto, hookVars, Elsewhere, LogPlaces
<1>10. CASE RealVerb(t)
  BY <1>1, <1>3, <1>10 DEF RealVerb, LogAt, Goto, Elsewhere, Succeeds, LogPlaces
<1> QED BY <1>4, <1>5, <1>6, <1>7, <1>8, <1>9, <1>10 DEF Move, VerbStep

(* Nothing is counted before the start is over. *)
LEMMA Fresh ==
    ASSUME TypeOK, PlacesOK, StartInv, Undisturbed, NEW t \in Threads, Move(t), once # "done"
    PROVE  /\ \A s \in Threads : pc[s] \notin Hooked /\ pc'[s] \notin Hooked
           /\ have' = [qp |-> 0, mr |-> 0] /\ qp_count' = 0 /\ mr_count' = 0 /\ memory_used' = 0
           /\ slot' = use.left /\ peak' = 0
<1>1. Only(t)
  BY CoreOnly, VerbOnly DEF Move
<1>2. Starting(t)
  BY CoreStarts, VerbStarts DEF Move
<1>3. /\ ~initialized /\ have = [qp |-> 0, mr |-> 0] /\ peak = 0
      /\ qp_count = 0 /\ mr_count = 0 /\ memory_used = 0 /\ slot = use.left
  BY DEF StartInv
<1>4. \A s \in Threads : pc[s] \notin Hooked
  BY <1>3 DEF StartInv, rdma_intercept_is_enabled
<1>5. pc'[t] \notin Hooked
  BY <1>3, <1>4, EntersHook DEF Move, Intercept, rdma_intercept_is_enabled
<1> QED BY <1>1, <1>2, <1>3, <1>4, <1>5 DEF Only, Starting, countVars

LEMMA Counters1 ==
    ASSUME NEW t \in Threads, Only(t), NEW o, NEW p
    PROVE  /\ InPc(o, p) \in Nat
           /\ InPc(o, p)' = InPc(o, p) + (IF op'[t] = o /\ pc'[t] = p THEN 1 ELSE 0)
                                       - (IF op[t] = o /\ pc[t] = p THEN 1 ELSE 0)
<1> DEFINE A == {s \in Threads : op[s] = o /\ pc[s] = p}
           B == {s \in Threads : op'[s] = o /\ pc'[s] = p}
<1>1. \A s \in Threads \ {t} : s \in A <=> s \in B
  BY DEF Only
<1>2. A \in SUBSET Threads /\ B \in SUBSET Threads
  OBVIOUS
<1> HIDE DEF A, B
<1>3. /\ Cardinality(A) \in Nat
      /\ Cardinality(B) = Cardinality(A) + (IF t \in B THEN 1 ELSE 0) - (IF t \in A THEN 1 ELSE 0)
  BY <1>1, <1>2, CardOne
<1>4. InPc(o, p) = Cardinality(A) /\ InPc(o, p)' = Cardinality(B)
  BY DEF InPc, A, B
<1>5. (t \in A <=> op[t] = o /\ pc[t] = p) /\ (t \in B <=> op'[t] = o /\ pc'[t] = p)
  BY DEF A, B
<1> QED BY <1>3, <1>4, <1>5

LEMMA OnStays ==
    ASSUME TypeOK, PlacesOK, StartInv, Undisturbed, NEW t \in Threads, Move(t), once = "done"
    PROVE  /\ rdma_intercept_is_enabled' = rdma_intercept_is_enabled
           /\ config'["enable_qp_control"] = config["enable_qp_control"]
           /\ config'["max_qp_per_process"] = config["max_qp_per_process"]
BY CoreStarts, VerbStarts, StaysOn DEF Move

(* A QP that is made and not yet counted is taken; so is one being freed    *)
(* until the real verb has freed it.                                        *)
LEMMA QpsBeingMade ==
    ASSUME TypeOK, PlacesOK, HaveInv
    PROVE  /\ InPc("create_qp", "count") \in Nat /\ InPc("create_qp", "count") <= have.qp
           /\ InPc("destroy_qp", "count") \in Nat
<1> DEFINE A(o) == {s \in Threads : op[s] = o /\ pc[s] = "count"}
<1>1. A("create_qp") \subseteq Taken("qp")
  <2>1. \A s \in Threads : pc[s] = "count" => level[s] = INFO
    BY At DEF LogPlaces
  <2> QED BY <2>1 DEF Taken, Inside, Idle, Counted, KindOf, Before
<1>2. Taken("qp") \in SUBSET Threads
  BY TakenBy
<1>3. IsFiniteSet(Taken("qp")) /\ \A o : IsFiniteSet(A(o))
  BY <1>2, Constants, FS_Subset
<1>4. \A o : Cardinality(A(o)) \in Nat
  BY <1>3, FS_CardinalityType
<1>5. Cardinality(A("create_qp")) <= Cardinality(Taken("qp"))
  BY <1>1, <1>3, FS_Subset
<1>6. Cardinality(Taken("qp")) \in Nat /\ Cardinality(Taken("qp")) <= have.qp /\ have.qp \in Int
  BY <1>3, FS_CardinalityType DEF HaveInv, TypeOK, HookTypeOK
<1> QED BY <1>4, <1>5, <1>6 DEF InPc

LEMMA QpStep ==
    ASSUME TypeOK, PlacesOK, HaveInv, StartInv, QpInv, NEW t \in Threads, Move(t)
    PROVE  QpInv'
<1> DEFINE C == InPc("create_qp", "count")
           D == InPc("destroy_qp", "count")
<1>1. Only(t)
  BY CoreOnly, VerbOnly DEF Move
<1>2. Undisturbed' <=> Undisturbed
  BY <1>1 DEF Undisturbed, Only
<1> SUFFICES ASSUME Undisturbed, rdma_intercept_is_enabled'
             PROVE  have'.qp = qp_count' + C' - D'
  BY <1>2 DEF QpInv
<1>3. CASE once # "done"
  <2>1. \A s \in Threads : pc[s] # "count" /\ pc'[s] # "count"
    BY <1>3, Fresh DEF Hooked
  <2>2. C' = 0 /\ D' = 0
    BY <2>1, FS_EmptySet DEF InPc
  <2>3. have'.qp = 0 /\ qp_count' = 0
    BY <1>3, Fresh
  <2> QED BY <2>2, <2>3
<1>4. CASE once = "done"
  <2> DEFINE gained == IF op'[t] = "create_qp" /\ pc'[t] = "count" THEN 1 ELSE 0
             freed  == IF op'[t] = "destroy_qp" /\ pc'[t] = "count" THEN 1 ELSE 0
  <2>1. rdma_intercept_is_enabled
    BY <1>4, OnStays
  <2>2. have.qp = qp_count + C - D
    BY <2>1 DEF QpInv
  <2>3. /\ C \in Nat /\ D \in Nat /\ C <= have.qp
        /\ C' = C + gained - (IF op[t] = "create_qp" /\ pc[t] = "count" THEN 1 ELSE 0)
        /\ D' = D + freed - (IF op[t] = "destroy_qp" /\ pc[t] = "count" THEN 1 ELSE 0)
    BY <1>1, Counters1, QpsBeingMade
  <2>4. /\ have \in [qp : Int, mr : Int] /\ qp_count \in Nat
        /\ pc \in [Threads -> Places] /\ CallPlace(t)
    BY At DEF TypeOK, HookTypeOK
  <2> HIDE DEF C, D
  <2>5. CASE pc[t] # "count" /\ pc'[t] # "count" /\ have'.qp = have.qp /\ qp_count' = qp_count
    BY <2>2, <2>3, <2>5
  <2>6. CASE Elsewhere(t)
    BY <2>5, <2>6 DEF Elsewhere, Counting, countVars
  <2>7. CASE Succeeds(t)
    <3>1. /\ pc[t] = "real" /\ op' = op /\ qp_count' = qp_count
          /\ pc'[t] = IF op[t] \in {"create_qp", "destroy_qp"} THEN "count" ELSE "load_mr"
      BY <2>4, <2>7 DEF Succeeds, Goto, KindOf, countVars
    <3>2. have'.qp = have.qp + (IF op[t] = "create_qp" THEN 1 ELSE IF op[t] = "destroy_qp" THEN -1 ELSE 0)
      BY <2>7, HoldingIs DEF Succeeds
    <3> QED BY <2>2, <2>3, <2>4, <3>1, <3>2
  <2>8. CASE CountQp(t)
    <3>1. /\ pc[t] = "count" /\ have' = have /\ op' = op /\ pc'[t] # "count"
          /\ op[t] \in {"create_qp", "destroy_qp"}
          /\ op[t] = "create_qp" => qp_count' = qp_count + 1
          /\ op[t] # "create_qp" => qp_count' = IF qp_count > 0 THEN qp_count - 1 ELSE qp_count
      BY <2>4, <2>8 DEF CountQp, Goto, LogAt, CallPlace
    <3>2. op[t] = "destroy_qp" => D >= 1
      <4>1. D' \in Nat
        <5>1. \A A \in SUBSET Threads : Cardinality(A) \in Nat
          BY Constants, FS_Subset, FS_CardinalityType
        <5> QED BY <5>1 DEF D, InPc
      <4> QED BY <2>3, <3>1, <4>1
    <3> QED BY <2>2, <2>3, <2>4, <3>1, <3>2
  <2>9. CASE Snapshot(t) \/ Publish(t) \/ LoadMr(t) \/ StoreMr(t)
    BY <2>4, <2>5, <2>9 DEF Snapshot, Publish, LoadMr, StoreMr, LogAt, Goto, countVars
  <2> QED BY <2>1, <2>6, <2>7, <2>8, <2>9, WhileOn
<1> QED BY <1>3, <1>4, TypeNext DEF TypeOK, CoreTypeOK

-----------------------------------------------------------------------------
(* One thread alone counts. *)

LEMMA OneThread ==
    ASSUME TypeOK, PlacesOK, Single, NEW s \in Threads, NEW t \in Threads,
           op[s] \in Counted, op[t] \in Counted
    PROVE  s = t
<1>1. s \in VerbThreads /\ t \in VerbThreads
  BY At DEF VerbThreads, Counted
<1>2. IsFiniteSet(VerbThreads)
  BY Constants, FS_Subset DEF VerbThreads
<1>3. \E x : VerbThreads = {x}
  BY <1>2, FS_Singleton DEF Single
<1> QED BY <1>1, <1>3

LEMMA InMrPlaces ==
    ASSUME TypeOK, PlacesOK, Single, NEW s \in Threads, NEW t \in Threads, s # t,
           op[t] \in Counted
    PROVE  pc[s] \notin MrPlaces
BY At, OneThread DEF CallPlace, Counted

(* A product with one factor more or less. *)
LEMMA Products ==
    ASSUME NEW h \in Nat, NEW n \in Nat
    PROVE  /\ h * n \in Nat /\ (h - 1) * n + n = h * n
           /\ (h + 1) * n \in Nat /\ (h + 1) * n >= n /\ (h + 1) * n - n = h * n
<1>1. h * n \in Nat
  BY Z3
<1>2. (h - 1) * n + n = h * n
  BY Z3
<1>3. (h + 1) * n = h * n + n
  BY Z3
<1> QED BY <1>1, <1>2, <1>3

LEMMA HaveNat ==
    ASSUME TypeOK, HaveInv
    PROVE  have.qp \in Nat /\ have.mr \in Nat
<1>1. \A k : Cardinality(Taken(k)) \in Nat
  BY TakenBy, Constants, FS_Subset, FS_CardinalityType
<1> QED BY <1>1 DEF HaveInv, TypeOK, HookTypeOK

(* What a thread that counts memory regions knows of the counters.          *)
MrAt(t) ==
    /\ pc[t] \in {"load_mr", "store_mr"} =>
         mr_count = MrBefore(t) /\ memory_used = MrBefore(t) * MRLength
    /\ pc[t] = "store_mr" => tmp[t].mr = mr_count
    /\ pc[t] \in {"load_memory", "store_memory"} =>
         mr_count = have.mr /\ memory_used = MrBefore(t) * MRLength
    /\ pc[t] = "store_memory" => tmp[t].memory = memory_used

LEMMA MrInvIs ==
    MrInv <=> (Undisturbed /\ Single /\ rdma_intercept_is_enabled =>
                 /\ (\A t \in Threads : pc[t] \notin MrPlaces) =>
                      mr_count = have.mr /\ memory_used = have.mr * MRLength
                 /\ \A t \in Threads : MrAt(t))
BY DEF MrInv, MrAt

LEMMA MrInvNextIs ==
    MrInv' <=> (Undisturbed' /\ Single' /\ rdma_intercept_is_enabled' =>
                 /\ (\A t \in Threads : pc'[t] \notin MrPlaces) =>
                      mr_count' = have'.mr /\ memory_used' = have'.mr * MRLength
                 /\ \A t \in Threads : MrAt(t)')
BY DEF MrInv, MrAt, MrBefore

LEMMA MrStep ==
    ASSUME TypeOK, PlacesOK, HaveInv, StartInv, MrInv, NEW t \in Threads, Move(t)
    PROVE  MrInv'
<1>1. Only(t)
  BY CoreOnly, VerbOnly DEF Move
<1>2. (Undisturbed' <=> Undisturbed) /\ (Single' <=> Single)
  BY <1>1 DEF Undisturbed, Only, Single, VerbThreads
<1> SUFFICES ASSUME Undisturbed, Single, rdma_intercept_is_enabled'
             PROVE  /\ (\A s \in Threads : pc'[s] \notin MrPlaces) =>
                         mr_count' = have'.mr /\ memory_used' = have'.mr * MRLength
                    /\ \A s \in Threads : MrAt(s)'
  BY <1>2, MrInvNextIs
<1> USE DEF MrPlaces
<1>3. CASE once # "done"
  <2>1. \A s \in Threads : pc'[s] \notin MrPlaces
    BY <1>3, Fresh DEF Hooked
  <2>2. mr_count' = 0 /\ have'.mr = 0 /\ memory_used' = 0
    BY <1>3, Fresh
  <2>3. 0 * MRLength = 0
    BY Constants
  <2> QED BY <2>1, <2>2, <2>3 DEF MrAt
<1>4. CASE once = "done"
  <2>1. rdma_intercept_is_enabled
    BY <1>4, OnStays
  <2>2. /\ (\A s \in Threads : pc[s] \notin MrPlaces) =>
             mr_count = have.mr /\ memory_used = have.mr * MRLength
        /\ \A s \in Threads : MrAt(s)
    BY <2>1, MrInvIs
  <2>3. /\ have \in [qp : Int, mr : Int] /\ mr_count \in Nat /\ memory_used \in Nat
        /\ pc \in [Threads -> Places] /\ CallPlace(t) /\ DOMAIN tmp = Threads
        /\ have.mr \in Nat /\ MRLength \in Nat
    BY At, HaveNat, Constants DEF TypeOK, HookTypeOK
  (* The counters of regions are left alone. *)
  <2>4. CASE /\ pc[t] \notin MrPlaces /\ pc'[t] \notin MrPlaces
             /\ have'.mr = have.mr /\ mr_count' = mr_count /\ memory_used' = memory_used
    <3>1. \A s \in Threads : MrAt(s)'
      BY <1>1, <2>2, <2>4 DEF MrAt, MrBefore, Only
    <3>2. (\A s \in Threads : pc'[s] \notin MrPlaces) => \A s \in Threads : pc[s] \notin MrPlaces
      BY <1>1, <2>4 DEF Only
    <3> QED BY <2>2, <2>4, <3>1, <3>2
  <2>5. CASE Elsewhere(t)
    BY <2>4, <2>5 DEF Elsewhere, Counting, countVars
  <2>6. CASE CountQp(t) \/ Snapshot(t) \/ Publish(t)
    BY <2>3, <2>4, <2>6 DEF CountQp, Snapshot, Publish, LogAt, Goto, countVars
  (* The thread is the only one that counts. *)
  <2>7. ASSUME op[t] \in Counted
        PROVE  \A s \in Threads \ {t} : pc'[s] \notin MrPlaces /\ MrAt(s)' /\ pc[s] \notin MrPlaces
    <3>1. \A s \in Threads \ {t} : pc[s] \notin MrPlaces
      BY <2>7, InMrPlaces
    <3> QED BY <1>1, <3>1 DEF Only, MrAt
  <2>8. CASE Succeeds(t)
    <3>1. /\ op' = op /\ mr_count' = mr_count /\ memory_used' = memory_used
          /\ pc[t] = "real" /\ op[t] \in Counted
          /\ pc'[t] = IF KindOf(op[t]) = "qp" THEN "count" ELSE "load_mr"
          /\ have'.mr = have.mr + (IF op[t] = "reg_mr" THEN 1 ELSE IF op[t] = "dereg_mr" THEN -1 ELSE 0)
      BY <2>3, <2>8, HoldingIs DEF Succeeds, Goto, countVars
    <3>2. \A s \in Threads : pc[s] \notin MrPlaces
      BY <2>7, <3>1
    <3>3. mr_count = have.mr /\ memory_used = have.mr * MRLength
      BY <2>2, <3>2
    <3>4. CASE KindOf(op[t]) = "qp"
      BY <2>3, <2>4, <3>1, <3>2, <3>4 DEF KindOf
    <3>5. CASE KindOf(op[t]) # "qp"
      <4>1. op[t] \in {"reg_mr", "dereg_mr"}
        BY <3>1, <3>5 DEF KindOf, Counted
      <4>2. MrBefore(t)' = have.mr
        BY <2>3, <3>1, <4>1 DEF MrBefore
      <4>3. MrAt(t)'
        BY <3>1, <3>3, <3>5, <4>2 DEF MrAt
      <4> QED BY <2>7, <3>1, <3>5, <4>3
    <3> QED BY <3>4, <3>5
  <2>9. CASE LoadMr(t)
    <3>1. /\ op' = op /\ have' = have /\ mr_count' = mr_count /\ memory_used' = memory_used
          /\ op[t] \in Counted
          /\ tmp'[t].mr = mr_count /\ tmp'[t].memory = memory_used
          /\ \/ pc[t] = "load_mr" /\ pc'[t] = "store_mr"
             \/ pc[t] = "load_memory" /\ pc'[t] = "store_memory"
      BY <2>3, <2>9 DEF LoadMr, Goto, countVars, Now, CallPlace, Counted
    <3>2. MrAt(t)'
      BY <2>2, <3>1 DEF MrAt, MrBefore
    <3> QED BY <2>7, <3>1, <3>2
  <2>10. CASE StoreMr(t) /\ pc[t] = "store_mr"
    <3>1. /\ op' = op /\ have' = have /\ memory_used' = memory_used
          /\ op[t] \in {"reg_mr", "dereg_mr"} /\ pc'[t] = "load_memory"
          /\ mr_count' = Changed(t, tmp[t].mr, 1)
      BY <2>3, <2>10 DEF StoreMr, Goto, CallPlace
    <3>2. mr_count = MrBefore(t) /\ memory_used = MrBefore(t) * MRLength /\ tmp[t].mr = mr_count
      BY <2>2, <2>10 DEF MrAt
    <3>3. mr_count' = have.mr
      BY <2>3, <3>1, <3>2 DEF Changed, MrBefore
    <3>4. MrAt(t)'
      BY <3>1, <3>2, <3>3 DEF MrAt, MrBefore
    <3> QED BY <2>7, <3>1, <3>4 DEF Counted
  <2>11. CASE StoreMr(t) /\ pc[t] = "store_memory"
    <3>1. /\ op' = op /\ have' = have /\ mr_count' = mr_count
          /\ op[t] \in {"reg_mr", "dereg_mr"} /\ pc'[t] = "log"
          /\ memory_used' = Changed(t, tmp[t].memory, MRLength)
      BY <2>3, <2>11 DEF StoreMr, LogAt, Goto, CallPlace
    <3>2. mr_count = have.mr /\ memory_used = MrBefore(t) * MRLength /\ tmp[t].memory = memory_used
      BY <2>2, <2>11 DEF MrAt
    <3>3. memory_used' = have.mr * MRLength
      BY <2>3, <3>1, <3>2, Products DEF Changed, MrBefore
    <3>4. MrAt(t)'
      BY <3>1 DEF MrAt
    <3> QED BY <2>7, <3>1, <3>2, <3>3, <3>4 DEF Counted
  <2> QED BY <2>1, <2>5, <2>6, <2>8, <2>9, <2>10, <2>11, WhileOn DEF StoreMr
<1> QED BY <1>3, <1>4

LEMMA InPcAlone ==
    ASSUME TypeOK, PlacesOK, Single, NEW t \in Threads, op[t] \in Counted, NEW o \in Counted, NEW p
    PROVE  InPc(o, p) = IF op[t] = o /\ pc[t] = p THEN 1 ELSE 0
<1>1. \A s \in Threads : op[s] = o => s = t
  BY OneThread
<1>2. CASE op[t] = o /\ pc[t] = p
  <2>1. {s \in Threads : op[s] = o /\ pc[s] = p} = {t}
    BY <1>1, <1>2
  <2> QED BY <1>2, <2>1, FS_Singleton DEF InPc
<1>3. CASE ~(op[t] = o /\ pc[t] = p)
  <2>1. {s \in Threads : op[s] = o /\ pc[s] = p} = {}
    BY <1>1, <1>3
  <2> QED BY <1>3, <2>1, FS_EmptySet DEF InPc
<1> QED BY <1>2, <1>3

(* A QP is refused for the limit of the process by the check of it, and by  *)
(* no other step.                                                           *)
Refuses(t) ==
    /\ CheckProcess(t) /\ op[t] = "create_qp" /\ op' = op
    /\ \E u \in UsageSeen : TooManyQps(u)

LEMMA RefusedBy ==
    ASSUME TypeOK, PlacesOK, NEW t \in Threads, Move(t),
           why'[t] = "process", op'[t] = "create_qp"
    PROVE  (why[t] = "process" /\ op[t] = "create_qp") \/ Refuses(t)
<1>1. /\ pc \in [Threads -> Places] /\ op \in [Threads -> Verbs \cup CoreCalls \cup {"none"}]
      /\ DOMAIN why = Threads /\ (why[t] # "none" => pc[t] \in LogPlaces)
  BY At
<1>2. CASE CoreMove(t)
  <2>1. why[t] = "process"
    BY <1>1, <1>2 DEF CoreMove
  <2>2. pc[t] \in LogPlaces
    BY <1>1, <2>1
  <2>3. op'[t] \in {op[t], "none"}
    BY <1>1, <1>2, <2>2 DEF CoreMove, CallCore, Idle, CoreStep, LoadConfig, ApplyConfig, OpenLog, LinkVerbs,
         LogEnter, LockFile, LogWrite, CloseLog, ReopenLog, Finish, LogPlaces
  <2> QED BY <2>1, <2>3
<1>3. CASE CheckProcess(t)
  <2>1. why[t] = "none"
    BY <1>1, <1>3 DEF CheckProcess, LogPlaces
  <2> QED BY <1>1, <1>3, <2>1 DEF CheckProcess, Deny, Refuses
<1>4. CASE CheckGlobal(t)
  <2>1. why[t] = "none"
    BY <1>1, <1>4 DEF CheckGlobal, LogPlaces
  <2> QED BY <1>1, <1>4, <2>1 DEF CheckGlobal, Deny
<1>5. CASE (VerbStep(t) /\ ~CheckProcess(t) /\ ~CheckGlobal(t)) \/ \E o \in Verbs : CallVerb(t, o)
  <2>1. why' = why
    BY <1>5 DEF VerbStep, Once, FastPath, Intercept, PassAh, PassSrq, PassCq, PassPd, PassOn, RealVerb,
                CountQp, Snapshot, Publish, LoadMr, StoreMr, CallVerb, hookVars
  <2>2. pc[t] \notin LogPlaces
    BY <1>5 DEF VerbStep, Once, FastPath, Intercept, PassAh, PassSrq, PassCq, PassPd, PassOn, RealVerb,
                CountQp, Snapshot, Publish, LoadMr, StoreMr, CallVerb, Idle, LogPlaces
  <2> QED BY <1>1, <2>1, <2>2
<1> QED BY <1>2, <1>3, <1>4, <1>5 DEF Move

(* What the check of the process sees when eBPF is not asked. *)
LEMMA Seen ==
    ASSUME TypeOK, ~use.ebpf, NEW u \in UsageSeen
    PROVE  /\ QpSeen(u) \in Nat /\ QpSeen(u) = IF use.region # "none" THEN slot.qp ELSE qp_count
           /\ config["max_qp_per_process"] \in Nat
<1>1. slot.qp \in Nat /\ qp_count \in Nat /\ config["max_qp_per_process"] \in Nat
  BY ConfigKeys DEF TypeOK, HookTypeOK, CoreTypeOK, Counters
<1> QED BY <1>1 DEF UsageSeen, QpSeen, Now

(* The record that the process finds at its start. *)
LEMMA Left ==
    ASSUME TypeOK
    PROVE  /\ use.left \in Counters /\ use.left.qp \in Nat
           /\ use.region # "room" => use.left.qp = 0
<1>1. use \in Uses
  BY DEF TypeOK, CoreTypeOK
<1> QED BY <1>1, LegacyAssumption DEF Counters, Zero

(* What was held and counted at most, and who was refused. *)
Reached ==
    /\ 0 <= peak /\ have.qp <= peak /\ qp_count <= peak
    /\ slot.qp <= peak \/ Inherited
    /\ \A t \in Threads : pc[t] = "publish" => tmp[t].qp <= peak
RefusedAtPeak ==
    \A t \in Threads : why[t] = "process" /\ op[t] = "create_qp" /\ ~use.ebpf =>
        \/ config["max_qp_per_process"] <= peak
        \/ peak = 0 /\ config["max_qp_per_process"] <= use.left.qp

LEMMA PeakIs ==
    /\ PeakInv <=> (Undisturbed /\ Single => Reached /\ RefusedAtPeak)
    /\ PeakInv' <=> (Undisturbed' /\ Single' => Reached' /\ RefusedAtPeak')
BY DEF PeakInv, Reached, RefusedAtPeak

LEMMA ReachedStep ==
    ASSUME TypeOK, PlacesOK, HaveInv, StartInv, QpInv, Undisturbed, Single, Reached,
           NEW t \in Threads, Move(t)
    PROVE  Reached' /\ peak <= peak'
<1>1. Only(t) /\ use' = use
  BY CoreOnly, VerbOnly DEF Move, Only
<1>2. /\ have \in [qp : Int, mr : Int] /\ qp_count \in Nat /\ peak \in Int
      /\ slot \in Counters /\ tmp \in [Threads -> Counters]
      /\ pc \in [Threads -> Places] /\ CallPlace(t)
  BY At DEF TypeOK, HookTypeOK
<1>3. CASE once # "done"
  <2>1. \A s \in Threads : pc'[s] # "publish"
    BY <1>3, Fresh DEF Hooked
  <2>2. Inherited' /\ have'.qp = 0 /\ qp_count' = 0 /\ peak' = 0 /\ peak = 0
    BY <1>1, <1>3, Fresh DEF Inherited, StartInv
  <2> QED BY <2>1, <2>2 DEF Reached
<1>4. CASE once = "done" /\ ~rdma_intercept_is_enabled
  <2>1. \A s \in Threads : pc[s] \notin Hooked
    BY <1>4 DEF StartInv
  <2>2. \A s \in Threads : pc'[s] # "publish"
    <3>1. pc'[t] \notin Hooked
      BY <1>4, <2>1, EntersHook DEF Move, Intercept
    <3> QED BY <1>1, <2>1, <3>1 DEF Only, Hooked
  <2>3. qp_count' = qp_count /\ slot' = slot /\ ((have' = have /\ peak' = peak) \/ Holding(op[t]))
    <3>1. CASE CoreMove(t) \/ \E o \in Verbs : CallVerb(t, o)
      BY <3>1 DEF CoreMove, CallVerb, hookVars, countVars
    <3>2. CASE VerbStep(t)
      <4>1. Once(t) \/ FastPath(t) \/ Intercept(t)
        <5>1. pc[t] \notin {"limit", "global", "real", "count", "snapshot", "publish", "load_mr", "store_mr",
                            "load_memory", "store_memory"}
          BY <2>1 DEF Hooked, MrPlaces
        <5> QED BY <3>2, <5>1 DEF VerbStep, CheckProcess, CheckGlobal, PassAh, PassSrq, PassCq, PassPd,
                  PassOn, RealVerb, CountQp, Snapshot, Publish, LoadMr, StoreMr
      <4> QED BY <4>1 DEF Once, FastPath, Intercept, hookVars, countVars
    <3> QED BY <3>1, <3>2 DEF Move
  <2>4. Inherited => Inherited'
    <3>1. ~rdma_intercept_is_enabled'
      BY <1>4, OnStays
    <3> QED BY <1>1, <2>3, <3>1 DEF Inherited
  <2>5. CASE have' = have /\ peak' = peak
    BY <1>2, <2>2, <2>3, <2>4, <2>5 DEF Reached
  <2>6. CASE Holding(op[t])
    <3>1. have'.qp \in Int /\ peak' = IF have'.qp > peak THEN have'.qp ELSE peak
      BY <1>2, <2>6, HoldingIs
    <3> QED BY <1>2, <2>2, <2>3, <2>4, <3>1 DEF Reached, Counters
  <2> QED BY <2>3, <2>5, <2>6
<1>5. CASE once = "done" /\ rdma_intercept_is_enabled
  <2>1. CASE Elsewhere(t)
    <3>1. have' = have /\ peak' = peak /\ qp_count' = qp_count /\ slot' = slot /\ tmp' = tmp
      BY <2>1 DEF Elsewhere, countVars
    <3>2. pc[t] \notin Counting /\ pc'[t] \notin Counting
      BY <2>1 DEF Elsewhere
    <3>3. Publishing => Publishing'
      BY <1>1, <3>2 DEF Publishing, Only, Counting
    <3>4. Inherited => Inherited'
      BY <1>1, <1>5, <3>1, <3>3 DEF Inherited
    <3> QED BY <1>1, <1>2, <3>1, <3>2, <3>4 DEF Reached, Counting, Only
  (* Who counts or publishes is alone in it. *)
  <2>2. ASSUME op[t] \in Counted
        PROVE  Publishing <=> op[t] = "create_qp" /\ pc[t] \in {"count", "snapshot", "publish"}
    BY <2>2, OneThread DEF Publishing, Counted
  <2>3. CASE Succeeds(t)
    <3>1. /\ have'.qp \in Int /\ peak' = IF have'.qp > peak THEN have'.qp ELSE peak
          /\ op[t] # "create_qp" => have'.qp <= have.qp
          /\ qp_count' = qp_count /\ slot' = slot /\ tmp' = tmp /\ pc'[t] # "publish"
          /\ pc[t] = "real" /\ op[t] \in Counted /\ op' = op
          /\ op[t] = "create_qp" => pc'[t] = "count"
      BY <1>2, <2>3, HoldingIs DEF Succeeds, Goto, countVars, KindOf
    <3>2. Inherited => Inherited'
      <4>1. SUFFICES ASSUME Inherited PROVE Inherited'
        OBVIOUS
      <4>2. CASE op[t] = "create_qp"
        BY <1>1, <3>1, <4>1, <4>2 DEF Inherited, Publishing
      <4>3. CASE op[t] # "create_qp"
        <5>1. peak = 0
          BY <1>5, <2>2, <3>1, <4>1, <4>3 DEF Inherited
        <5>2. peak' = 0
          BY <1>2, <3>1, <4>3, <5>1 DEF Reached
        <5> QED BY <1>1, <3>1, <4>1, <5>2 DEF Inherited
      <4> QED BY <4>2, <4>3
    <3> QED BY <1>1, <1>2, <3>1, <3>2 DEF Reached, Only, Counters
  <2>4. CASE CountQp(t)
    <3>1. /\ have' = have /\ peak' = peak /\ slot' = slot /\ tmp' = tmp /\ pc'[t] # "publish" /\ op' = op
          /\ pc[t] = "count" /\ op[t] \in {"create_qp", "destroy_qp"}
          /\ op[t] = "create_qp" => qp_count' = qp_count + 1 /\ pc'[t] = "snapshot"
          /\ op[t] # "create_qp" => qp_count' = IF qp_count > 0 THEN qp_count - 1 ELSE qp_count
      BY <1>2, <2>4 DEF CountQp, Goto, LogAt, CallPlace
    <3>2. op[t] = "create_qp" => qp_count + 1 = have.qp
      <4>1. SUFFICES ASSUME op[t] = "create_qp" PROVE qp_count + 1 = have.qp
        OBVIOUS
      <4>2. InPc("create_qp", "count") = 1 /\ InPc("destroy_qp", "count") = 0
        BY <3>1, <4>1, InPcAlone DEF Counted
      <4> QED BY <1>2, <1>5, <4>2 DEF QpInv
    <3>3. qp_count' <= peak
      BY <1>2, <3>1, <3>2 DEF Reached
    <3>4. Inherited => Inherited'
      <4>1. op[t] = "create_qp" => Publishing'
        BY <3>1 DEF Publishing
      <4>2. op[t] # "create_qp" => ~Publishing
        BY <2>2, <3>1 DEF Counted
      <4> QED BY <1>1, <1>5, <3>1, <4>1, <4>2 DEF Inherited
    <3> QED BY <1>1, <1>2, <3>1, <3>3, <3>4 DEF Reached, Only
  <2>5. CASE Snapshot(t)
    <3>1. /\ have' = have /\ peak' = peak /\ slot' = slot /\ qp_count' = qp_count /\ tmp'[t].qp = qp_count
          /\ op' = op /\ op[t] = "create_qp" /\ pc'[t] = "publish"
      BY <1>2, <2>5 DEF Snapshot, Now, countVars, Goto, CallPlace
    <3>2. Inherited => Inherited'
      BY <1>1, <3>1 DEF Inherited, Publishing
    <3> QED BY <1>1, <1>2, <3>1, <3>2 DEF Reached, Only
  <2>6. CASE Publish(t)
    <3>1. /\ have' = have /\ peak' = peak /\ qp_count' = qp_count /\ pc'[t] # "publish"
          /\ slot' = (IF use.region = "room" THEN tmp[t] ELSE slot) /\ pc[t] = "publish"
      BY <1>2, <2>6 DEF Publish, LogAt, Goto, countVars
    <3>2. slot'.qp <= peak
      <4>1. CASE use.region = "room"
        BY <3>1, <4>1 DEF Reached
      <4>2. CASE use.region # "room"
        BY <3>1, <4>2, Left DEF Reached, Inherited
      <4> QED BY <4>1, <4>2
    <3> QED BY <1>1, <1>2, <3>1, <3>2 DEF Reached, Only
  <2>7. CASE LoadMr(t) \/ StoreMr(t)
    <3>1. /\ have' = have /\ peak' = peak /\ qp_count' = qp_count /\ slot' = slot /\ pc'[t] # "publish"
          /\ op[t] \in Counted \ {"create_qp"}
      BY <1>2, <2>7 DEF LoadMr, StoreMr, LogAt, Goto, countVars, CallPlace, MrPlaces, Counted
    <3>2. Inherited => Inherited'
      BY <1>1, <1>5, <2>2, <3>1 DEF Inherited
    <3> QED BY <1>1, <1>2, <3>1, <3>2 DEF Reached, Only
  <2> QED BY <1>5, <2>1, <2>3, <2>4, <2>5, <2>6, <2>7, WhileOn
<1> QED BY <1>3, <1>4, <1>5

(* While the refusal is being logged nobody makes a QP. *)
LEMMA PeakWaits ==
    ASSUME TypeOK, PlacesOK, Single, Reached, NEW t \in Threads, Move(t), NEW s \in Threads,
           op[s] = "create_qp", pc[s] \in LogPlaces \cup {"limit"}
    PROVE  peak' = peak
<1>1. /\ have \in [qp : Int, mr : Int] /\ peak \in Int /\ have.qp <= peak
  BY DEF TypeOK, HookTypeOK, Reached
<1>2. peak' = peak \/ (Holding(op[t]) /\ pc[t] \in {"verb", "real"})
  BY DEF Move, CoreMove, VerbStep, CallVerb, Once, FastPath, Intercept, CheckProcess, CheckGlobal, PassAh, PassSrq,
     PassCq, PassPd, PassOn, RealVerb, CountQp, Snapshot, Publish, LoadMr, StoreMr, hookVars
<1>3. CASE Holding(op[t]) /\ pc[t] \in {"verb", "real"}
  <2>1. s # t
    BY <1>3 DEF LogPlaces
  <2>2. op[t] \notin Counted
    BY <2>1, OneThread DEF Counted
  <2>3. have'.qp = have.qp
    BY <1>1, <1>3, <2>2, HoldingIs DEF Counted
  <2> QED BY <1>1, <1>3, <2>3, HoldingIs
<1> QED BY <1>2, <1>3

LEMMA PeakStep ==
    ASSUME TypeOK, PlacesOK, HaveInv, StartInv, QpInv, PeakInv, NEW t \in Threads, Move(t)
    PROVE  PeakInv'
<1>1. Only(t)
  BY CoreOnly, VerbOnly DEF Move
<1>2. (Undisturbed' <=> Undisturbed) /\ (Single' <=> Single)
  BY <1>1 DEF Undisturbed, Only, Single, VerbThreads
<1> SUFFICES ASSUME Undisturbed, Single PROVE Reached' /\ RefusedAtPeak'
  BY <1>2, PeakIs
<1>3. Reached /\ RefusedAtPeak
  BY PeakIs
<1>4. Reached'
  BY <1>3, ReachedStep
<1>5. ASSUME NEW s \in Threads, why'[s] = "process", op'[s] = "create_qp", ~use.ebpf
      PROVE  \/ config'["max_qp_per_process"] <= peak'
             \/ peak' = 0 /\ config'["max_qp_per_process"] <= use.left.qp
  <2>1. (why[s] = "process" /\ op[s] = "create_qp") \/ (s = t /\ Refuses(t))
    BY <1>1, <1>5, RefusedBy DEF Only
  <2>2. pc[s] \in LogPlaces \cup {"limit"} /\ op[s] = "create_qp"
    BY <2>1, At DEF Refuses, CheckProcess
  <2>3. once = "done"
    <3>1. "create_qp" \in Verbs
      BY DEF Verbs, Counted
    <3> QED BY <2>2, <3>1 DEF StartInv, LogPlaces, Starter
  <2>4. config'["max_qp_per_process"] = config["max_qp_per_process"]
    BY <2>3, OnStays
  <2>5. peak' = peak
    BY <1>3, <2>2, PeakWaits
  <2>6. \/ config["max_qp_per_process"] <= peak
        \/ peak = 0 /\ config["max_qp_per_process"] <= use.left.qp
    <3>1. CASE why[s] = "process" /\ op[s] = "create_qp"
      BY <1>3, <1>5, <3>1 DEF RefusedAtPeak
    <3>2. CASE s = t /\ Refuses(t)
      <4>1. PICK u \in UsageSeen : TooManyQps(u)
        BY <3>2 DEF Refuses
      <4>2. /\ QpSeen(u) \in Nat /\ config["max_qp_per_process"] \in Nat
            /\ QpSeen(u) = IF use.region # "none" THEN slot.qp ELSE qp_count
        BY <1>5, Seen
      <4>3. QpSeen(u) + 1 > config["max_qp_per_process"]
        BY <4>1 DEF TooManyQps
      <4>4. peak \in Int
        BY DEF TypeOK, HookTypeOK
      <4>5. QpSeen(u) <= peak \/ (peak = 0 /\ QpSeen(u) = use.left.qp)
        <5>1. pc[t] = "limit" /\ op[t] = "create_qp"
          BY <3>2 DEF Refuses, CheckProcess
        <5>2. ~Publishing /\ rdma_intercept_is_enabled
          <6>1. ~Publishing
            BY <5>1, OneThread DEF Publishing, Counted
          <6> QED BY <5>1, <6>1 DEF StartInv, Hooked
        <5> QED BY <1>3, <4>2, <5>2 DEF Reached, Inherited
      <4> QED BY <4>2, <4>3, <4>4, <4>5
    <3> QED BY <2>1, <3>1, <3>2
  <2> QED BY <2>4, <2>5, <2>6
<1>6. use' = use
  BY <1>1 DEF Only
<1> QED BY <1>4, <1>5, <1>6 DEF RefusedAtPeak

(* A thread comes to the global check, or to the real verb, to make a QP.   *)
LEMMA GoesOn ==
    ASSUME TypeOK, PlacesOK, NEW t \in Threads, Move(t), config["enable_qp_control"],
           pc'[t] \in {"global", "real"}, op'[t] = "create_qp"
    PROVE  /\ op[t] = "create_qp" /\ pc[t] \in {"limit", "global"}
           /\ pc[t] = "limit" => \E u \in UsageSeen : ~TooManyQps(u)
<1>1. /\ pc \in [Threads -> Places] /\ op \in [Threads -> Verbs \cup CoreCalls \cup {"none"}]
  BY At
<1>2. VerbStep(t) /\ (pc[t] \in Hooked \/ Intercept(t))
  BY EntersHook DEF Move, Hooked
<1>3. CASE Intercept(t)
  BY <1>1, <1>3 DEF Intercept, Goto
<1>4. CASE CheckProcess(t)
  BY <1>1, <1>4 DEF CheckProcess, Deny, LogAt, Goto
<1>5. CASE CheckGlobal(t)
  BY <1>1, <1>5 DEF CheckGlobal, Deny, LogAt, Goto
<1>6. CASE PassAh(t) \/ PassSrq(t) \/ PassCq(t) \/ PassPd(t) \/ RealVerb(t)
  BY <1>1, <1>6 DEF PassAh, PassSrq, PassCq, PassPd, PassOn, RealVerb, LogAt, Goto
<1>7. CASE CountQp(t) \/ Snapshot(t) \/ Publish(t) \/ LoadMr(t) \/ StoreMr(t)
  BY <1>1, <1>7 DEF CountQp, Snapshot, Publish, LoadMr, StoreMr, LogAt, Goto
<1>8. CASE Once(t) \/ FastPath(t)
  BY <1>1, <1>8 DEF Once, FastPath, Finish, Goto
<1> QED BY <1>2, <1>3, <1>4, <1>5, <1>6, <1>7, <1>8 DEF VerbStep

(* The limit, while it is enforced on a process that alone uses its record. *)
Enforced ==
    /\ rdma_intercept_is_enabled /\ config["enable_qp_control"]
    /\ use.region = "room" \/ (use.region = "none" /\ ~use.ebpf)
Within ==
    /\ have.qp <= config["max_qp_per_process"]
    /\ use.region = "room" /\ ~Publishing => have.qp <= slot.qp
WithinAt(t) ==
    /\ pc[t] = "publish" => tmp[t].qp = have.qp
    /\ pc[t] \in {"global", "real"} /\ op[t] = "create_qp" =>
         have.qp + 1 <= config["max_qp_per_process"]

LEMMA LimitIs ==
    /\ LimitInv <=> (Undisturbed /\ Single /\ Enforced => Within /\ \A t \in Threads : WithinAt(t))
    /\ LimitInv' <=> (Undisturbed' /\ Single' /\ Enforced' => Within' /\ \A t \in Threads : WithinAt(t)')
BY DEF LimitInv, Enforced, Within, WithinAt

LEMMA LimitStep ==
    ASSUME TypeOK, PlacesOK, TypeOK', PlacesOK', HaveInv, StartInv, QpInv, LimitInv,
           NEW t \in Threads, Move(t)
    PROVE  LimitInv'
<1>1. Only(t) /\ use' = use
  BY CoreOnly, VerbOnly DEF Move, Only
<1>2. (Undisturbed' <=> Undisturbed) /\ (Single' <=> Single)
  BY <1>1 DEF Undisturbed, Only, Single, VerbThreads
<1> SUFFICES ASSUME Undisturbed, Single, Enforced'
             PROVE  Within' /\ \A s \in Threads : WithinAt(s)'
  BY <1>2, LimitIs
<1>3. CASE once # "done"
  <2>1. \A s \in Threads : pc'[s] \notin {"publish", "global", "real"}
    BY <1>3, Fresh DEF Hooked
  <2>2. have'.qp = 0 /\ slot'.qp \in Nat /\ config'["max_qp_per_process"] \in Nat
    BY <1>3, Fresh, ConfigKeys DEF TypeOK, CoreTypeOK, HookTypeOK, Counters
  <2> QED BY <2>1, <2>2 DEF Within, WithinAt
<1>4. CASE once = "done"
  <2> DEFINE max == config["max_qp_per_process"]
  <2>1. Enforced /\ config'["max_qp_per_process"] = max
    BY <1>1, <1>4, OnStays DEF Enforced
  <2>2. Within /\ (\A s \in Threads : WithinAt(s)) /\ config["enable_qp_control"]
        /\ rdma_intercept_is_enabled
    BY <2>1, LimitIs DEF Enforced
  <2>3. /\ have \in [qp : Int, mr : Int] /\ qp_count \in Nat /\ slot \in Counters /\ max \in Nat
        /\ tmp \in [Threads -> Counters] /\ pc \in [Threads -> Places] /\ CallPlace(t)
    BY At, ConfigKeys DEF TypeOK, HookTypeOK, CoreTypeOK
  (* Who counts, publishes or makes a QP is alone in it. *)
  <2>4. ASSUME op[t] \in Counted
        PROVE  /\ \A s \in Threads \ {t} : op[s] \notin Counted /\ WithinAt(s)'
               /\ Publishing <=> op[t] = "create_qp" /\ pc[t] \in {"count", "snapshot", "publish"}
               /\ Publishing' <=> op'[t] = "create_qp" /\ pc'[t] \in {"count", "snapshot", "publish"}
    <3>1. \A s \in Threads \ {t} : op[s] \notin Counted
      BY <2>4, OneThread
    <3>2. \A s \in Threads \ {t} : op'[s] \notin Counted
      BY <1>1, <3>1 DEF Only
    <3>3. \A s \in Threads \ {t} : pc'[s] # "publish"
      BY <3>2 DEF PlacesOK, CallPlace, Counted
    <3> QED BY <3>1, <3>2, <3>3 DEF Publishing, Counted, WithinAt
  <2>5. op[t] \in Counted => have.qp = qp_count + (IF op[t] = "create_qp" /\ pc[t] = "count" THEN 1 ELSE 0)
                                                - (IF op[t] = "destroy_qp" /\ pc[t] = "count" THEN 1 ELSE 0)
    BY <2>2, InPcAlone DEF QpInv, Counted
  <2> HIDE DEF max
  <2>6. CASE Elsewhere(t)
    <3>1. have' = have /\ slot' = slot /\ tmp' = tmp /\ pc[t] \notin Counting /\ pc'[t] \notin Counting
      BY <2>6 DEF Elsewhere
    <3>2. Within'
      <4>1. Publishing => Publishing'
        BY <1>1, <3>1 DEF Publishing, Only, Counting
      <4> QED BY <1>1, <2>1, <2>2, <3>1, <4>1 DEF Within, max
    <3>3. \A s \in Threads \ {t} : WithinAt(s)'
      BY <1>1, <2>1, <2>2, <3>1 DEF WithinAt, Only, max
    <3>4. ASSUME pc'[t] \in {"global", "real"}, op'[t] = "create_qp"
          PROVE  have.qp + 1 <= max
      <4>1. op[t] = "create_qp" /\ pc[t] \in {"limit", "global"}
            /\ (pc[t] = "limit" => \E u \in UsageSeen : ~TooManyQps(u))
        BY <2>2, <3>4, GoesOn
      <4>2. CASE pc[t] = "global"
        BY <2>2, <4>1, <4>2 DEF WithinAt, max
      <4>3. CASE pc[t] = "limit"
        <5>1. PICK u \in UsageSeen : ~TooManyQps(u)
          BY <4>1, <4>3
        <5>2. QpSeen(u) \in Nat /\ QpSeen(u) = IF use.region # "none" THEN slot.qp ELSE qp_count
          <6>1. CASE use.region = "room"
            BY <2>3, <6>1 DEF UsageSeen, QpSeen, Counters
          <6>2. CASE ~use.ebpf
            BY <6>2, Seen
          <6> QED BY <2>1, <6>1, <6>2 DEF Enforced
        <5>3. QpSeen(u) + 1 <= max
          BY <2>3, <5>1, <5>2 DEF TooManyQps, max
        <5>4. ~Publishing /\ have.qp = qp_count
          BY <2>3, <2>4, <2>5, <4>1, <4>3 DEF Counted
        <5>5. have.qp <= QpSeen(u)
          BY <2>1, <2>2, <2>3, <5>2, <5>4 DEF Enforced, Within
        <5> QED BY <2>3, <5>2, <5>3, <5>5
      <4> QED BY <4>1, <4>2, <4>3
    <3>5. WithinAt(t)'
      BY <2>1, <3>1, <3>4 DEF WithinAt, Counting, max
    <3> QED BY <3>2, <3>3, <3>5
  <2>7. CASE Succeeds(t)
    <3>1. /\ pc[t] = "real" /\ op[t] \in Counted /\ op' = op /\ slot' = slot /\ tmp' = tmp
          /\ pc'[t] = IF op[t] \in {"create_qp", "destroy_qp"} THEN "count" ELSE "load_mr"
          /\ have'.qp = have.qp + (IF op[t] = "create_qp" THEN 1 ELSE IF op[t] = "destroy_qp" THEN -1 ELSE 0)
      BY <2>3, <2>7, HoldingIs DEF Succeeds, Goto, KindOf
    <3>2. have'.qp <= max
      BY <2>2, <2>3, <3>1 DEF Within, WithinAt, max
    <3>3. use.region = "room" /\ ~Publishing' => have'.qp <= slot'.qp
      BY <2>2, <2>3, <2>4, <3>1 DEF Within, Counters
    <3> QED BY <1>1, <2>1, <2>4, <3>1, <3>2, <3>3 DEF Within, WithinAt
  <2>8. CASE CountQp(t)
    <3>1. /\ op[t] \in Counted /\ have' = have /\ slot' = slot /\ tmp' = tmp /\ op' = op
          /\ pc[t] = "count" /\ pc'[t] = IF op[t] = "create_qp" THEN "snapshot" ELSE "log"
      BY <2>3, <2>8 DEF CountQp, LogAt, Goto, CallPlace, Counted
    <3> QED BY <1>1, <2>1, <2>2, <2>4, <3>1 DEF Within, WithinAt, max
  <2>9. CASE Snapshot(t)
    <3>1. /\ op[t] = "create_qp" /\ have' = have /\ slot' = slot /\ op' = op /\ tmp'[t].qp = qp_count
          /\ pc[t] = "snapshot" /\ pc'[t] = "publish"
      BY <2>3, <2>9 DEF Snapshot, Goto, CallPlace, Now
    <3>2. tmp'[t].qp = have.qp
      BY <2>3, <2>5, <3>1 DEF Counted
    <3> QED BY <1>1, <2>1, <2>2, <2>4, <3>1, <3>2 DEF Within, WithinAt, max, Counted
  <2>10. CASE Publish(t)
    <3>1. /\ op[t] = "create_qp" /\ have' = have /\ op' = op
          /\ use.region = "room" => slot' = tmp[t]
          /\ pc[t] = "publish" /\ pc'[t] = "log"
      BY <2>3, <2>10 DEF Publish, LogAt, Goto, CallPlace
    <3>2. use.region = "room" => slot'.qp = have.qp
      BY <2>2, <3>1 DEF WithinAt
    <3> QED BY <1>1, <2>1, <2>2, <2>3, <2>4, <3>1, <3>2 DEF Within, WithinAt, max, Counted
  <2>11. CASE LoadMr(t) \/ StoreMr(t)
    <3>1. /\ op[t] \in Counted \ {"create_qp"} /\ have' = have /\ slot' = slot /\ op' = op
          /\ pc'[t] \notin {"publish", "global", "real"}
      BY <2>3, <2>11 DEF LoadMr, StoreMr, LogAt, Goto, CallPlace, MrPlaces, Counted
    <3> QED BY <1>1, <2>1, <2>2, <2>4, <3>1 DEF Within, WithinAt, max
  <2> QED BY <2>2, <2>6, <2>7, <2>8, <2>9, <2>10, <2>11, WhileOn
<1> QED BY <1>3, <1>4

-----------------------------------------------------------------------------
(* The counts, from the start on. *)

LEMMA CountsInit == ASSUME LegacyInit PROVE CountInv
<1>1. HaveInv /\ StartInv
  BY HaveInit, StartInit
<1>2. \A t \in Threads : pc[t] = "idle" /\ why[t] = "none"
  BY DEF LegacyInit, CoreInit
<1>3. have = [qp |-> 0, mr |-> 0] /\ qp_count = 0 /\ mr_count = 0 /\ memory_used = 0 /\ peak = 0
  BY DEF LegacyInit
<1>4. \A o : InPc(o, "count") = 0
  BY <1>2, FS_EmptySet DEF InPc
<1>5. QpInv
  BY <1>3, <1>4 DEF QpInv
<1>6. MrInv
  <2>1. 0 * MRLength = 0
    BY Constants
  <2> QED BY <1>2, <1>3, <2>1 DEF MrInv, MrPlaces
<1>7. PeakInv
  <2>1. Inherited
    BY <1>3 DEF Inherited, LegacyInit
  <2> QED BY <1>2, <1>3, <2>1 DEF PeakInv
<1>8. LimitInv
  <2>1. config["max_qp_per_process"] \in Nat
    BY TypeInit, ConfigKeys DEF TypeOK, CoreTypeOK
  <2>2. slot.qp \in Nat
    BY TypeInit DEF TypeOK, HookTypeOK, Counters
  <2> QED BY <1>2, <1>3, <2>1, <2>2 DEF LimitInv
<1> QED BY <1>1, <1>5, <1>6, <1>7, <1>8 DEF CountInv

LEMMA CountsNext ==
    ASSUME TypeOK, PlacesOK, CountInv, [LegacyNext]_legacyVars
    PROVE  CountInv'
<1>1. TypeOK' /\ PlacesOK' /\ HaveInv'
  BY TypeNext, PlacesNext, HaveNext DEF CountInv
<1>2. CASE UNCHANGED legacyVars
  <2>1. (Undisturbed' <=> Undisturbed) /\ (Single' <=> Single)
    BY <1>2 DEF Undisturbed, Single, VerbThreads, legacyVars
  <2>2. /\ \A o, p : InPc(o, p)' = InPc(o, p)
        /\ rdma_intercept_is_enabled' = rdma_intercept_is_enabled /\ Zero' = Zero
    BY <1>2 DEF InPc, rdma_intercept_is_enabled, Zero, legacyVars, coreVars, threadVars
  <2>3. StartInv' /\ QpInv'
    BY <1>2, <2>1, <2>2 DEF CountInv, StartInv, QpInv, legacyVars, coreVars, threadVars, hookVars, countVars
  <2>4. MrInv'
    BY <1>2, <2>1, <2>2 DEF CountInv, MrInv, MrBefore, legacyVars, coreVars, threadVars, hookVars, countVars
  <2>5. PeakInv'
    BY <1>2, <2>1, <2>2 DEF CountInv, PeakInv, Inherited, Publishing, legacyVars, coreVars, threadVars, hookVars, countVars
  <2>6. LimitInv'
    BY <1>2, <2>1, <2>2 DEF CountInv, LimitInv, Publishing, legacyVars, coreVars, threadVars, hookVars, countVars
  <2> QED BY <1>1, <2>3, <2>4, <2>5, <2>6 DEF CountInv
<1>3. ASSUME NEW t \in Threads, Move(t)
      PROVE  CountInv'
  <2>1. StartInv'
    BY <1>1, <1>3, StartStep DEF Move, CountInv
  <2>2. QpInv'
    BY <1>3, QpStep DEF CountInv
  <2>3. MrInv'
    BY <1>3, MrStep DEF CountInv
  <2>4. PeakInv'
    BY <1>1, <1>3, PeakStep DEF CountInv
  <2>5. LimitInv'
    BY <1>1, <1>3, LimitStep DEF CountInv
  <2> QED BY <1>1, <2>1, <2>2, <2>3, <2>4, <2>5 DEF CountInv
<1> QED BY <1>2, <1>3, Moves DEF Move

LEMMA CountsAlways == LegacySpec => [](TypeOK /\ PlacesOK /\ CountInv)
<1>1. LegacyInit => CountInv
  BY CountsInit
<1>2. TypeOK /\ PlacesOK /\ CountInv /\ [LegacyNext]_legacyVars => CountInv'
  BY CountsNext
<1> QED BY <1>1, <1>2, Frame, PTL DEF LegacySpec

(* qp_count is what the process holds but for the QPs being counted, with   *)
(* any number of threads in ibv_create_qp and ibv_destroy_qp; mr_count and  *)
(* memory_used are exact between the calls of the only thread that          *)
(* registers memory, at any length of a region.                             *)
THEOREM CountsAreHeld == LegacySpec => []CountsHeld
<1>1. TypeOK /\ PlacesOK /\ CountInv => CountsHeld
  <2> SUFFICES ASSUME TypeOK, PlacesOK, CountInv, rdma_intercept_is_enabled, Undisturbed
               PROVE  /\ have.qp = qp_count + InPc("create_qp", "count") - InPc("destroy_qp", "count")
                      /\ Single /\ Inside = {} => mr_count = have.mr /\ memory_used = have.mr * MRLength
    BY DEF CountsHeld, Single
  <2>1. Inside = {} => \A t \in Threads : pc[t] \notin MrPlaces
    BY DEF Inside, Idle, MrPlaces
  <2> QED BY <2>1 DEF CountInv, QpInv, MrInv
<1> QED BY <1>1, CountsAlways, PTL

(* What ibv_create_qp checks against is never behind what a process of one  *)
(* verb thread holds: it never holds more QPs than its limit.               *)
THEOREM LimitIsHeld == LegacySpec => []LimitHolds
<1>1. CountInv => LimitHolds
  BY DEF CountInv, LimitInv, LimitHolds, Single
<1> QED BY <1>1, CountsAlways, PTL

(* Nor is such a process refused before it has held that many, unless it    *)
(* found the record of an earlier process that held that many.              *)
THEOREM RefusalsAfterPeak == LegacySpec => []RefusedAfterPeak
<1>1. TypeOK /\ CountInv => RefusedAfterPeak
  <2>1. TypeOK => /\ peak \in Int /\ config["max_qp_per_process"] \in Nat
                  /\ use.left.qp \in Nat
    BY ConfigKeys, Left DEF TypeOK, HookTypeOK, CoreTypeOK
  <2> QED BY <2>1 DEF CountInv, PeakInv, RefusedAfterPeak, Single
<1> QED BY <1>1, CountsAlways, PTL
=============================================================================
