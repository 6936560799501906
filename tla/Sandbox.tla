------------------------------ MODULE Sandbox -------------------------------
(***************************************************************************)
(* The kernel sandbox of the Linux build: sec/cap/cap.c (the filter that   *)
(* follows a capability mask), sec/landlock (path rules, the matrix that   *)
(* applies rules, filter and limits in that order, the older seccomp-only  *)
(* path and the raw calls) and fs/os/rlimit.c.  The kernel's side is kept  *)
(* beside the flags by which the library remembers it.  Filters are taken  *)
(* to bind the whole process: they are installed before threads start.     *)
(***************************************************************************)
EXTENDS Integers, FiniteSets, FiniteSetsExt

CONSTANTS Abis,         \* Landlock versions the kernel may have, 0 for none
          Masks,        \* capability masks passed to the filter
          Limits        \* values of the memory limit; 0 asks for none

\* The limit arrives as a number of megabytes, of which there is a largest.
ASSUME LimitsAssumption == Limits \subseteq Nat /\ \E m \in Limits : \A v \in Limits : v <= m

VARIABLES abi, isUpdate,        \* the kernel's Landlock version; the program runs "update"
          layers, fsAllow,      \* Landlock: a layer is enforced; the <<file, right>> pairs left
          filtered, allowed,    \* seccomp: a filter is installed; the system-call classes left
          soft, hard,           \* RLIMIT_AS
          llApplied,            \* g_ll_applied
          capOn, capMask,       \* g_capf_on, g_capf_mask
          noteNet, noteProc,    \* g_sand_net, g_sand_proc
          locked, status,       \* g_sand_locked, g_sand_status
          spc, sloc             \* where the holder of g_sand_mu is, and its configuration

kernelVars == <<abi, isUpdate, layers, fsAllow, filtered, allowed, soft, hard>>
capfVars == <<capOn, capMask>>
noteVars == <<noteNet, noteProc>>
sandVars == <<locked, status>>
sbVars == <<kernelVars, llApplied, capfVars, noteVars, sandVars, spc, sloc>>

Classes == {"net", "proc", "fswrite"}
\* One directory listed for reading, one for writing, one device listed by name, one unlisted.
SbFiles == {"rdir", "wdir", "dev", "other"}
Rights == {"read", "write", "make", "truncate", "ioctl"}
NoLimit == Max(Limits) + 1
NoStatus == [enforced |-> FALSE, quotas |-> FALSE]
Configs == [mask : Masks, rd : {{"rdir", "dev"}}, wd : {{}, {"wdir"}}, mem : Limits]
NoConfig == [mask |-> {}, rd |-> {}, wd |-> {}, mem |-> 0]

SbInit ==
  /\ abi \in Abis /\ isUpdate \in BOOLEAN
  /\ layers = FALSE /\ fsAllow = SbFiles \X Rights
  /\ filtered = FALSE /\ allowed = Classes
  /\ soft = NoLimit /\ hard = NoLimit
  /\ llApplied = FALSE /\ capOn = FALSE /\ capMask = {}
  /\ noteNet = FALSE /\ noteProc = FALSE
  /\ locked = FALSE /\ status = NoStatus
  /\ spc = "idle" /\ sloc = NoConfig

SandMuFree == spc = "idle"
SGoto(l) == spc' = l
SReturn == SGoto("idle") /\ sloc' = NoConfig
-----------------------------------------------------------------------------
\* What a mask leaves of each class of system calls (oodar_cap_apply_seccomp_filter).
MaskAllows(mask) ==
  {c \in Classes : \/ c = "net" /\ "NET" \in mask
                   \/ c = "proc" /\ mask \cap {"PROCESS", "SYS"} # {}
                   \/ c = "fswrite" /\ mask \cap {"FSWRITE", "FS"} # {}}

(* A filter cannot be taken back: the kernel applies all of them. *)
capf_install(classes) ==
  /\ allowed' = allowed \cap classes /\ filtered' = TRUE

oodar_cap_drop ==
  /\ capOn' = FALSE /\ capMask' = {}
  /\ UNCHANGED <<kernelVars, llApplied, noteVars, sandVars, spc, sloc>>

\* Mutant: the mask is stored before the test for a filter that is already on.
CapApplyMaskFirst(mask) ==
  /\ capMask' = mask
  /\ IF capOn THEN UNCHANGED <<capOn, allowed, filtered>>
     ELSE \/ capf_install(MaskAllows(mask)) /\ capOn' = TRUE
          \/ UNCHANGED <<allowed, filtered, capOn>>

(* oodar_cap_apply_seccomp_filter called by itself: once on, nothing more is installed. *)
CapApply(mask) ==
  /\ IF capOn THEN UNCHANGED <<capfVars, allowed, filtered>>
     ELSE /\ capMask' = mask
          /\ \/ capf_install(MaskAllows(mask)) /\ capOn' = TRUE
             \/ UNCHANGED <<allowed, filtered, capOn>>          \* the ABI is missing

(* The grants of cap_grant.c leave a note for the older path. *)
SbNote ==
  /\ SandMuFree
  /\ \/ noteNet' = TRUE /\ UNCHANGED noteProc
     \/ noteProc' = TRUE /\ UNCHANGED noteNet
  /\ UNCHANGED <<kernelVars, llApplied, capfVars, sandVars, spc, sloc>>

-----------------------------------------------------------------------------
ll_handled_fs == {"read", "write", "make"} \cup (IF abi >= 3 THEN {"truncate"} ELSE {})
                 \cup (IF abi >= 5 THEN {"ioctl"} ELSE {})
ll_read_bits == {"read"}
ll_write_bits == {"read", "write", "make"} \cup (IF abi >= 3 THEN {"truncate"} ELSE {})

\* The rights one listed name gets: a device loses the directory rights and gains its own.
ll_add_one(f, bits) ==
  {f} \X (IF f = "dev" THEN (bits \ {"make"}) \cup {"write"} \cup (IF abi >= 5 THEN {"ioctl"} ELSE {})
          ELSE bits)
RuleSet(rd, wd) ==
  (UNION {ll_add_one(f, ll_read_bits) : f \in rd}) \cup (UNION {ll_add_one(f, ll_write_bits) : f \in wd})

\* restrict_self: of the handled rights only those of the rules stay, the others are not touched.
Restricted(rules) == {p \in fsAllow : p[2] \in ll_handled_fs => p \in rules}

(* oo_landlock_restrict inside the matrix: bypassed for "update", refused, or enforced. *)
oo_landlock_restrict ==
  /\ spc = "landlock"
  /\ \/ /\ isUpdate
        /\ SGoto("seccomp")                 \* the answer's length is compared with 24; it has 25
        /\ UNCHANGED <<sloc, layers, fsAllow, llApplied>>
     \/ /\ ~isUpdate                           \* create_ruleset, add_rule or restrict_self fails
        /\ SReturn /\ UNCHANGED <<layers, fsAllow, llApplied>>
     \/ /\ ~isUpdate
        /\ layers' = TRUE
        /\ fsAllow' = Restricted(RuleSet(sloc.rd, sloc.wd))
        /\ llApplied' = TRUE
        /\ SGoto("seccomp") /\ UNCHANGED sloc
  /\ UNCHANGED <<abi, isUpdate, filtered, allowed, soft, hard, capfVars, noteVars, sandVars>>

(* oo_sandbox_apply_matrix up to the choice of a back end; without Landlock it fails closed. *)
oo_sandbox_apply_matrix(c) ==
  /\ SandMuFree /\ abi >= 1
  /\ sloc' = [mask |-> c.mask, rd |-> c.rd, wd |-> c.wd, mem |-> c.mem]
  /\ SGoto("landlock")
  /\ UNCHANGED <<kernelVars, llApplied, capfVars, noteVars, sandVars>>

\* restrict_caps: the matrix with empty path lists, which lock the file system down.
oo_sandbox_restrict_caps(mask) ==
  oo_sandbox_apply_matrix([mask |-> mask, rd |-> {}, wd |-> {}, mem |-> 0])

(* sand_apply_linux_landlock_seccomp: the filter, then "is it on" as a call of its own. *)
SbSeccomp ==
  /\ spc = "seccomp"
  /\ CapApply(sloc.mask)
  /\ IF capOn' THEN SGoto("sandboxed") /\ UNCHANGED sloc ELSE SReturn
  /\ UNCHANGED <<abi, isUpdate, layers, fsAllow, soft, hard, llApplied, noteVars, sandVars>>

SbSandboxed ==
  /\ spc = "sandboxed"
  /\ IF capOn THEN SGoto("limits") /\ UNCHANGED sloc ELSE SReturn
  /\ UNCHANGED <<kernelVars, llApplied, capfVars, noteVars, sandVars>>

\* Mutant: only the soft limit is set.
oo_rlimit_set_mem_mb_soft(v) ==
  IF v <= hard THEN soft' = v /\ UNCHANGED hard ELSE UNCHANGED <<soft, hard>>

\* setrlimit with the hard limit brought down too; a value above the hard limit is refused.
oo_rlimit_set_mem_mb(v) ==
  IF v <= hard THEN soft' = v /\ hard' = v ELSE UNCHANGED <<soft, hard>>

(* The limits, whose results nobody looks at. *)
SbLimits ==
  /\ spc = "limits"
  /\ IF sloc.mem > 0 THEN oo_rlimit_set_mem_mb(sloc.mem)
     ELSE UNCHANGED <<soft, hard>>
  /\ SGoto("status") /\ UNCHANGED sloc
  /\ UNCHANGED <<abi, isUpdate, layers, fsAllow, filtered, allowed, llApplied, capfVars, noteVars, sandVars>>

\* What the matrix reports of limits and enforcement, from the configuration alone.
sand_update_status_from_config(c) == [enforced |-> TRUE, quotas |-> c.mem > 0]

SbStatus ==
  /\ spc = "status"
  /\ status' = sand_update_status_from_config(sloc) /\ locked' = TRUE
  /\ SReturn
  /\ UNCHANGED <<kernelVars, llApplied, capfVars, noteVars>>

oo_sandbox_set_quotas(v) ==
  /\ SandMuFree /\ v > 0
  /\ oo_rlimit_set_mem_mb(v)
  /\ status' = IF v <= hard THEN [status EXCEPT !.quotas = TRUE] ELSE status
  /\ UNCHANGED <<abi, isUpdate, layers, fsAllow, filtered, allowed, llApplied, capfVars, noteVars, locked, spc, sloc>>

(* The three oo_rlimit_set calls by themselves. *)
RlimitCall(v) ==
  /\ v > 0
  /\ oo_rlimit_set_mem_mb(v)
  /\ UNCHANGED <<abi, isUpdate, layers, fsAllow, filtered, allowed, llApplied, capfVars, noteVars, sandVars, spc, sloc>>

\* The filter of the older path, from the notes of the grants.
sand_install_seccomp ==
  capf_install({"fswrite"} \cup {c \in {"net"} : noteNet} \cup {c \in {"proc"} : noteProc})

(* The older path: that filter, no paths, nothing once the sandbox is locked. *)
oo_sandbox_apply ==
  /\ SandMuFree /\ ~locked
  /\ sand_install_seccomp
  /\ locked' = TRUE /\ status' = [status EXCEPT !.enforced = TRUE]
  /\ UNCHANGED <<abi, isUpdate, layers, fsAllow, soft, hard, llApplied, capfVars, noteVars, spc, sloc>>

(* oo_landlock_restrict_self_raw and oo_seccomp_apply_raw: the kernel changes, no flag does. *)
RawRestrict ==
  /\ abi >= 1
  /\ layers' = TRUE /\ fsAllow' = Restricted({})
  /\ UNCHANGED <<abi, isUpdate, filtered, allowed, soft, hard, llApplied, capfVars, noteVars, sandVars, spc, sloc>>
oo_seccomp_apply_raw ==
  /\ \E c \in Classes : capf_install(Classes \ {c})
  /\ UNCHANGED <<abi, isUpdate, layers, fsAllow, soft, hard, llApplied, capfVars, noteVars, sandVars, spc, sloc>>

SbNext ==
  \/ oodar_cap_drop \/ SbNote \/ oo_sandbox_apply \/ RawRestrict \/ oo_seccomp_apply_raw
  \/ \E v \in Limits : oo_sandbox_set_quotas(v)
  \/ \E v \in Limits : RlimitCall(v)
  \/ \E c \in Configs : oo_sandbox_apply_matrix(c)
  \/ \E m \in Masks : oo_sandbox_restrict_caps(m)
  \/ oo_landlock_restrict \/ SbSeccomp \/ SbSandboxed \/ SbLimits \/ SbStatus

SbSpec == SbInit /\ [][SbNext]_sbVars
-----------------------------------------------------------------------------
(***************************************************************************)
(* What the library remembers of the sandbox is true of the kernel: while  *)
(* the filter counts as on, nothing outside its mask is left; a sandbox    *)
(* reported as enforced or locked has a filter; reported quotas limit      *)
(* something; Landlock counts as applied only when a layer is.  About the  *)
(* early return of cap.c for a second mask, oodar_cap_drop, which clears   *)
(* the flag of a filter that stays, and the order rules, filter, check,    *)
(* status of the matrix.                                                   *)
(***************************************************************************)
SandboxClaimsTrue ==
  /\ capOn => allowed \subseteq MaskAllows(capMask)
  /\ status.enforced \/ locked => filtered
  /\ status.quotas => soft < NoLimit
  /\ llApplied => layers /\ \A r \in ll_handled_fs : <<"other", r>> \notin fsAllow

(***************************************************************************)
(* A limit that was set is never raised again, and neither are the rights  *)
(* left by rules and filters: about rlim_max, which every oo_rlimit_set    *)
(* brings down with the soft limit.                                        *)
(***************************************************************************)
OnlyTightens == [][soft' <= soft /\ allowed' \subseteq allowed /\ fsAllow' \subseteq fsAllow]_sbVars
=============================================================================
