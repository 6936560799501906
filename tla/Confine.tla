------------------------------ MODULE Confine -------------------------------
(***************************************************************************)
(* Which file operations of fs/os/fs.c and fs_dir.c go through: the read   *)
(* and write directories named by the environment, the /tmp exception, the *)
(* policy files, and the cache of resolved directories that                *)
(* fs_lowlevel.c keeps per working directory.  The tree is two working     *)
(* directories with a subdirectory "out" each, and /tmp.  The program      *)
(* changes directory and environment between calls, through the control    *)
(* channels of tui_host.c; the calls of its threads interleave by critical *)
(* section of g_fs_cache_mu.  File contents and path texts are left out.   *)
(***************************************************************************)
EXTENDS Integers, Sequences, FiniteSets, SequencesExt

CONSTANTS FsThreads,
          DirCacheMax,  \* OO_FS_DIR_CACHE_MAX
          ReadDirs, WriteDirs  \* values of OODA_FS_READDIR and OODA_FS_WRITEDIR, split at ':'

ASSUME DirsAssumption == ReadDirs \subseteq Seq(STRING) /\ WriteDirs \subseteq Seq(STRING)

VARIABLES fsCwd,        \* the working directory
          fsEnv,        \* OODA_FS_READDIR, OODA_FS_WRITEDIR, OODA_NO_JAIL, OODA_POLICY_WRITE
          cachedCwd,    \* g_cached_cwd, "none" before the first call
          dirCache,     \* g_dir_cache: directory name -> resolved directory
          fpc, floc     \* each thread's place in its call and the call's locals

fsVars == <<fsCwd, fsEnv, cachedCwd, dirCache, fpc, floc>>

Cwds == {"/a", "/b"}
OutOf == [c \in Cwds |-> IF c = "/a" THEN "/a/out" ELSE "/b/out"]
Parent == [d \in {"/a/out", "/b/out"} |-> IF d = "/a/out" THEN "/a" ELSE "/b"]
\* A file: where its name leads, given literally or as "out/..." from the working directory.
FilePaths == [rel : {FALSE}, dir : {"/a", "/a/out", "/tmp", "/proc/self"}, policy : {FALSE}]
             \cup [rel : {TRUE}, dir : {"out"}, policy : BOOLEAN]

\* realpath of a directory name: only "out" depends on where the process is.
RealDir(d, cwd) == IF d = "out" THEN OutOf[cwd] ELSE d
\* The prefix test at a component boundary.
Under(dir, root) == dir = root \/ (dir \in DOMAIN Parent /\ Parent[dir] = root)

NoCall == [kind |-> "none", dir |-> "none", policy |-> FALSE, try |-> <<>>, ok |-> FALSE]

FsInit ==
  /\ fsCwd \in Cwds
  /\ fsEnv \in [rd : ReadDirs, wd : WriteDirs, nojail : {FALSE}, polw : {FALSE}]
  /\ cachedCwd = "none" /\ dirCache = <<>>
  /\ fpc = [t \in FsThreads |-> "idle"]
  /\ floc = [t \in FsThreads |-> NoCall]

AllIdle == \A t \in FsThreads : fpc[t] = "idle"

-----------------------------------------------------------------------------
\* Mutant: the new working directory is stored and the cache of directories kept.
fs_get_cached_cwd_keeps(used) ==
  [cwd |-> IF used /\ cachedCwd # fsCwd THEN fsCwd ELSE cachedCwd, cache |-> dirCache]

(* A new working directory, by device and inode, empties the cache. *)
fs_get_cached_cwd(used) ==
  LET stale == used /\ cachedCwd # fsCwd
  IN [cwd |-> IF stale THEN fsCwd ELSE cachedCwd,
      cache |-> IF stale THEN <<>> ELSE dirCache]

\* One colon-separated list as path_under_writedir walks it: /tmp first, nothing from "/" on.
ListOf(dirs) ==
  <<"/tmp">> \o SubSeq(dirs, 1, Min({i \in DOMAIN dirs : dirs[i] = "/"} \cup {Len(dirs) + 1}) - 1)

fs_jail_disabled == fsEnv.nojail

\* The directories fs_read_confined tries, in order.
ReadList ==
  LET rd == IF fsEnv.rd = <<>> /\ fsEnv.wd = <<>> THEN <<fsCwd>> ELSE fsEnv.rd
  IN (IF rd = <<>> THEN <<>> ELSE ListOf(rd)) \o (IF fsEnv.wd = <<>> THEN <<>> ELSE ListOf(fsEnv.wd))
WriteList == IF fsEnv.wd = <<>> THEN <<>> ELSE ListOf(fsEnv.wd)

(* to_cpath, the jail switch, fs_make_abs on the path: the list of directories to try is fixed. *)
FsCall(t, kind, p) ==
  LET dir == RealDir(p.dir, fsCwd)
      open == \/ fs_jail_disabled
              \/ kind = "read" /\ dir = "/proc/self"
      try == IF open THEN <<>> ELSE IF kind = "read" THEN ReadList ELSE WriteList
      at == fs_get_cached_cwd(p.rel /\ try # <<>>)
  IN /\ fpc[t] = "idle"
     /\ cachedCwd' = at.cwd /\ dirCache' = at.cache
     /\ floc' = [floc EXCEPT ![t] = [kind |-> kind, dir |-> dir, policy |-> p.policy,
                                     try |-> try, ok |-> open]]
     /\ fpc' = [fpc EXCEPT ![t] = IF open \/ try = <<>> THEN "judged" ELSE "lookup"]
     /\ UNCHANGED <<fsCwd, fsEnv>>

\* path_under_dir_one compares with the resolved directory and goes on to the next one.
path_under_dir_one(t, rd) ==
  LET ok == Under(floc[t].dir, rd)
      rest == Tail(floc[t].try)
  IN /\ floc' = [floc EXCEPT ![t].try = IF ok THEN <<>> ELSE rest, ![t].ok = ok]
     /\ fpc' = [fpc EXCEPT ![t] = IF ok \/ rest = <<>> THEN "judged" ELSE "lookup"]

(* An empty entry of a list is passed over. *)
FsSkip(t) ==
  LET rest == Tail(floc[t].try)
  IN /\ fpc[t] = "lookup" /\ Head(floc[t].try) = ""
     /\ floc' = [floc EXCEPT ![t].try = rest]
     /\ fpc' = [fpc EXCEPT ![t] = IF rest = <<>> THEN "judged" ELSE "lookup"]
     /\ UNCHANGED <<fsCwd, fsEnv, cachedCwd, dirCache>>

(* fs_resolve_dir, first critical section: a hit answers at once. *)
FsLookup(t) ==
  LET d == Head(floc[t].try)
      at == fs_get_cached_cwd(d = "out")
  IN /\ fpc[t] = "lookup" /\ d # ""
     /\ cachedCwd' = at.cwd /\ dirCache' = at.cache
     /\ IF d \in DOMAIN at.cache
        THEN path_under_dir_one(t, at.cache[d])
        ELSE fpc' = [fpc EXCEPT ![t] = "miss"] /\ UNCHANGED floc
     /\ UNCHANGED <<fsCwd, fsEnv>>

(* Second critical section: resolved outside the lock, looked up again, stored if there is room. *)
FsInsert(t) ==
  LET d == Head(floc[t].try)
      known == d \in DOMAIN dirCache
      rd == IF known THEN dirCache[d] ELSE RealDir(d, fsCwd)
  IN /\ fpc[t] = "miss"
     /\ dirCache' = IF known \/ Cardinality(DOMAIN dirCache) >= DirCacheMax
                    THEN dirCache ELSE [x \in {d} \cup DOMAIN dirCache |-> IF x = d THEN rd ELSE dirCache[x]]
     /\ path_under_dir_one(t, rd)
     /\ UNCHANGED <<fsCwd, fsEnv, cachedCwd>>

\* policy_locked: a policy file, and OODA_POLICY_WRITE not set.
policy_locked(policy) == policy /\ ~fsEnv.polw

(* The verdict becomes an answer: the system call on the file, or the refusal. *)
FsFinish(t) ==
  /\ fpc[t] = "judged"
  /\ fpc' = [fpc EXCEPT ![t] = IF floc[t].ok /\ ~(floc[t].kind = "write" /\ policy_locked(floc[t].policy))
                               THEN "done" ELSE "refused"]
  /\ UNCHANGED <<fsCwd, fsEnv, cachedCwd, dirCache, floc>>

FsReturn(t) ==
  /\ fpc[t] \in {"done", "refused"}
  /\ fpc' = [fpc EXCEPT ![t] = "idle"] /\ floc' = [floc EXCEPT ![t] = NoCall]
  /\ UNCHANGED <<fsCwd, fsEnv, cachedCwd, dirCache>>

(* The cd channel of the terminal host. *)
TuiCd ==
  /\ AllIdle
  /\ \E c \in Cwds : fsCwd' = c
  /\ UNCHANGED <<fsEnv, cachedCwd, dirCache, fpc, floc>>

(* Its set and unset channels. *)
TuiSetEnv ==
  /\ AllIdle
  /\ \/ \E d \in ReadDirs : fsEnv' = [fsEnv EXCEPT !.rd = d]
     \/ \E d \in WriteDirs : fsEnv' = [fsEnv EXCEPT !.wd = d]
     \/ \E b \in BOOLEAN : fsEnv' = [fsEnv EXCEPT !.nojail = b]
     \/ \E b \in BOOLEAN : fsEnv' = [fsEnv EXCEPT !.polw = b]
  /\ UNCHANGED <<fsCwd, cachedCwd, dirCache, fpc, floc>>

(* The operations: they differ in the class they check for and in the system call they end in. *)
oo_read_file(t, p) == FsCall(t, "read", p)
oo_path_exists(t, p) == FsCall(t, "read", p)
oo_fs_read_dir(t, p) == FsCall(t, "read", p)
oo_write_file(t, p) == FsCall(t, "write", p)
oo_file_append_sync(t, p) == FsCall(t, "write", p)
oo_fs_remove(t, p) == FsCall(t, "write", p)
oo_fs_mkdir(t, p) == FsCall(t, "write", p)

FsNext ==
  \/ \E t \in FsThreads :
       \/ \E p \in FilePaths :
            \/ oo_read_file(t, p) \/ oo_path_exists(t, p) \/ oo_fs_read_dir(t, p)
            \/ oo_write_file(t, p) \/ oo_file_append_sync(t, p) \/ oo_fs_remove(t, p) \/ oo_fs_mkdir(t, p)
       \/ FsSkip(t) \/ FsLookup(t) \/ FsInsert(t) \/ FsFinish(t) \/ FsReturn(t)
  \/ TuiCd \/ TuiSetEnv

FsSpec == FsInit /\ [][FsNext]_fsVars
-----------------------------------------------------------------------------
\* The directories a list opens up, from its text alone.
Opens(dirs) ==
  {RealDir(dirs[i], fsCwd) : i \in {j \in DOMAIN dirs : dirs[j] # "" /\ \A k \in 1 .. j : dirs[k] # "/"}}
MayTouch(kind, dir) ==
  \/ fsEnv.nojail
  \/ kind = "read" /\ \/ dir = "/proc/self"
                       \/ \E r \in {"/tmp"} \cup Opens(fsEnv.rd) \cup Opens(fsEnv.wd)
                                   \cup (IF fsEnv.rd \o fsEnv.wd = <<>> THEN {fsCwd} ELSE {}) : Under(dir, r)
  \/ kind = "write" /\ fsEnv.wd # <<>> /\ \E r \in {"/tmp"} \cup Opens(fsEnv.wd) : Under(dir, r)

(***************************************************************************)
(* A file operation goes through exactly when the environment and the      *)
(* working directory of this moment allow it, whatever earlier calls left  *)
(* in the cache: about the cache of fs_lowlevel.c, which must forget       *)
(* relative directories when the program moves, and the two list walks.    *)
(***************************************************************************)
FsVerdictExact ==
  \A t \in FsThreads : LET c == floc[t] IN
    /\ fpc[t] = "done" => MayTouch(c.kind, c.dir) /\ (c.kind = "write" /\ c.policy => fsEnv.polw)
    /\ fpc[t] = "refused" => ~MayTouch(c.kind, c.dir) \/ (c.kind = "write" /\ c.policy /\ ~fsEnv.polw)
=============================================================================
