------------------------------- MODULE Shell --------------------------------
(***************************************************************************)
(* The terminal host of app/xlang/tui_host.c and the foreground command of *)
(* fs/os/sys_exec_wait.c: raw mode, the saved standard streams, background *)
(* jobs, pipelines, the terminal's foreground group and SIGWINCH.  The     *)
(* host is one thread; its children, the user's signals and the window run *)
(* beside it.  Command texts, paths and the plain writes are left out.     *)
(***************************************************************************)
EXTENDS Integers, Sequences, FiniteSets, SequencesExt

CONSTANTS Children,     \* processes the host may have at once
          Files,        \* files a stream can be redirected to
          WinSizes,        \* window sizes
          Self, NotSaved, AnyPid   \* the host's group; "not saved" (-1); waitpid's -1

\* Process tables are finite; -1 is neither a descriptor nor a process.
ASSUME ShAssumption ==
  IsFiniteSet(Children) /\ AnyPid \notin Children /\ NotSaved \notin {"in", "out", "err"}

VARIABLES tty,          \* line discipline of the terminal: cooked or raw
          rawActive,    \* s_raw_active
          foreground,   \* the group the terminal belongs to: Self or a child
          ttou,         \* disposition of SIGTTOU and SIGTTIN: dfl or ign
          std,          \* what the streams in, out, err lead to
          saved,        \* s_saved_stdin, s_saved_stdout, s_saved_stderr
          proc,         \* each child: none, run, stop, zombie
          role,         \* why it was forked: fg, bg, wait
          hpc,          \* where the host is
          waits,        \* the waitpid calls it still has to make
          winch,        \* s_winch_flag
          winSize, seen \* the window's size and the one the program last read

ttyVars == <<tty, rawActive>>
jobVars == <<foreground, ttou, proc, role, hpc, waits>>
ioVars == <<std, saved>>
winVars == <<winch, winSize, seen>>
shVars == <<ttyVars, jobVars, ioVars, winVars>>

Streams == {"in", "out", "err"}

ShInit ==
  /\ tty = "cooked" /\ rawActive = FALSE
  /\ foreground = Self /\ ttou = "dfl"
  /\ std = [i \in Streams |-> i] /\ saved = [i \in Streams |-> NotSaved]
  /\ proc = [c \in Children |-> "none"] /\ role = [c \in Children |-> "none"]
  /\ hpc = "idle" /\ waits = <<>>
  /\ winch = 0 /\ winSize \in WinSizes /\ seen = winSize

-----------------------------------------------------------------------------
oo_tui_enable_raw ==
  /\ hpc = "idle"
  /\ tty' = "raw" /\ rawActive' = TRUE      \* already active: only SIGINT is ignored again
  /\ UNCHANGED <<jobVars, ioVars, winVars>>

oo_tui_disable_raw ==
  /\ hpc = "idle" /\ rawActive
  /\ tty' = "cooked" /\ rawActive' = FALSE
  /\ UNCHANGED <<jobVars, ioVars, winVars>>

(* exit(3) runs tui_atexit_restore. *)
ShExit ==
  /\ hpc = "idle"
  /\ IF rawActive THEN tty' = "cooked" /\ rawActive' = FALSE ELSE UNCHANGED ttyVars
  /\ hpc' = "exited"
  /\ UNCHANGED <<foreground, ttou, proc, role, waits, ioVars, winVars>>

(* exec: the command takes the host's place; nothing is put back first. *)
tui_exec ==
  /\ hpc = "idle"
  /\ hpc' = "replaced"
  /\ UNCHANGED <<foreground, ttou, proc, role, waits, ttyVars, ioVars, winVars>>

\* The streams each redirection operator moves.
Moves == [both |-> {"out", "err"}, errout |-> {"err"}, err |-> {"err"}, out |-> {"out"}, in |-> {"in"}]

\* Mutant: every push saves what it finds.
SavedAgain(op) == [i \in Streams |-> IF i \in Moves[op] THEN std[i] ELSE saved[i]]

\* A stream is saved by the first push only.
Saved(op) == [i \in Streams |-> IF i \in Moves[op] /\ saved[i] = NotSaved THEN std[i] ELSE saved[i]]

(* redir_push: save, then open and dup2; a failing open leaves the stream. *)
redir_push(op) ==
  /\ hpc = "idle"
  /\ saved' = Saved(op)
  /\ \/ op = "errout" /\ std' = [std EXCEPT !["err"] = std["out"]]
     \/ op # "errout" /\ \E f \in Files : std' = [i \in Streams |-> IF i \in Moves[op] THEN f ELSE std[i]]
     \/ op # "errout" /\ UNCHANGED std
  /\ UNCHANGED <<ttyVars, jobVars, winVars>>

redir_pop ==
  /\ hpc = "idle"
  /\ std' = [i \in Streams |-> IF saved[i] = NotSaved THEN std[i] ELSE saved[i]]
  /\ saved' = [i \in Streams |-> NotSaved]
  /\ UNCHANGED <<ttyVars, jobVars, winVars>>

-----------------------------------------------------------------------------
Spare == {c \in Children : proc[c] = "none"}

Forked(cs, why) ==
  /\ proc' = [c \in Children |-> IF c \in cs THEN "run" ELSE proc[c]]
  /\ role' = [c \in Children |-> IF c \in cs THEN why ELSE role[c]]

(* bg: the child gets a group of its own; the host does not wait. *)
job_start ==
  /\ hpc = "idle"
  /\ \E c \in Spare : Forked({c}, "bg")
  /\ UNCHANGED <<foreground, ttou, hpc, waits, ttyVars, ioVars, winVars>>

(* pipe, pipe2 and redir fork one or two children and wait for each in     *)
(* turn; a failed fork gives pid -1, and waitpid(-1) waits for any child.  *)
RunForeground(n, next) ==
  /\ hpc = "idle"
  /\ \E w \in [1 .. n -> Spare \cup {AnyPid}] :
       /\ \A i, j \in 1 .. n : w[i] = w[j] /\ i # j => w[i] = AnyPid
       /\ Forked(ToSet(w) \ {AnyPid}, "fg")
       /\ waits' = w
  /\ hpc' = next
  /\ UNCHANGED <<foreground, ttou, ttyVars, ioVars, winVars>>

tui_pipe == RunForeground(1, "feeding")
tui_pipe2 == RunForeground(2, "waiting")
tui_redir == RunForeground(1, "waiting")

\* A zombie is collected.
Reaped(c) ==
  /\ proc' = [proc EXCEPT ![c] = "none"]
  /\ role' = [role EXCEPT ![c] = "none"]

(* waitpid(pid, &st, 0): ECHILD when somebody else collected the child. *)
WaitNext ==
  /\ hpc = "waiting"
  /\ LET w == Head(waits) IN
     \/ \E c \in Children : proc[c] = "zombie" /\ w \in {c, AnyPid} /\ Reaped(c)
     \/ /\ IF w = AnyPid THEN Spare = Children ELSE proc[w] = "none"
        /\ UNCHANGED <<proc, role>>
  /\ waits' = Tail(waits)
  /\ hpc' = IF Len(waits) = 1 THEN "idle" ELSE "waiting"
  /\ UNCHANGED <<foreground, ttou, ttyVars, ioVars, winVars>>

(* The pipe command feeds its child's stdin first: without a reader the    *)
(* host dies of SIGPIPE, whose disposition nothing here changes.           *)
FeedPipe ==
  /\ hpc = "feeding"
  /\ \/ hpc' = "waiting"                     \* everything written, or nothing to write
     \/ /\ Head(waits) \in {AnyPid} \cup {c \in Children : proc[c] = "zombie"}
        /\ hpc' = "dead"
  /\ UNCHANGED <<foreground, ttou, proc, role, waits, ttyVars, ioVars, winVars>>

job_poll(c) ==
  /\ hpc = "idle" /\ proc[c] = "zombie"
  /\ Reaped(c)
  /\ UNCHANGED <<foreground, ttou, hpc, waits, ttyVars, ioVars, winVars>>

(* job_wait with a pid, and without one until no child is left (ECHILD). *)
job_wait(c) ==
  /\ hpc = "idle" /\ proc[c] # "none"
  /\ waits' = <<c>> /\ hpc' = "waiting"
  /\ UNCHANGED <<foreground, ttou, proc, role, ttyVars, ioVars, winVars>>

job_wait_all ==
  /\ hpc = "idle"
  /\ waits' = [i \in 1 .. Cardinality(Children \ Spare) + 1 |-> AnyPid] /\ hpc' = "waiting"
  /\ UNCHANGED <<foreground, ttou, proc, role, ttyVars, ioVars, winVars>>

(* job_fg: give the terminal away, continue the job, wait until it ends or *)
(* stops.  SIGTTOU keeps its default here, so taking the terminal back     *)
(* from the background stops the host until its own parent resumes it.     *)
job_fg(c) ==
  /\ hpc = "idle" /\ proc[c] # "none" /\ role[c] = "bg"
  /\ foreground' = c
  /\ proc' = [proc EXCEPT ![c] = IF @ = "stop" THEN "run" ELSE @]
  /\ waits' = <<c>> /\ hpc' = "fg_wait"
  /\ UNCHANGED <<ttou, role, ttyVars, ioVars, winVars>>

job_bg(c) ==
  /\ hpc = "idle" /\ proc[c] = "stop"
  /\ proc' = [proc EXCEPT ![c] = "run"]
  /\ UNCHANGED <<foreground, ttou, role, hpc, waits, ttyVars, ioVars, winVars>>

(* oo_sys_exec_wait: ignore the two signals, spawn in a group of its own,  *)
(* hand over the terminal; a failed spawn restores the signals.            *)
exec_wait_start ==
  /\ hpc = "idle"
  /\ \/ \E c \in Spare : Forked({c}, "wait") /\ waits' = <<c>> /\ ttou' = "ign" /\ hpc' = "give_tty"
     \/ UNCHANGED <<proc, role, waits, ttou, hpc>>
  /\ UNCHANGED <<foreground, ttyVars, ioVars, winVars>>

exec_wait_give ==
  /\ hpc = "give_tty"
  /\ foreground' = Head(waits)
  /\ hpc' = "fg_wait"
  /\ UNCHANGED <<ttou, proc, role, waits, ttyVars, ioVars, winVars>>

(* waitpid with WUNTRACED: a stopped child is reported and stays a child. *)
fg_waited ==
  /\ hpc = "fg_wait"
  /\ LET c == Head(waits) IN
     \/ proc[c] = "zombie" /\ Reaped(c)
     \/ proc[c] = "stop" /\ role' = [role EXCEPT ![c] = "bg"] /\ UNCHANGED proc
  /\ hpc' = "take_tty"
  /\ UNCHANGED <<foreground, ttou, waits, ttyVars, ioVars, winVars>>

(* tcsetpgrp back to the host, then the saved dispositions. *)
TakeTty ==
  /\ hpc = "take_tty"
  /\ IF ttou = "ign" THEN foreground' = Self /\ hpc' = "idle" ELSE hpc' = "stopped" /\ UNCHANGED foreground
  /\ ttou' = "dfl" /\ waits' = <<>>
  /\ UNCHANGED <<proc, role, ttyVars, ioVars, winVars>>

(* The shell above the host resumes it in the foreground; the call restarts. *)
Resumed ==
  /\ hpc = "stopped"
  /\ foreground' = Self /\ hpc' = "idle"
  /\ UNCHANGED <<ttou, proc, role, waits, ttyVars, ioVars, winVars>>

ChildMoves(c) ==
  /\ proc[c] = "run" /\ \E s \in {"zombie", "stop"} : proc' = [proc EXCEPT ![c] = s]
  /\ UNCHANGED <<foreground, ttou, role, hpc, waits, ttyVars, ioVars, winVars>>

-----------------------------------------------------------------------------
(* The window changes and the installed handler runs between any two steps. *)
Resize(n) ==
  /\ winSize # n /\ winSize' = n /\ winch' = 1
  /\ UNCHANGED <<seen, ttyVars, jobVars, ioVars>>

(* winch_poll tests the flag, then clears it; on "1" the program reads the size. *)
winch_test ==
  /\ hpc = "idle" /\ winch = 1
  /\ hpc' = "winch_clear"
  /\ UNCHANGED <<foreground, ttou, proc, role, waits, ttyVars, ioVars, winVars>>

winch_clear ==
  /\ hpc = "winch_clear"
  /\ winch' = 0 /\ hpc' = "get_size"
  /\ UNCHANGED <<winSize, seen, foreground, ttou, proc, role, waits, ttyVars, ioVars>>

oo_tui_get_size ==
  /\ hpc = "get_size"
  /\ seen' = winSize /\ hpc' = "idle"
  /\ UNCHANGED <<winch, winSize, foreground, ttou, proc, role, waits, ttyVars, ioVars>>

ShNext ==
  \/ oo_tui_enable_raw \/ oo_tui_disable_raw \/ ShExit
  \/ \E op \in DOMAIN Moves : redir_push(op)
  \/ redir_pop \/ job_start \/ tui_pipe \/ tui_pipe2 \/ tui_redir \/ tui_exec
  \/ WaitNext \/ FeedPipe \/ job_wait_all
  \/ \E c \in Children : job_poll(c) \/ job_wait(c) \/ job_fg(c) \/ job_bg(c) \/ ChildMoves(c)
  \/ exec_wait_start \/ exec_wait_give \/ fg_waited \/ TakeTty \/ Resumed
  \/ \E n \in WinSizes : Resize(n)
  \/ winch_test \/ winch_clear \/ oo_tui_get_size

ShSpec == ShInit /\ [][ShNext]_shVars
-----------------------------------------------------------------------------
\* A pop brings back the three streams the host was started with, however pushes nest.
StreamsRestorable == \A i \in Streams : (IF saved[i] = NotSaved THEN std[i] ELSE saved[i]) = i

\* The terminal and the job signals are the host's own, and no foreground child is left.
TerminalSettled ==
  /\ hpc = "idle" => /\ foreground = Self /\ ttou = "dfl"
                     /\ \A c \in Children : role[c] \notin {"fg", "wait"}
  /\ hpc = "exited" => tty = "cooked"
  /\ rawActive <=> (tty = "raw")

\* Until the program has read a new size, the flag is up or the program is about to read it.
ResizeNoticed == seen # winSize => winch = 1 \/ hpc = "get_size"

(***************************************************************************)
(* Whatever the host was told to do, and whatever its children and the     *)
(* user did meanwhile, a host ready for its next command can be put back   *)
(* as it was started: streams, terminal, signals, children; it exits with  *)
(* a cooked terminal; and it misses no change of the window.  About the    *)
(* "if (s_saved_... < 0)" tests of redir_push, the paths of                *)
(* oo_sys_exec_wait, the pipelines' waits, tui_atexit_restore, and a       *)
(* signal between the test and the clear of winch_poll.                    *)
(***************************************************************************)
HostSettled == StreamsRestorable /\ TerminalSettled /\ ResizeNoticed
=============================================================================
