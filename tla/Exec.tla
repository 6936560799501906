-------------------------------- MODULE Exec --------------------------------
(***************************************************************************)
(* oo_sys_exec (fs/os/sys.c): a thread makes a pipe, forks, reads the      *)
(* child's output up to a limit, closes the pipe and waits.  The pipe is   *)
(* made without O_CLOEXEC, so a child forked by another thread in between  *)
(* inherits both of its ends and keeps them until it exits.  Output is     *)
(* counted in units; argument copies and the output bytes are left out.    *)
(***************************************************************************)
EXTENDS Integers, FiniteSets

CONSTANTS ExecThreads,
          Outputs,     \* Outputs[t]: how much a child of t may want to write
          PipeCap,     \* capacity of a pipe
          MaxOut,      \* OO_SYS_EXEC_MAX_OUT
          MaxExecs     \* bound on the calls of one thread

ASSUME ExecAssumption ==
  /\ PipeCap \in Nat /\ MaxOut \in Nat /\ MaxExecs \in Nat
  /\ Outputs \in [ExecThreads -> SUBSET Nat]

VARIABLES epc,         \* where each thread is in the call
          ends,        \* pipe ends the thread holds
          inPipe,      \* units in its pipe
          got,         \* out_n
          child,       \* its child: none, running, done, failed or killed (not yet reaped), reaped
          keeps,       \* ends <<pipe, end>> the child holds
          left,        \* what the child still wants to write
          total,       \* what it wanted to write
          result,      \* result of the last call: none, ok, err
          cut,         \* a signal interrupted the call
          execs        \* calls made

execVars == <<epc, ends, inPipe, got, child, keeps, left, total, result, cut, execs>>

Lesser(a, b) == IF a < b THEN a ELSE b

ExecInit ==
  /\ epc = [t \in ExecThreads |-> "idle"]
  /\ ends = [t \in ExecThreads |-> {}]
  /\ inPipe = [t \in ExecThreads |-> 0]
  /\ got = [t \in ExecThreads |-> 0]
  /\ child = [t \in ExecThreads |-> "none"]
  /\ keeps = [t \in ExecThreads |-> {}]
  /\ left = [t \in ExecThreads |-> 0]
  /\ total = [t \in ExecThreads |-> 0]
  /\ result = [t \in ExecThreads |-> "none"]
  /\ cut = [t \in ExecThreads |-> FALSE]
  /\ execs = [t \in ExecThreads |-> 0]

\* Somebody holds this end of the pipe of t.
Held(t, end) == end \in ends[t] \/ \E u \in ExecThreads : <<t, end>> \in keeps[u]

(* pipe(2) after the argument tests; the locals of a new call. *)
ExecPipe(t) ==
  /\ epc[t] = "idle" /\ execs[t] < MaxExecs
  /\ child[t] \in {"none", "reaped"}       \* bound: a thread that gave up on a child stops here
  /\ epc' = [epc EXCEPT ![t] = "fork"]
  /\ ends' = [ends EXCEPT ![t] = {"r", "w"}]
  /\ inPipe' = [inPipe EXCEPT ![t] = 0]
  /\ got' = [got EXCEPT ![t] = 0]
  /\ child' = [child EXCEPT ![t] = "none"]
  /\ total' = [total EXCEPT ![t] = 0]
  /\ result' = [result EXCEPT ![t] = "none"]
  /\ cut' = [cut EXCEPT ![t] = FALSE]
  /\ execs' = [execs EXCEPT ![t] = @ + 1]
  /\ UNCHANGED <<keeps, left>>

\* Mutant: an error return that leaves the pipe open.
ExecFailsLeaks(t) ==
  /\ epc[t] = "fork"
  /\ result' = [result EXCEPT ![t] = "err"]
  /\ epc' = [epc EXCEPT ![t] = "idle"]
  /\ UNCHANGED <<ends, inPipe, got, child, keeps, left, total, cut, execs>>

(* A bad argument, no memory or no process: both ends are closed. *)
ExecFails(t) ==
  /\ epc[t] = "fork"
  /\ ends' = [ends EXCEPT ![t] = {}]
  /\ result' = [result EXCEPT ![t] = "err"]
  /\ epc' = [epc EXCEPT ![t] = "idle"]
  /\ UNCHANGED <<inPipe, got, child, keeps, left, total, cut, execs>>

(* The child closes its read end and keeps the write end as stdout and     *)
(* stderr; execvp keeps the other threads' ends open as well.              *)
ExecFork(t) ==
  /\ epc[t] = "fork"
  /\ child' = [child EXCEPT ![t] = "running"]
  /\ keeps' = [keeps EXCEPT ![t] =
       {<<t, "w">>} \cup {e \in (ExecThreads \ {t}) \X {"r", "w"} : e[2] \in ends[e[1]]}]
  /\ \E n \in Outputs[t] :
       /\ left' = [left EXCEPT ![t] = n]
       /\ total' = [total EXCEPT ![t] = n]
  /\ epc' = [epc EXCEPT ![t] = "close_w"]
  /\ UNCHANGED <<ends, inPipe, got, result, cut, execs>>

\* Mutant: the parent keeps its write end.
ExecKeepW(t) ==
  /\ epc[t] = "close_w"
  /\ epc' = [epc EXCEPT ![t] = "read"]
  /\ UNCHANGED <<ends, inPipe, got, child, keeps, left, total, result, cut, execs>>

ExecCloseW(t) ==
  /\ epc[t] = "close_w"
  /\ ends' = [ends EXCEPT ![t] = @ \ {"w"}]
  /\ epc' = [epc EXCEPT ![t] = "read"]
  /\ UNCHANGED <<inPipe, got, child, keeps, left, total, result, cut, execs>>

(* One turn of the read loop: stop at the limit, at end of file, or when a *)
(* signal interrupts the read (EINTR is not retried).                      *)
ExecRead(t) ==
  /\ epc[t] = "read"
  /\ \/ /\ got[t] < MaxOut /\ inPipe[t] > 0
        /\ LET n == Lesser(inPipe[t], MaxOut - got[t]) IN
             /\ got' = [got EXCEPT ![t] = @ + n]
             /\ inPipe' = [inPipe EXCEPT ![t] = @ - n]
        /\ UNCHANGED <<epc, cut>>
     \/ /\ got[t] >= MaxOut \/ (inPipe[t] = 0 /\ ~Held(t, "w"))
        /\ epc' = [epc EXCEPT ![t] = "close_r"]
        /\ UNCHANGED <<got, inPipe, cut>>
     \/ /\ got[t] < MaxOut /\ inPipe[t] = 0
        /\ cut' = [cut EXCEPT ![t] = TRUE]
        /\ epc' = [epc EXCEPT ![t] = "close_r"]
        /\ UNCHANGED <<got, inPipe>>
  /\ UNCHANGED <<ends, child, keeps, left, total, result, execs>>

ExecCloseR(t) ==
  /\ epc[t] = "close_r"
  /\ ends' = [ends EXCEPT ![t] = @ \ {"r"}]
  /\ epc' = [epc EXCEPT ![t] = "wait"]
  /\ UNCHANGED <<inPipe, got, child, keeps, left, total, result, cut, execs>>

(* waitpid: Ok for exit status 0; interrupted, it gives up on the child. *)
ExecWaitpid(t) ==
  /\ epc[t] = "wait"
  /\ \/ /\ child[t] \in {"done", "failed", "killed"}
        /\ result' = [result EXCEPT ![t] = IF child[t] = "done" THEN "ok" ELSE "err"]
        /\ child' = [child EXCEPT ![t] = "reaped"]
        /\ UNCHANGED cut
     \/ /\ child[t] = "running"
        /\ result' = [result EXCEPT ![t] = "err"]
        /\ cut' = [cut EXCEPT ![t] = TRUE]
        /\ UNCHANGED child
  /\ epc' = [epc EXCEPT ![t] = "idle"]
  /\ UNCHANGED <<ends, inPipe, got, keeps, left, total, execs>>

(* The child writes, blocks on a full pipe, dies of SIGPIPE, or exits      *)
(* (126 or 127 when dup2 or execvp failed).                                *)
ChildWrites(c) ==
  /\ child[c] = "running" /\ left[c] > 0 /\ inPipe[c] < PipeCap /\ Held(c, "r")
  /\ inPipe' = [inPipe EXCEPT ![c] = @ + 1]
  /\ left' = [left EXCEPT ![c] = @ - 1]
  /\ UNCHANGED <<epc, ends, got, child, keeps, total, result, cut, execs>>

ChildEnds(c) ==
  /\ child[c] = "running"
  /\ \/ left[c] = 0 /\ child' = [child EXCEPT ![c] = "done"]
     \/ left[c] = total[c] /\ child' = [child EXCEPT ![c] = "failed"]
     \/ left[c] > 0 /\ ~Held(c, "r") /\ child' = [child EXCEPT ![c] = "killed"]
  /\ keeps' = [keeps EXCEPT ![c] = {}]
  /\ UNCHANGED <<epc, ends, inPipe, got, left, total, result, cut, execs>>

ExecStep(t) ==
  ExecFails(t) \/ ExecFork(t) \/ ExecCloseW(t) \/ ExecRead(t) \/ ExecCloseR(t) \/ ExecWaitpid(t)

ExecNext == \E t \in ExecThreads : ExecPipe(t) \/ ExecStep(t) \/ ChildWrites(t) \/ ChildEnds(t)

(* A thread in the call and a running child are scheduled; nothing says     *)
(* that a signal ever comes, so the interrupted branches are not fair.      *)
ExecProgress(t) == ExecStep(t) /\ cut' = cut
ExecFairness == \A t \in ExecThreads :
  WF_execVars(ExecProgress(t)) /\ WF_execVars(ChildWrites(t) \/ ChildEnds(t))

ExecSpec == ExecInit /\ [][ExecNext]_execVars /\ ExecFairness
-----------------------------------------------------------------------------
(***************************************************************************)
(* A call that has returned holds no pipe end, and unless a signal cut it  *)
(* short it left no zombie and an Ok capture is the whole output, but for  *)
(* what the limit and one pipe buffer can hide.  About the close on every  *)
(* path, the read limit and waitpid of oo_sys_exec.                        *)
(***************************************************************************)
ExecSettled == \A t \in ExecThreads : epc[t] = "idle" =>
  /\ ends[t] = {}
  /\ ~cut[t] => child[t] \in {"none", "reaped"}
  /\ result[t] = "ok" /\ ~cut[t] => got[t] = Lesser(total[t], MaxOut) /\ total[t] <= MaxOut + PipeCap

(***************************************************************************)
(* Every call returns: a child that floods is stopped by EPIPE once the    *)
(* parent stops reading ("A flood still sees EPIPE").                      *)
(***************************************************************************)
ExecReturns == \A t \in ExecThreads : epc[t] # "idle" ~> epc[t] = "idle"
=============================================================================
