----------------------------- MODULE MCProgress -----------------------------
(***************************************************************************)
(* The components whose operations must come to an end, for TLC: control   *)
(* blocks, oo_sys_exec, the varlink daemon and joinable threads.  They     *)
(* share no state, so the run is the disjoint union of their instances:    *)
(* part says which of them a behaviour is about, the others stay in one    *)
(* first state.  No symmetry, because of the temporal properties.          *)
(***************************************************************************)
EXTENDS WeakRef, Exec, Varlink, Joinable, TLC

CONSTANTS t1, t2, r1

VARIABLE part

\* Output that fits, that fills the limit and the pipe, and one unit more; the other child's is short.
MCOutputs == (t1 :> {0, MaxOut + PipeCap, MaxOut + PipeCap + 1}) @@ (t2 :> {0, 1})

PInit ==
  /\ part \in {"weak", "exec", "varlink", "join"}
  /\ Init /\ ExecInit /\ VlInit /\ JInit
  /\ part # "weak" => S = {r1} /\ owner[r1] = t1

PNext ==
  /\ \/ part = "weak"    /\ Next     /\ UNCHANGED <<execVars, vlVars, joinVars>>
     \/ part = "exec"    /\ ExecNext /\ UNCHANGED <<vars, vlVars, joinVars>>
     \/ part = "varlink" /\ VlNext   /\ UNCHANGED <<vars, execVars, joinVars>>
     \/ part = "join"    /\ JNext    /\ UNCHANGED <<vars, execVars, vlVars>>
  /\ UNCHANGED part

\* The fairness of the four specifications, each in the behaviours of its own part.
PFairness ==
  /\ \A t \in Threads : WF_vars(part = "weak" /\ Continue(t))
  /\ \A t \in ExecThreads : /\ WF_execVars(part = "exec" /\ ExecProgress(t))
                            /\ WF_execVars(part = "exec" /\ (ChildWrites(t) \/ ChildEnds(t)))
  /\ WF_vlVars(part = "varlink" /\ (DaemonPoll \/ DaemonAccept \/ DaemonHangup \/ DaemonRequest))
  /\ \A f \in Conns : WF_vlVars(part = "varlink" /\ (WorkerAnswers(f) \/ WorkerCloses(f)))
  /\ \A c \in Callers : WF_joinVars(part = "join" /\ CallerStep(c))
  /\ \A s \in JSlots : WF_joinVars(part = "join" /\ WorkerStep(s))

PSpec == PInit /\ [][PNext]_<<part, vars, execVars, vlVars, joinVars>> /\ PFairness
=============================================================================
