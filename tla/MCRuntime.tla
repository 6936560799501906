----------------------------- MODULE MCRuntime -----------------------------
(***************************************************************************)
(* Components with safety properties only, for TLC: sockets, the shell     *)
(* host, the durable append, events and metrics, the flight recorder, the  *)
(* allocators, GPU launches and the network client.  They share no state,  *)
(* so the run is the disjoint union of their instances: part says which of *)
(* them a behaviour is about, the others stay in one first state.  The     *)
(* threads of all parts are the same two model values, interchangeable.    *)
(***************************************************************************)
EXTENDS NetFloor, Shell, Wal, Observe, Blackbox, Memory, GpuLaunch, Fetch, TLC

CONSTANTS t1, t2

VARIABLE part

\* Dimensions that fit and that do not, a zero among them; lists that are long enough and too short.
MCDims == {<<1, 1, 1>>, <<2, 2, 1>>, <<0, 1, 1>>}
MCLens == {<<1, 1, 1, 1>>, <<2, 2, 2, 2>>, <<4, 2, 4, 4>>}

Symmetry == Permutations({t1, t2})

RInit ==
  /\ part \in {"net", "shell", "wal", "observe", "blackbox", "memory", "launch", "fetch"}
  /\ NetInit /\ ShInit /\ WalInit /\ ObInit /\ BbInit /\ MemInit /\ GlInit /\ FetchInit
  /\ part # "shell" => winSize = 1
  /\ part # "launch" => hipOk /\ \A b \in Backends : lib[b] = {}

RNext ==
  /\ \/ part = "net"      /\ NetNext
        /\ UNCHANGED <<shVars, walVars, obVars, bbVars, memVars, glVars, fetchVars>>
     \/ part = "shell"    /\ ShNext
        /\ UNCHANGED <<netVars, walVars, obVars, bbVars, memVars, glVars, fetchVars>>
     \/ part = "wal"      /\ WalNext
        /\ UNCHANGED <<netVars, shVars, obVars, bbVars, memVars, glVars, fetchVars>>
     \/ part = "observe"  /\ ObNext
        /\ UNCHANGED <<netVars, shVars, walVars, bbVars, memVars, glVars, fetchVars>>
     \/ part = "blackbox" /\ BbNext
        /\ UNCHANGED <<netVars, shVars, walVars, obVars, memVars, glVars, fetchVars>>
     \/ part = "memory"   /\ MemNext
        /\ UNCHANGED <<netVars, shVars, walVars, obVars, bbVars, glVars, fetchVars>>
     \/ part = "launch"   /\ GlNext
        /\ UNCHANGED <<netVars, shVars, walVars, obVars, bbVars, memVars, fetchVars>>
     \/ part = "fetch"    /\ FetchNext
        /\ UNCHANGED <<netVars, shVars, walVars, obVars, bbVars, memVars, glVars>>
  /\ UNCHANGED part

RSpec == RInit /\ [][RNext]_<<part, netVars, shVars, walVars, obVars, bbVars, memVars, glVars, fetchVars>>
=============================================================================
