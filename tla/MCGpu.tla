------------------------------- MODULE MCGpu -------------------------------
(***************************************************************************)
(* The GPU memory pool with two threads, two buffers and two streams, and  *)
(* the kernels, for TLC.  The two share no state, so the run is the        *)
(* disjoint union of their instances: part says which of them a behaviour  *)
(* is about, the other stays in its first state.                           *)
(***************************************************************************)
EXTENDS Gpu, Kernels

VARIABLE part

\* Sizes below, at and above a block, a tile and a warp.
MCCube == <<3, 2, 1>>
MCShapes ==
  {<<"hip_vec_add", <<5>>>>, <<"cuda_vec_add", <<4>>>>,
   <<"hip_sgemm", <<3, 2, 3>>>>, <<"hip_sgemm", <<1, 3, 4>>>>, <<"hip_sgemm", <<2, 1, 3>>>>,
   <<"hip_rmsnorm", <<2, 3, 1>>>>, <<"hip_rmsnorm", <<1, 6, 0>>>>,
   <<"hip_attention", <<2, 2>>>>, <<"hip_attention", <<1, 3>>>>,
   <<"hip_reduce_sum", <<21>>>>, <<"hip_reduce_sum", <<3>>>>,
   <<"hip_rope", <<2, 4>>>>, <<"hip_rope", <<1, 3>>>>,
   <<"hip_stencil_3d", <<3, 3, 3>>>>, <<"hip_stencil_3d", <<1, 2, 2>>>>,
   <<"cuda_sgemm", <<3, 2, 3>>>>, <<"cuda_rmsnorm", <<2, 3, 1>>>>, <<"cuda_rmsnorm", <<5, 1, 0>>>>,
   <<"cuda_attention", <<2, 2>>>>, <<"cuda_reduce_sum", <<11>>>>, <<"cuda_reduce_sum", <<2>>>>}

Symmetry == Permutations(Blocks) \cup Permutations(Ptrs) \cup Permutations(StreamObjs)

DInit == part \in {"pool", "kernel"} /\ Init /\ KerInit

DNext ==
  /\ \/ part = "pool"   /\ Next    /\ UNCHANGED kerVars
     \/ part = "kernel" /\ KerNext /\ UNCHANGED vars
  /\ UNCHANGED part

DSpec == DInit /\ [][DNext]_<<part, vars, kerVars>>
=============================================================================
