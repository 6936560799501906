----------------------------- MODULE GpuLaunch ------------------------------
(***************************************************************************)
(* Kernel launches (hw/gpu/gpu): the lazy binding of liboo_hip.so and      *)
(* liboo_cuda.so (gpu_hip_dlopen.c, gpu_cuda_dlopen.c), the launchers on   *)
(* pointers (gpu_hip_dispatch.c, gpu_cuda_dispatch.c), on bounded buffers  *)
(* (the _buf files) and on lists (gpu_cuda_dispatch_flist.c), and the      *)
(* public entry with its classification (gpu_launch.c, gpu_classify.c).    *)
(*                                                                         *)
(* Threads call concurrently; the first call binds.  The libraries are     *)
(* external: present or not, with any set of symbols, a kernel returning   *)
(* match, mismatch or failure.  A kernel name is the kind it stands for,   *)
(* or none; the marker found in the code likewise.  An operand is the      *)
(* number of floats its owner gave it; what a kernel touches of it is      *)
(* Need.  The host copies of a list launch are counted.                    *)
(***************************************************************************)
EXTENDS Integers, Sequences, FiniteSets

CONSTANTS GlThreads,
          Dims,         \* triples of dimensions the callers pass, zeros included
          Lens,         \* lengths of the four lists or three buffers they pass
          MaxHead       \* attention's bound on d_head (256)

\* Dimensions are C integers of any sign, three of them; lengths are never negative, four of them.
ASSUME GlAssumption ==
  /\ \A d \in Dims : d \in [1 .. 3 -> Int]
  /\ \A l \in Lens : l \in [1 .. 4 -> Nat]

VARIABLES hipOk,        \* g_hip_ok, read by oo_gpu_launch_kernel
          bound,        \* back ends whose bind has run
          loaded,       \* back end |-> the launchers dlsym found
          lib,          \* external: back end |-> the launchers its library has
          gpc, gcall,   \* each thread's place and call
          host          \* thread |-> host copies malloc gave it

glVars == <<hipOk, bound, loaded, lib, gpc, gcall, host>>

Backends == {"hip", "cuda"}
HipKinds == {"vec_add", "sgemm", "rmsnorm", "attention", "reduce_sum", "rope", "stencil_3d"}
KindsOf(b) == IF b = "hip" THEN HipKinds ELSE HipKinds \ {"rope", "stencil_3d"}
NoLaunch == [form |-> "none", backend |-> "hip", kind |-> "none", dims |-> <<>>, lens |-> <<>>]

\* The operands of a kernel, the output last: the floats it touches of each.
Need(kind, d) ==
  CASE kind = "vec_add"   -> <<d[1], d[1], d[1]>>
    [] kind = "sgemm"     -> <<d[1] * d[3], d[3] * d[2], d[1] * d[2]>>
    [] kind = "rmsnorm"   -> <<d[1] * d[2], d[2], d[1] * d[2]>>
    [] kind = "attention" -> <<d[1] * d[2], d[1] * d[2], d[1] * d[2], d[1] * d[2]>>
    [] kind = "rope"      -> <<d[1] * d[2], d[1] * (d[2] \div 2), d[1] * (d[2] \div 2), d[1] * d[2]>>
    [] kind = "stencil_3d" -> <<d[1] * d[2] * d[3], d[1] * d[2] * d[3]>>
    [] OTHER              -> <<d[1], 1>>
DimsOf(kind) == CASE kind \in {"vec_add", "reduce_sum"} -> 1 [] kind \in {"sgemm", "stencil_3d"} -> 3 [] OTHER -> 2

GlInit ==
  /\ hipOk \in BOOLEAN
  /\ bound = {} /\ loaded = [b \in Backends |-> {}]
  /\ lib \in [Backends -> {{}, {"sgemm"}, HipKinds}]
  /\ gpc = [t \in GlThreads |-> "idle"] /\ gcall = [t \in GlThreads |-> NoLaunch]
  /\ host = [t \in GlThreads |-> 0]

GGoto(t, l) == gpc' = [gpc EXCEPT ![t] = l]

\* Every way back to the caller, the text of the result left out.
GlReturn(t) == GGoto(t, "idle") /\ gcall' = [gcall EXCEPT ![t] = NoLaunch]
-----------------------------------------------------------------------------
(* The launchers on pointers: the arguments are tested, then the binding.   *)
(* The operands are what the caller says they are, as long as the kernel    *)
(* touches them.                                                            *)
GlCall(t, form, b, kind, d, l) ==
  /\ gcall' = [gcall EXCEPT ![t] = [form |-> form, backend |-> b, kind |-> kind, dims |-> d, lens |-> l]]
  /\ GGoto(t, "bind")
Launcher(t, b, kind, d, extra) ==
  /\ gpc[t] = "idle"
  /\ IF (\A i \in 1 .. DimsOf(kind) : d[i] > 0) /\ extra
     THEN GlCall(t, "raw", b, kind, d, Need(kind, d))
     ELSE GlReturn(t)
  /\ UNCHANGED <<hipOk, bound, loaded, lib, host>>

oo_gpu_hip_vec_add(t, d)    == Launcher(t, "hip", "vec_add", d, TRUE)
oo_gpu_hip_sgemm(t, d)      == Launcher(t, "hip", "sgemm", d, TRUE)
oo_gpu_hip_rmsnorm(t, d)    == Launcher(t, "hip", "rmsnorm", d, TRUE)
oo_gpu_hip_attention(t, d)  == Launcher(t, "hip", "attention", d, d[2] <= MaxHead)
oo_gpu_hip_reduce_sum(t, d) == Launcher(t, "hip", "reduce_sum", d, TRUE)
oo_gpu_hip_rope(t, d)       == Launcher(t, "hip", "rope", d, d[2] % 2 = 0)
oo_gpu_hip_stencil_3d(t, d) == Launcher(t, "hip", "stencil_3d", d, TRUE)
oo_gpu_cuda_vec_add(t, d)    == Launcher(t, "cuda", "vec_add", d, TRUE)
oo_gpu_cuda_sgemm(t, d)      == Launcher(t, "cuda", "sgemm", d, TRUE)
oo_gpu_cuda_rmsnorm(t, d)    == Launcher(t, "cuda", "rmsnorm", d, TRUE)
oo_gpu_cuda_attention(t, d)  == Launcher(t, "cuda", "attention", d, TRUE)
oo_gpu_cuda_reduce_sum(t, d) == Launcher(t, "cuda", "reduce_sum", d, TRUE)

HipLaunch(t, kind, d) ==
  \/ kind = "vec_add" /\ oo_gpu_hip_vec_add(t, d)
  \/ kind = "sgemm" /\ oo_gpu_hip_sgemm(t, d)
  \/ kind = "rmsnorm" /\ oo_gpu_hip_rmsnorm(t, d)
  \/ kind = "attention" /\ oo_gpu_hip_attention(t, d)
  \/ kind = "reduce_sum" /\ oo_gpu_hip_reduce_sum(t, d)
  \/ kind = "rope" /\ oo_gpu_hip_rope(t, d)
  \/ kind = "stencil_3d" /\ oo_gpu_hip_stencil_3d(t, d)

CudaLaunch(t, kind, d) ==
  \/ kind = "vec_add" /\ oo_gpu_cuda_vec_add(t, d)
  \/ kind = "sgemm" /\ oo_gpu_cuda_sgemm(t, d)
  \/ kind = "rmsnorm" /\ oo_gpu_cuda_rmsnorm(t, d)
  \/ kind = "attention" /\ oo_gpu_cuda_attention(t, d)
  \/ kind = "reduce_sum" /\ oo_gpu_cuda_reduce_sum(t, d)

GlRefuse(t) == gpc[t] = "idle" /\ GlReturn(t) /\ UNCHANGED <<hipOk, bound, loaded, lib, host>>

\* oo_gpu_classify_kernel: a specific name first, then the markers in the code, then the name.
Generic == {"none", "k_main"}
oo_gpu_classify_kernel(name, marker) ==
  CASE name \notin Generic -> name [] marker # "none" -> marker [] OTHER -> "none"

\* Classify, take the dimensions (passed, or from the grid, which is positive), on to the launcher.
oo_gpu_launch_kernel(t, name, marker, d) ==
  LET kind == oo_gpu_classify_kernel(name, marker)
  IN IF hipOk /\ kind \in HipKinds THEN HipLaunch(t, kind, d) ELSE GlRefuse(t)

(* A shader named hip: or cuda: runs a kernel on operands of fixed size.    *)
oo_gpu_hip_try_launch(t, kind) ==
  IF kind \in {"vec_add", "sgemm", "rmsnorm", "attention"} THEN HipLaunch(t, kind, <<1, 1, 1>>) ELSE GlRefuse(t)
oo_gpu_cuda_try_launch(t, kind) ==
  IF kind \in KindsOf("cuda") THEN CudaLaunch(t, kind, <<1, 1, 1>>) ELSE GlRefuse(t)

(* The bounded buffers: a length within the capacity (which                 *)
(* oo_float_buf_new sees to), and the same for all three.                   *)
VecAddBuf(t, b, l) ==
  /\ gpc[t] = "idle"
  /\ IF (\A i \in 1 .. 3 : l[i] > 0) /\ l[1] = l[2] /\ l[1] = l[3]
     THEN GlCall(t, "raw", b, "vec_add", <<l[1]>>, SubSeq(l, 1, 3))
     ELSE GlReturn(t)
  /\ UNCHANGED <<hipOk, bound, loaded, lib, host>>
oo_gpu_hip_vec_add_buf(t, l) == VecAddBuf(t, "hip", l)
oo_gpu_cuda_vec_add_buf(t, l) == VecAddBuf(t, "cuda", l)

\* Mutant: one element too many passes.
oo_cuda_fl_ok_off_by_one(len, need) == len > 0 /\ need <= len + 1

\* oo_cuda_fl_ok.
oo_cuda_fl_ok(len, need) == len > 0 /\ need <= len

\* A list entry: every list holds what the kernel touches; rmsnorm's gamma may be absent (0).
FlistEntry(t, kind, d, l) ==
  /\ gpc[t] = "idle"
  /\ LET need == Need(kind, d)
     IN IF /\ \A i \in 1 .. DimsOf(kind) : d[i] > 0
           /\ \A i \in 1 .. Len(need) :
                oo_cuda_fl_ok(l[i], need[i]) \/ (kind = "rmsnorm" /\ i = 2 /\ l[i] = 0)
        THEN GlCall(t, "flist", "cuda", kind, d, SubSeq(l, 1, Len(need)))
        ELSE GlReturn(t)
  /\ UNCHANGED <<hipOk, bound, loaded, lib, host>>
oo_gpu_cuda_vec_add_flist(t, d, l)    == FlistEntry(t, "vec_add", d, l)
oo_gpu_cuda_sgemm_flist(t, d, l)      == FlistEntry(t, "sgemm", d, l)
oo_gpu_cuda_rmsnorm_flist(t, d, l)    == FlistEntry(t, "rmsnorm", d, l)
oo_gpu_cuda_attention_flist(t, d, l)  == FlistEntry(t, "attention", d, l)
oo_gpu_cuda_reduce_sum_flist(t, d, l) == FlistEntry(t, "reduce_sum", d, l)
-----------------------------------------------------------------------------
(* oo_hip_so_bind and oo_cuda_so_bind, one step under their mutex: the      *)
(* library is looked for once, found or not.  bind answers for vec_add;     *)
(* the launcher then looks at its own symbol.                               *)
SoBind(t, b) ==
  /\ gpc[t] = "bind" /\ gcall[t].backend = b
  /\ LET found == IF b \in bound THEN loaded[b] ELSE lib[b] \cap KindsOf(b)
     IN /\ bound' = bound \cup {b}
        /\ loaded' = [loaded EXCEPT ![b] = found]
        /\ IF "vec_add" \in found /\ gcall[t].kind \in found
           THEN GGoto(t, IF gcall[t].form = "flist" THEN "copy" ELSE "launch") /\ UNCHANGED gcall
           ELSE GlReturn(t)
  /\ UNCHANGED <<hipOk, lib, host>>
oo_hip_so_bind(t) == SoBind(t, "hip")
oo_cuda_so_bind(t) == SoBind(t, "cuda")

\* The copies to float, and the room for the output; reduce_sum's output is on the stack.
Copies(c) == Cardinality({i \in DOMAIN c.lens : c.lens[i] > 0 /\ ~ (c.kind = "reduce_sum" /\ i = 2)})

\* All of them, or a malloc failed and the others are freed.
CopyIn(t) ==
  /\ gpc[t] = "copy"
  /\ \/ host' = [host EXCEPT ![t] = Copies(gcall[t])] /\ GGoto(t, "launch") /\ UNCHANGED gcall
     \/ UNCHANGED host /\ GlReturn(t)
  /\ UNCHANGED <<hipOk, bound, loaded, lib>>

\* The kernel, external; a list's result is copied back when it matched, and the copies freed.
Launch(t) ==
  /\ gpc[t] = "launch"
  /\ GlReturn(t)
  /\ host' = [host EXCEPT ![t] = 0]
  /\ UNCHANGED <<hipOk, bound, loaded, lib>>

GlNext ==
  \E t \in GlThreads :
    \/ \E kind \in HipKinds, d \in Dims :
         \/ oo_gpu_launch_kernel(t, kind, "none", d)
         \/ oo_gpu_launch_kernel(t, "k_main", kind, d)
    \/ oo_gpu_launch_kernel(t, "none", "none", <<1, 1, 1>>)
    \/ \E kind \in HipKinds : oo_gpu_hip_try_launch(t, kind) \/ oo_gpu_cuda_try_launch(t, kind)
    \/ \E kind \in KindsOf("cuda"), d \in Dims : CudaLaunch(t, kind, d)
    \/ \E l \in Lens : oo_gpu_hip_vec_add_buf(t, l) \/ oo_gpu_cuda_vec_add_buf(t, l)
    \/ \E d \in Dims, l \in Lens :
         \/ oo_gpu_cuda_vec_add_flist(t, d, l)
         \/ oo_gpu_cuda_sgemm_flist(t, d, l)
         \/ oo_gpu_cuda_rmsnorm_flist(t, d, l)
         \/ oo_gpu_cuda_attention_flist(t, d, l)
         \/ oo_gpu_cuda_reduce_sum_flist(t, d, l)
    \/ oo_hip_so_bind(t) \/ oo_cuda_so_bind(t) \/ CopyIn(t) \/ Launch(t)

GlSpec == GlInit /\ [][GlNext]_glVars
-----------------------------------------------------------------------------
(* A kernel is launched only on what it may touch (gpu_hip_dispatch.c,      *)
(* gpu_cuda_dispatch.c and its _flist.c): its symbol was found in the       *)
(* library, its dimensions are positive, and every list or buffer is as     *)
(* long as the kernel reads or writes it; and no call keeps host copies     *)
(* once it has returned, whichever malloc failed.                           *)
LaunchSound ==
  \A t \in GlThreads :
    /\ gpc[t] = "launch" =>
         LET c == gcall[t] need == Need(c.kind, c.dims)
         IN /\ c.kind \in loaded[c.backend] /\ loaded[c.backend] \subseteq lib[c.backend]
            /\ \A i \in DOMAIN need :
                 /\ need[i] > 0
                 /\ c.lens[i] >= need[i] \/ (c.kind = "rmsnorm" /\ i = 2 /\ c.lens[i] = 0)
    /\ gpc[t] = "idle" => host[t] = 0
=============================================================================
