------------------------------ MODULE Kernels -------------------------------
(***************************************************************************)
(* The device code (hw/gpu/hip_kern.hip, hw/gpu/cuda_kern.cu): the C       *)
(* launchers that allocate device buffers, copy, start a grid, copy back   *)
(* and compare with a reference computed on the host, and the kernels.     *)
(*                                                                         *)
(* A block is a set of units that run at their own pace between barriers:  *)
(* threads, or warps where the kernel sums over a warp by shuffles, whose  *)
(* lanes go in step.  A kernel is cut into segments at __syncthreads.      *)
(* Blocks share nothing but the output, each cell of which has one writer  *)
(* or is added to atomically, so they run one after another, in any order. *)
(*                                                                         *)
(* Floats are integers (cell i of operand k is (k+1)^(i+1)), so a sum is   *)
(* exact and tells what was summed; square roots and exponentials are kept *)
(* as the tuple of their arguments.  A read outside a buffer is Poison.    *)
(* Block, Wave, Tile, MaxGrid and Cube are the code's 256 (64), 32, 16, 64 *)
(* and 8 x 8 x 4, scaled down.                                             *)
(***************************************************************************)
EXTENDS Integers, Sequences, FiniteSetsExt, TLC

CONSTANTS Block, Wave, Tile, MaxGrid, Cube, MaxDHead,
          Shapes        \* the calls: pairs of a launcher and its dimensions

VARIABLES kc,           \* the launch: its dimensions, buffers, grid and reference
          kpc,          \* the launcher's place
          dev,          \* device buffers held, in order of allocation
          todo, block,  \* blocks still to run, and the one running
          seg,          \* unit |-> segments it has done
          sh, reg,      \* the block's shared memory, each unit's accumulator
          dout          \* the output on the device

kerVars == <<kc, kpc, dev, todo, block, seg, sh, reg, dout>>

Poison == 1000003
Val(k, i) == (k + 1) ^ (i + 1)
CeilDiv(a, b) == (a + b - 1) \div b
SumOf(S, F(_)) == MapThenSumSet(F, S)
Square(x) == x * x
-----------------------------------------------------------------------------
(* The launchers: the buffers in order of allocation, the output last, the  *)
(* grid, the units of a block, the segments of the kernel, and the          *)
(* reference the host compares with.  rmsnorm's gamma is absent when the    *)
(* third dimension is 0.                                                    *)
Gamma(d, i) == IF d[3] = 0 THEN 1 ELSE Val(2, i)
RefRow(d, r) == SumOf(0 .. d[2] - 1, LAMBDA i : Square(Val(1, r * d[2] + i)))
RefRms(d) == [i \in 0 .. d[1] * d[2] - 1 |-> <<Val(1, i) * Gamma(d, i % d[2]), RefRow(d, i \div d[2])>>]
RefGemm(d) ==
  [i \in 0 .. d[1] * d[2] - 1 |->
     SumOf(0 .. d[3] - 1, LAMBDA p : Val(1, (i \div d[2]) * d[3] + p) * Val(2, p * d[2] + (i % d[2])))]
RefDot(d, r, s) == SumOf(0 .. d[2] - 1, LAMBDA h : Val(1, r * d[2] + h) * Val(2, s * d[2] + h))
RefAttn(d) ==
  [i \in 0 .. d[1] * d[2] - 1 |->
     [s \in 1 .. d[1] |-> <<RefDot(d, i \div d[2], s - 1), Val(3, (s - 1) * d[2] + (i % d[2]))>>]]
LaunchPlan(d, ok, bufs, grid, units, segs, ref) ==
  [dims |-> d, ok |-> ok, bufs |-> bufs, grid |-> grid, units |-> units, segs |-> segs, ref |-> ref]

oo_hip_vec_add_launch(d) ==
  LaunchPlan(d, d[1] > 0, <<d[1], d[1], d[1]>>, 0 .. CeilDiv(d[1], Block) - 1, 0 .. Block - 1, 1,
            [i \in 0 .. d[1] - 1 |-> Val(1, i) + Val(2, i)])

oo_hip_sgemm_launch(d) ==
  LaunchPlan(d, d[1] > 0 /\ d[2] > 0 /\ d[3] > 0, <<d[1] * d[3], d[3] * d[2], d[1] * d[2]>>,
            (0 .. CeilDiv(d[2], Tile) - 1) \X (0 .. CeilDiv(d[1], Tile) - 1),
            (0 .. Tile - 1) \X (0 .. Tile - 1), 2 * CeilDiv(d[3], Tile) + 1, RefGemm(d))

\* As many warps as cover the row, no more than a block holds.
RmsWarps(d) == IF d[2] <= Block THEN CeilDiv(d[2], Wave) ELSE Block \div Wave
oo_hip_rmsnorm_launch(d) ==
  LaunchPlan(d, d[1] > 0 /\ d[2] > 0, <<d[1] * d[2], IF d[3] = 0 THEN 0 ELSE d[2], d[1] * d[2]>>,
            0 .. d[1] - 1, 0 .. RmsWarps(d) - 1, 3, RefRms(d))

oo_hip_attention_launch(d) ==
  LaunchPlan(d, d[1] > 0 /\ d[2] > 0 /\ d[2] <= MaxDHead, [i \in 1 .. 4 |-> d[1] * d[2]],
            0 .. d[1] - 1, 0 .. d[2] - 1, 1, RefAttn(d))

SumGrid(n, per) == Min({MaxGrid, CeilDiv(n, per)})
oo_hip_reduce_sum_launch(d) ==
  LaunchPlan(d, d[1] > 0, <<d[1], 1>>, 0 .. SumGrid(d[1], 2 * Block) - 1, 0 .. Block \div Wave - 1, 2,
            [i \in {0} |-> SumOf(0 .. d[1] - 1, LAMBDA j : Val(1, j))])

oo_hip_rope_launch(d) ==
  LET half == d[2] \div 2
      Rot(i, j) == \* the pair holding i, turned by the angle of the pair
        LET x0 == Val(1, 2 * j) x1 == Val(1, 2 * j + 1)
        IN IF i = 2 * j THEN x0 * Val(2, j) - x1 * Val(3, j) ELSE x0 * Val(3, j) + x1 * Val(2, j)
  IN LaunchPlan(d, d[1] > 0 /\ d[2] > 0 /\ d[2] % 2 = 0, <<d[1] * d[2], d[1] * half, d[1] * half, d[1] * d[2]>>,
               0 .. CeilDiv(d[1] * half, Block) - 1, 0 .. Block - 1, 1,
               [i \in 0 .. d[1] * d[2] - 1 |-> Rot(i, (i \div d[2]) * half + ((i % d[2]) \div 2))])

oo_hip_stencil_3d_launch(d) ==
  LET total == d[1] * d[2] * d[3]
      Cell(i) == <<i % d[1], (i \div d[1]) % d[2], i \div (d[1] * d[2])>>
      Inner(i) == \A k \in 1 .. 3 : Cell(i)[k] > 0 /\ Cell(i)[k] < d[k] - 1
  IN LaunchPlan(d, d[1] > 0 /\ d[2] > 0 /\ d[3] > 0, <<total, total>>,
               (0 .. CeilDiv(d[1], Cube[1]) - 1) \X (0 .. CeilDiv(d[2], Cube[2]) - 1) \X (0 .. CeilDiv(d[3], Cube[3]) - 1),
               (0 .. Cube[1] - 1) \X (0 .. Cube[2] - 1) \X (0 .. Cube[3] - 1), 1,
               [i \in 0 .. total - 1 |->
                  IF Inner(i) THEN <<Val(1, i), SumOf({1, d[1], d[1] * d[2]}, LAMBDA o : Val(1, i - o) + Val(1, i + o))>>
                  ELSE <<Val(1, i), 0>>])

oo_cuda_vec_add_launch(d) == oo_hip_vec_add_launch(d)

oo_cuda_sgemm_launch(d) == [oo_hip_sgemm_launch(d) EXCEPT !.segs = 1]

\* One thread for each row; gamma's buffer is there whether it is used or not.
oo_cuda_rmsnorm_launch(d) ==
  LaunchPlan(d, d[1] > 0 /\ d[2] > 0, <<d[1] * d[2], d[2], d[1] * d[2]>>,
            0 .. CeilDiv(d[1], Block) - 1, 0 .. Block - 1, 1, RefRms(d))

oo_cuda_attention_launch(d) ==
  LaunchPlan(d, d[1] > 0 /\ d[2] > 0, [i \in 1 .. 4 |-> d[1] * d[2]],
            0 .. CeilDiv(d[1], Block) - 1, 0 .. Block - 1, 1, RefAttn(d))

\* One partial sum for each block, added up on the host; Block threads halve in log2(Block) rounds.
Rounds == CHOOSE r \in 0 .. Block : 2 ^ r = Block
oo_cuda_reduce_sum_launch(d) ==
  LaunchPlan(d, d[1] > 0, <<d[1], MaxGrid>>, 0 .. SumGrid(d[1], Block) - 1, 0 .. Block - 1, Rounds + 2,
            [i \in {0} |-> SumOf(0 .. d[1] - 1, LAMBDA j : Val(1, j))])

LaunchOf(f, d) ==
  CASE f = "hip_vec_add" -> oo_hip_vec_add_launch(d)
    [] f = "hip_sgemm" -> oo_hip_sgemm_launch(d)
    [] f = "hip_rmsnorm" -> oo_hip_rmsnorm_launch(d)
    [] f = "hip_attention" -> oo_hip_attention_launch(d)
    [] f = "hip_reduce_sum" -> oo_hip_reduce_sum_launch(d)
    [] f = "hip_rope" -> oo_hip_rope_launch(d)
    [] f = "hip_stencil_3d" -> oo_hip_stencil_3d_launch(d)
    [] f = "cuda_vec_add" -> oo_cuda_vec_add_launch(d)
    [] f = "cuda_sgemm" -> oo_cuda_sgemm_launch(d)
    [] f = "cuda_rmsnorm" -> oo_cuda_rmsnorm_launch(d)
    [] f = "cuda_attention" -> oo_cuda_attention_launch(d)
    [] OTHER -> oo_cuda_reduce_sum_launch(d)
-----------------------------------------------------------------------------
(* The kernels: what segment s of unit u of block b does to the shared      *)
(* memory, the unit's accumulator and the output.                           *)
Rd(k, i) == IF i \in 0 .. kc.call.bufs[k] - 1 THEN Val(k, i) ELSE Poison
RdGamma(i) == IF kc.call.dims[3] = 0 THEN 1 ELSE Rd(2, i)
Same == [sh |-> sh, reg |-> reg, out |-> dout]
Out(f) == [Same EXCEPT !.out = f @@ dout]
Share(x, v) == [Same EXCEPT !.sh = (x :> v) @@ sh]

oo_k_vec_add(d, b, u) ==
  LET i == b * Block + u IN IF i < d[1] THEN Out(i :> Rd(1, i) + Rd(2, i)) ELSE Same

\* Mutant: one barrier for a tile, so the next tile is loaded while others still multiply.
oo_k_sgemm_tiled_one_barrier(d, b, u, s) ==
  LET tx == u[1] ty == u[2] row == b[2] * Tile + ty col == b[1] * Tile + tx
      tiles == CeilDiv(d[3], Tile)
      Load(t) == [A |-> (<<"A", ty, tx>> :> IF row < d[1] /\ t * Tile + tx < d[3] THEN Rd(1, row * d[3] + t * Tile + tx) ELSE 0),
                  B |-> (<<"B", ty, tx>> :> IF t * Tile + ty < d[3] /\ col < d[2] THEN Rd(2, (t * Tile + ty) * d[2] + col) ELSE 0)]
      Mul == SumOf(0 .. Tile - 1, LAMBDA k : sh[<<"A", ty, k>>] * sh[<<"B", k, tx>>])
  IN CASE s = 1 -> [Same EXCEPT !.sh = Load(0).A @@ Load(0).B @@ sh]
       [] s \in 2 .. tiles -> [Same EXCEPT !.reg = [reg EXCEPT ![u] = @ + Mul], !.sh = Load(s - 1).A @@ Load(s - 1).B @@ sh]
       [] s = tiles + 1 -> [Same EXCEPT !.reg = [reg EXCEPT ![u] = @ + Mul]]
       [] s = 2 * tiles + 1 /\ row < d[1] /\ col < d[2] -> Out(row * d[2] + col :> reg[u])
       [] OTHER -> Same

\* Load a tile of each, barrier, multiply the tiles, barrier; at last the cell is written.
oo_k_sgemm_tiled(d, b, u, s) ==
  LET tx == u[1] ty == u[2] row == b[2] * Tile + ty col == b[1] * Tile + tx
      t == (s - 1) \div 2
      a_col == t * Tile + tx
      b_row == t * Tile + ty
  IN CASE s = 2 * CeilDiv(d[3], Tile) + 1 ->
            IF row < d[1] /\ col < d[2] THEN Out(row * d[2] + col :> reg[u]) ELSE Same
       [] s % 2 = 1 ->
            [Same EXCEPT !.sh =
               (<<"A", ty, tx>> :> IF row < d[1] /\ a_col < d[3] THEN Rd(1, row * d[3] + a_col) ELSE 0)
               @@ (<<"B", ty, tx>> :> IF b_row < d[3] /\ col < d[2] THEN Rd(2, b_row * d[2] + col) ELSE 0) @@ sh]
       [] OTHER ->
            [Same EXCEPT !.reg =
               [reg EXCEPT ![u] = @ + SumOf(0 .. Tile - 1, LAMBDA k : sh[<<"A", ty, k>>] * sh[<<"B", k, tx>>])]]

\* wave32_sum over the lanes of warp w: what lane 0 ends up with.
wave32_sum(w, F(_)) == SumOf(w * Wave .. w * Wave + Wave - 1, F)
Strided(from, step, n) == {i \in from .. n - 1 : (i - from) % step = 0}

\* Each warp's sum of squares, the first warp's sum of them (s_inv_rms, at -1), then the row.
oo_k_rmsnorm(d, b, u, s) ==
  LET threads == Cardinality(kc.call.units) * Wave
      Lane(t) == SumOf(Strided(t, threads, d[2]), LAMBDA i : Square(Rd(1, b * d[2] + i)))
  IN CASE s = 1 -> Share(u, wave32_sum(u, Lane))
       [] s = 2 -> IF u = 0 THEN Share(-1, SumOf(kc.call.units, LAMBDA w : sh[w])) ELSE Same
       [] OTHER -> Out([i \in {b * d[2] + x : x \in UNION {Strided(t, threads, d[2]) : t \in u * Wave .. u * Wave + Wave - 1}} |->
                          <<Rd(1, i) * RdGamma(i % d[2]), sh[-1]>>])

\* Dot product of query p with key r, and the terms of the softmax of output column h.
Dot(d, p, r) == SumOf(0 .. d[2] - 1, LAMBDA h : Rd(1, p * d[2] + h) * Rd(2, r * d[2] + h))
Terms(d, p, h) == [r \in 1 .. d[1] |-> <<Dot(d, p, r - 1), Rd(3, (r - 1) * d[2] + h)>>]
oo_k_attention(d, b, u) == Out(b * d[2] + u :> Terms(d, b, u))

\* Each lane sums two cells a block apart in every stride; the first warp adds the total to the output.
oo_k_reduce_sum(d, b, u, s) ==
  LET stride == 2 * Block * Cardinality(kc.call.grid)
      Lane(t) == LET first == Strided(b * 2 * Block + t, stride, d[1])
                 IN SumOf(first, LAMBDA i : Rd(1, i))
                    + SumOf({i + Block : i \in first} \cap (0 .. d[1] - 1), LAMBDA i : Rd(1, i))
  IN IF s = 1 THEN Share(u, wave32_sum(u, Lane))
     ELSE IF u = 0 THEN Out(0 :> dout[0] + SumOf(kc.call.units, LAMBDA w : sh[w])) ELSE Same

oo_k_rope(d, b, u) ==
  LET half == d[2] \div 2
      idx == b * Block + u
      in_idx == (idx \div half) * d[2] + 2 * (idx % half)
  IN IF idx >= d[1] * half THEN Same
     ELSE Out((in_idx :> Rd(1, in_idx) * Rd(2, idx) - Rd(1, in_idx + 1) * Rd(3, idx))
              @@ (in_idx + 1 :> Rd(1, in_idx) * Rd(3, idx) + Rd(1, in_idx + 1) * Rd(2, idx)))

oo_k_stencil_3d(d, b, u) ==
  LET at == [k \in 1 .. 3 |-> b[k] * Cube[k] + u[k]]
      idx == at[3] * (d[1] * d[2]) + at[2] * d[1] + at[1]
  IN IF \E k \in 1 .. 3 : at[k] >= d[k] THEN Same
     ELSE Out(idx :> IF \A k \in 1 .. 3 : at[k] > 0 /\ at[k] < d[k] - 1
                     THEN <<Rd(1, idx), Rd(1, idx - 1) + Rd(1, idx + 1) + Rd(1, idx - d[1]) + Rd(1, idx + d[1])
                                        + Rd(1, idx - d[1] * d[2]) + Rd(1, idx + d[1] * d[2])>>
                     ELSE <<Rd(1, idx), 0>>)

oo_k_cuda_sgemm(d, b, u) ==
  LET r == b[2] * Tile + u[2] col == b[1] * Tile + u[1]
  IN IF r >= d[1] \/ col >= d[2] THEN Same
     ELSE Out(r * d[2] + col :> SumOf(0 .. d[3] - 1, LAMBDA t : Rd(1, r * d[3] + t) * Rd(2, t * d[2] + col)))

oo_k_cuda_rmsnorm(d, b, u) ==
  LET r == b * Block + u
      ss == SumOf(0 .. d[2] - 1, LAMBDA i : Square(Rd(1, r * d[2] + i)))
  IN IF r >= d[1] THEN Same
     ELSE Out([i \in r * d[2] .. r * d[2] + d[2] - 1 |-> <<Rd(1, i) * RdGamma(i % d[2]), ss>>])

oo_k_cuda_attn(d, b, u) ==
  LET p == b * Block + u
  IN IF p >= d[1] THEN Same ELSE Out([i \in p * d[2] .. p * d[2] + d[2] - 1 |-> Terms(d, p, i % d[2])])

\* Each thread's strided sum, the halving rounds, the block's partial sum.
oo_k_cuda_reduce(d, b, u, s) ==
  LET width == Block \div 2 ^ (s - 1)
  IN CASE s = 1 -> Share(u, SumOf(Strided(b * Block + u, Cardinality(kc.call.grid) * Block, d[1]), LAMBDA i : Rd(1, i)))
       [] s = Rounds + 2 -> IF u = 0 THEN Out(b :> sh[0]) ELSE Same
       [] OTHER -> IF u < width THEN Share(u, sh[u] + sh[u + width]) ELSE Same

Effect(f, d, b, u, s) ==
  CASE f \in {"hip_vec_add", "cuda_vec_add"} -> oo_k_vec_add(d, b, u)
    [] f = "hip_sgemm" -> oo_k_sgemm_tiled(d, b, u, s)
    [] f = "hip_rmsnorm" -> oo_k_rmsnorm(d, b, u, s)
    [] f = "hip_attention" -> oo_k_attention(d, b, u)
    [] f = "hip_reduce_sum" -> oo_k_reduce_sum(d, b, u, s)
    [] f = "hip_rope" -> oo_k_rope(d, b, u)
    [] f = "hip_stencil_3d" -> oo_k_stencil_3d(d, b, u)
    [] f = "cuda_sgemm" -> oo_k_cuda_sgemm(d, b, u)
    [] f = "cuda_rmsnorm" -> oo_k_cuda_rmsnorm(d, b, u)
    [] f = "cuda_attention" -> oo_k_cuda_attn(d, b, u)
    [] OTHER -> oo_k_cuda_reduce(d, b, u, s)
-----------------------------------------------------------------------------
NoKernel == [fn |-> "none", call |-> <<>>]
NoBlock == todo' = {} /\ block' = <<>> /\ seg' = <<>> /\ sh' = <<>> /\ reg' = <<>>
KerIdle == kc' = NoKernel /\ kpc' = "idle" /\ dev' = {} /\ dout' = <<>> /\ NoBlock

KerInit ==
  /\ kc = NoKernel /\ kpc = "idle" /\ dev = {} /\ dout = <<>>
  /\ todo = {} /\ block = <<>> /\ seg = <<>> /\ sh = <<>> /\ reg = <<>>

\* The tests on the arguments: 1, or on to the buffers.
LaunchEnter(f, d) ==
  /\ kpc = "idle" /\ LaunchOf(f, d).ok
  /\ kc' = [fn |-> f, call |-> LaunchOf(f, d)]
  /\ kpc' = "alloc" /\ UNCHANGED <<dev, dout, todo, block, seg, sh, reg>>

\* The buffers one after another; a failure gives back the ones before it.
DeviceMalloc ==
  /\ kpc = "alloc"
  /\ LET next == Cardinality(dev) + 1
     IN /\ dev' = dev \cup {next}
        /\ kpc' = IF next = Len(kc.call.bufs) THEN "copy" ELSE "alloc"
  /\ UNCHANGED <<kc, dout, todo, block, seg, sh, reg>>

\* A failed allocation, copy, launch or synchronisation: all buffers are given back.
DeviceFails == kpc \in {"alloc", "copy", "run"} /\ KerIdle

\* Operands copied in; reduce_sum's output is cleared on HIP.  Other output is as cudaMalloc left it.
CopyToDevice ==
  /\ kpc = "copy"
  /\ dout' = IF kc.fn = "hip_reduce_sum" THEN (0 :> 0) ELSE <<>>
  /\ todo' = kc.call.grid /\ kpc' = "run"
  /\ UNCHANGED <<kc, dev, block, seg, sh, reg>>

BlockStart ==
  /\ kpc = "run" /\ seg = <<>>
  /\ \E b \in todo :
       /\ block' = b /\ todo' = todo \ {b}
       /\ seg' = [u \in kc.call.units |-> 0] /\ reg' = [u \in kc.call.units |-> 0]
  /\ UNCHANGED <<kc, kpc, dev, sh, dout>>

\* A unit's next segment; the barrier before it waits for every unit of the block.
UnitStep(u) ==
  /\ kpc = "run" /\ u \in DOMAIN seg
  /\ seg[u] < kc.call.segs /\ \A v \in DOMAIN seg : seg[v] >= seg[u]
  /\ LET e == Effect(kc.fn, kc.call.dims, block, u, seg[u] + 1)
     IN sh' = e.sh /\ reg' = e.reg /\ dout' = e.out
  /\ seg' = [seg EXCEPT ![u] = @ + 1]
  /\ UNCHANGED <<kc, kpc, dev, todo, block>>

BlockEnd ==
  /\ kpc = "run" /\ seg # <<>> /\ \A u \in DOMAIN seg : seg[u] = kc.call.segs
  /\ seg' = <<>> /\ sh' = <<>> /\ reg' = <<>> /\ block' = <<>>
  /\ UNCHANGED <<kc, kpc, dev, todo, dout>>

\* Synchronised: the output is copied back, CUDA's partial sums are added up, the buffers given back.
CopyToHost ==
  /\ kpc = "run" /\ seg = <<>> /\ todo = {}
  /\ kpc' = "verify" /\ dev' = {}
  /\ dout' = IF kc.fn = "cuda_reduce_sum" THEN (0 :> SumOf(kc.call.grid, LAMBDA b : dout[b])) ELSE dout
  /\ UNCHANGED <<kc, todo, block, seg, sh, reg>>

Verified == kpc = "verify" /\ KerIdle

KerNext ==
  \/ \E c \in Shapes : LaunchEnter(c[1], c[2])
  \/ DeviceMalloc \/ DeviceFails \/ CopyToDevice \/ BlockStart
  \/ \E u \in DOMAIN seg : UnitStep(u)
  \/ BlockEnd \/ CopyToHost \/ Verified

KerSpec == KerInit /\ [][KerNext]_kerVars
-----------------------------------------------------------------------------
(* What a kernel computes is what the host computes (the launchers' loops   *)
(* that return 5 on a mismatch, hip_kern.hip and cuda_kern.cu), however the *)
(* threads of a block are scheduled between the barriers: the grid covers   *)
(* every cell, none is counted twice, nothing is read outside a buffer and  *)
(* no tile, warp sum or partial sum is read before it is written or after   *)
(* it is overwritten; and no device buffer is left when a launcher returns. *)
KernelMatches ==
  /\ kpc = "verify" => dout = kc.call.ref
  /\ kpc \in {"idle", "verify"} => dev = {}
=============================================================================
