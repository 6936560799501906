-------------------------------- MODULE Gpu --------------------------------
(***************************************************************************)
(* The device-memory pool (hw/gpu/gpu/gpu_pool.c), the copies (gpu_mem.c)  *)
(* and the streams (gpu_stream.c) on the state of gpu.c.  The HIP runtime  *)
(* is external: it hands out device memory and streams, may refuse, and    *)
(* finishes queued copies in its own time.                                 *)
(*                                                                         *)
(* A section under g_gpu_mutex is one step.  Device calls the code makes   *)
(* after unlocking are steps of their own: the hipFree of buffer_free and  *)
(* the clearing of gpu_ptr that follows it, the copy itself, the wait of   *)
(* the three synchronise calls.                                            *)
(*                                                                         *)
(* Sizes are in units of 64 bytes.  g_vram_total_allocated, which nothing  *)
(* reads, and the event table are left out.                                *)
(***************************************************************************)
EXTENDS Integers, SequencesExt, FiniteSetsExt

CONSTANTS Threads,
          Owners,      \* threads that allocate, free and purge
          Streamers,   \* threads that copy asynchronously and synchronise
          NHandles,    \* OO_GPU_MAX_BUFFERS - 1
          NStreams,    \* OO_GPU_MAX_STREAMS - 1
          NPending,    \* OO_GPU_MAX_PENDING_COPIES
          NBins,       \* OO_GPU_POOL_BINS
          Sizes,       \* sizes that are asked for
          Blocks,      \* addresses malloc gives an OoGpuBlock
          Ptrs,        \* addresses hipMalloc gives
          StreamObjs,  \* addresses hipStreamCreateWithFlags gives
          MaxDma,      \* bound: copies queued on the device
          SyncFails,   \* whether stream_sync and gpu_sync may fail with copies under way
          Null

Bins    == 0 .. NBins - 1
Handles == 1 .. NHandles
Streams == 1 .. NStreams
Pending == 0 .. NPending - 1

\* bin_to_size does not overflow, and the largest request, OO_ALLOC_BYTES_MAX, is
\* below the size of the last bin.
ASSUME BinsAssumption  ==
  NBins \in Nat \ {0} /\ Sizes \subseteq 1 .. 2^(NBins - 1) /\ \A n \in Bins : 2^n \in Nat
ASSUME SlotsAssumption == {NHandles, NStreams, NPending, MaxDma} \subseteq Nat
ASSUME UsersAssumption == Owners \subseteq Threads /\ Streamers \subseteq Threads /\ IsFiniteSet(Threads)
ASSUME BlocksAssumption == IsFiniteSet(Blocks)
ASSUME NullAssumption  ==
  Null \notin Blocks \cup Ptrs \cup StreamObjs \cup [blk : Blocks, stream : Streams]

VARIABLES hip,      \* "unset" until oo_gpu_init ran, then g_hip_ok: "ok" or "absent"
          pool,     \* the blocks on g_pool_all_head
          blk,      \* block |-> its gpu_ptr, bin_index, is_in_use, in_flight_copies
          bins,     \* g_pool_bins: the free list of each bin, head first
          handles,  \* g_handle_blocks
          vram,     \* g_vram_total_active
          streams,  \* g_stream_handles
          pending,  \* g_pending_copies: Null when not active
          pc, loc,  \* where each thread is, and what it carries
          devMem,   \* device memory that is allocated
          devStreams, \* streams that exist on the device
          dma,      \* copies the device has yet to finish
          asked     \* handle |-> the size its allocation asked for

poolVars == <<pool, blk, bins, handles, vram, asked>>
devVars  == <<devMem, devStreams, dma>>
vars == <<hip, poolVars, streams, pending, pc, loc, devVars>>

Fresh == [ptr |-> Null, bin |-> 0, used |-> FALSE, pins |-> 0]

TypeOK ==
  /\ hip \in {"unset", "ok", "absent"}
  /\ pool \subseteq Blocks
  /\ blk \in [Blocks -> [ptr : Ptrs \cup {Null}, bin : Bins, used : BOOLEAN, pins : Nat]]
  /\ bins \in [Bins -> Seq(Blocks)]
  /\ handles \in [Handles -> Blocks \cup {Null}]
  /\ vram \in Nat
  /\ streams \in [Streams -> StreamObjs \cup {Null}]
  /\ pending \in [Pending -> [blk : Blocks, stream : Streams] \cup {Null}]
  /\ pc \in [Threads -> {"idle", "hipFree", "clear", "copy", "claim", "enqueue",
                         "destroyWait", "destroy", "syncWait", "release", "drop",
                         "deviceWait", "releaseAll", "purgeWait", "purge"}]
  /\ devMem \subseteq Ptrs /\ devStreams \subseteq StreamObjs
  /\ dma \subseteq [id : 1 .. MaxDma, blk : Blocks, ptr : Ptrs,
                    stream : StreamObjs \cup {Null}]
  /\ asked \in [Handles -> Sizes \cup {0}]

Init ==
  /\ hip = "unset" /\ pool = {} /\ blk = [b \in Blocks |-> Fresh]
  /\ bins = [n \in Bins |-> << >>]
  /\ handles = [h \in Handles |-> Null] /\ asked = [h \in Handles |-> 0]
  /\ vram = 0
  /\ streams = [s \in Streams |-> Null]
  /\ pending = [i \in Pending |-> Null]
  /\ pc = [t \in Threads |-> "idle"] /\ loc = [t \in Threads |-> Null]
  /\ devMem = {} /\ devStreams = {} /\ dma = {}

Goto(t, l, x) == pc' = [pc EXCEPT ![t] = l] /\ loc' = [loc EXCEPT ![t] = x]
Return(t) == Goto(t, "idle", Null)

\* The head of every entry point that has passed its capability check.
Enter(t) == pc[t] = "idle" /\ hip = "ok"

(***************************************************************************)
(* oo_gpu_init: the first call looks for the runtime.                      *)
(***************************************************************************)
GpuInit(t) ==
  /\ pc[t] = "idle" /\ hip = "unset"
  /\ hip' \in {"ok", "absent"}
  /\ handles' = [h \in Handles |-> Null]
  /\ bins' = [n \in Bins |-> << >>]
  /\ streams' = [s \in Streams |-> Null]
  /\ pending' = [i \in Pending |-> Null]
  /\ UNCHANGED <<pool, blk, vram, asked, pc, loc, devVars>>

-----------------------------------------------------------------------------
BinToSize(n) == 2^n

\* Mutant: the loop stops one doubling early.
SizeToBinEarly(x) ==
  Min({n \in Bins : BinToSize(n + 1) >= x} \cup {NBins - 1})

SizeToBin(x) == Min({n \in Bins : BinToSize(n) >= x} \cup {NBins - 1})

FreeHandles == {h \in Handles : handles[h] = Null}

Push(n, b) == [bins EXCEPT ![n] = <<b>> \o @]

\* Mutant: the size of the block is not added to the total.
HandOutUncounted(b, rest, x) ==
  /\ FreeHandles # {}
  /\ handles' = [handles EXCEPT ![Min(FreeHandles)] = b]
  /\ asked' = [asked EXCEPT ![Min(FreeHandles)] = x]
  /\ bins' = rest
  /\ UNCHANGED vram

\* Mutant: a full handle table leaves the block out of the free list.
HandOutLeaks(b, rest, x) ==
  LET n == SizeToBin(x) IN
  IF FreeHandles # {}
    THEN LET h == Min(FreeHandles) IN
         /\ handles' = [handles EXCEPT ![h] = b]
         /\ asked' = [asked EXCEPT ![h] = x]
         /\ bins' = rest
         /\ vram' = vram + BinToSize(n)
    ELSE UNCHANGED <<handles, asked, vram>> /\ bins' = rest

(***************************************************************************)
(* The end of oo_gpu_buffer_alloc: block b gets the first free handle, or, *)
(* when the table is full, goes on its free list.  rest is the free lists  *)
(* without b.                                                              *)
(***************************************************************************)
HandOut(b, rest, x) ==
  LET n == SizeToBin(x) IN
  IF FreeHandles # {}
    THEN LET h == Min(FreeHandles) IN
         /\ handles' = [handles EXCEPT ![h] = b]
         /\ asked' = [asked EXCEPT ![h] = x]
         /\ bins' = rest
         /\ vram' = vram + BinToSize(n)
    ELSE /\ bins' = [rest EXCEPT ![n] = <<b>> \o @]
         /\ UNCHANGED <<handles, asked, vram>>

(***************************************************************************)
(* oo_gpu_buffer_alloc.  Reuse takes the head of the free list, with new   *)
(* device memory if it has none (p is what hipMalloc returns; a refusal    *)
(* puts the block back).  AllocNew makes a block; a refusal of either      *)
(* allocator changes nothing.                                              *)
(***************************************************************************)
AllocReuse(t, x, p) ==
  LET n == SizeToBin(x)
      b == Head(bins[n])
      q == IF blk[b].ptr = Null THEN p ELSE blk[b].ptr
  IN
  /\ Enter(t) /\ t \in Owners /\ bins[n] # << >>
  /\ IF blk[b].ptr = Null
       THEN p \in (Ptrs \ devMem) \cup {Null}
       ELSE p = Null
  /\ IF q = Null
       THEN blk' = [blk EXCEPT ![b].pins = 0] /\ UNCHANGED <<handles, asked, bins, vram, devMem>>
       ELSE /\ devMem' = devMem \cup ({p} \ {Null})
            /\ blk' = [blk EXCEPT ![b] = [@ EXCEPT !.ptr = q, !.pins = 0,
                                                   !.used = FreeHandles # {}]]
            /\ HandOut(b, [bins EXCEPT ![n] = Tail(@)], x)
  /\ UNCHANGED <<hip, pool, streams, pending, pc, loc, devStreams, dma>>

AllocNew(t, x, b, p) ==
  LET n == SizeToBin(x) IN
  /\ Enter(t) /\ t \in Owners /\ bins[n] = << >>
  /\ b \in Blocks \ pool /\ p \in Ptrs \ devMem
  /\ devMem' = devMem \cup {p}
  /\ pool' = pool \cup {b}
  /\ blk' = [blk EXCEPT ![b] = [ptr |-> p, bin |-> n, used |-> FreeHandles # {}, pins |-> 0]]
  /\ HandOut(b, bins, x)
  /\ UNCHANGED <<hip, streams, pending, pc, loc, devStreams, dma>>

\* Mutant: the test for copies in flight is missing.
FreeBlockPinned(t, h) ==
  LET b == handles[h] IN
  /\ Enter(t) /\ t \in Owners
  /\ b # Null /\ blk[b].used
  /\ handles' = [handles EXCEPT ![h] = Null]
  /\ asked' = [asked EXCEPT ![h] = 0]
  /\ blk' = [blk EXCEPT ![b].used = FALSE]
  /\ bins' = Push(blk[b].bin, b)
  /\ vram' = vram - BinToSize(blk[b].bin)
  /\ Goto(t, "hipFree", [blk |-> b, ptr |-> blk[b].ptr])
  /\ UNCHANGED <<hip, pool, streams, pending, devVars>>

(***************************************************************************)
(* oo_gpu_buffer_free: the block goes on its free list under the lock;     *)
(* after unlocking the device memory is freed and gpu_ptr cleared.  A      *)
(* block with copies in flight is refused.                                 *)
(***************************************************************************)
FreeBlock(t, h) ==
  LET b == handles[h] IN
  /\ Enter(t) /\ t \in Owners
  /\ b # Null /\ blk[b].used /\ blk[b].pins = 0
  /\ handles' = [handles EXCEPT ![h] = Null]
  /\ asked' = [asked EXCEPT ![h] = 0]
  /\ blk' = [blk EXCEPT ![b].used = FALSE]
  /\ bins' = Push(blk[b].bin, b)
  /\ vram' = vram - BinToSize(blk[b].bin)
  /\ Goto(t, "hipFree", [blk |-> b, ptr |-> blk[b].ptr])
  /\ UNCHANGED <<hip, pool, streams, pending, devVars>>

FreeDevice(t) ==
  /\ pc[t] = "hipFree"
  /\ devMem' = devMem \ {loc[t].ptr}
  /\ Goto(t, "clear", loc[t])
  /\ UNCHANGED <<hip, poolVars, streams, pending, devStreams, dma>>

\* Mutant: gpu_ptr keeps its value.
FreeClearNot(t) ==
  /\ pc[t] = "clear"
  /\ Return(t)
  /\ UNCHANGED <<hip, poolVars, streams, pending, devVars>>

FreeClear(t) ==
  /\ pc[t] = "clear"
  /\ blk' = [blk EXCEPT ![loc[t].blk].ptr = Null]
  /\ Return(t)
  /\ UNCHANGED <<hip, pool, bins, handles, vram, asked, streams, pending, devVars>>

-----------------------------------------------------------------------------
(***************************************************************************)
(* oo_gpu_copy_h2d and oo_gpu_copy_d2h: pin, copy outside the lock, unpin. *)
(***************************************************************************)
Unpin(b) == [blk EXCEPT ![b].pins = IF @ > 0 THEN @ - 1 ELSE @]

Copyable(h, x) ==
  LET b == handles[h] IN
  /\ b # Null /\ blk[b].used /\ x =< BinToSize(blk[b].bin) /\ blk[b].ptr # Null

CopyPin(t, h, x) ==
  LET b == handles[h] IN
  /\ Enter(t) /\ Copyable(h, x)
  /\ blk' = [blk EXCEPT ![b].pins = @ + 1]
  /\ Goto(t, "copy", [blk |-> b, ptr |-> blk[b].ptr])
  /\ UNCHANGED <<hip, pool, bins, handles, vram, asked, streams, pending, devVars>>

CopyUnpin(t) ==
  /\ pc[t] = "copy"
  /\ blk' = Unpin(loc[t].blk)
  /\ Return(t)
  /\ UNCHANGED <<hip, pool, bins, handles, vram, asked, streams, pending, devVars>>

(***************************************************************************)
(* oo_gpu_copy_h2d_async and oo_gpu_copy_d2h_async: the stream handle is   *)
(* tested before locking, and read again under the lock, where a pending   *)
(* slot is claimed and the block pinned.  After unlocking the copy is      *)
(* queued; if that fails pin and slot are given back.                      *)
(***************************************************************************)
AsyncCheck(t, s) ==
  /\ Enter(t) /\ t \in Streamers /\ streams[s] # Null
  /\ Goto(t, "claim", s)
  /\ UNCHANGED <<hip, poolVars, streams, pending, devVars>>

FreePending == {i \in Pending : pending[i] = Null}

AsyncClaim(t, h, x) ==
  LET b == handles[h]
      s == loc[t]
      i == Min(FreePending)
  IN
  /\ pc[t] = "claim"
  /\ IF Copyable(h, x) /\ FreePending # {}
       THEN /\ pending' = [pending EXCEPT ![i] = [blk |-> b, stream |-> s]]
            /\ blk' = [blk EXCEPT ![b].pins = @ + 1]
            /\ Goto(t, "enqueue", [blk |-> b, ptr |-> blk[b].ptr, slot |-> i,
                                   stream |-> streams[s]])
       ELSE Return(t) /\ UNCHANGED <<pending, blk>>
  /\ UNCHANGED <<hip, pool, bins, handles, vram, asked, streams, devVars>>

AsyncQueued(t) ==
  /\ pc[t] = "enqueue" /\ Cardinality(dma) < MaxDma
  /\ LET id == Min(1 .. MaxDma \ {d.id : d \in dma}) IN
       dma' = dma \cup {[id |-> id, blk |-> loc[t].blk, ptr |-> loc[t].ptr,
                         stream |-> loc[t].stream]}
  /\ Return(t)
  /\ UNCHANGED <<hip, poolVars, streams, pending, devMem, devStreams>>

\* Mutant: the failure path forgets the slot.
AsyncFailedKeepsSlot(t) ==
  /\ pc[t] = "enqueue"
  /\ blk' = Unpin(loc[t].blk)
  /\ Return(t)
  /\ UNCHANGED <<hip, pool, bins, handles, vram, asked, streams, pending, devVars>>

AsyncFailed(t) ==
  /\ pc[t] = "enqueue"
  /\ blk' = Unpin(loc[t].blk)
  /\ pending' = [pending EXCEPT ![loc[t].slot] = Null]
  /\ Return(t)
  /\ UNCHANGED <<hip, pool, bins, handles, vram, asked, streams, devVars>>

\* The device finishes a copy.
DmaDone(d) ==
  /\ dma' = dma \ {d}
  /\ UNCHANGED <<hip, poolVars, streams, pending, pc, loc, devMem, devStreams>>

-----------------------------------------------------------------------------
(***************************************************************************)
(* The loop over g_pending_copies in stream_destroy, stream_sync, gpu_sync *)
(* and pool_purge: slots in S are emptied, each taking a pin off its       *)
(* block.                                                                  *)
(***************************************************************************)
OfStream(s) == {i \in Pending : pending[i] # Null /\ pending[i].stream = s}
AllPending  == {i \in Pending : pending[i] # Null}

Released(S) ==
  [b \in Blocks |->
     LET k == Cardinality({i \in S : pending[i].blk = b})
     IN  [blk[b] EXCEPT !.pins = IF @ > k THEN @ - k ELSE 0]]

Release(S) ==
  /\ blk' = Released(S)
  /\ pending' = [i \in Pending |-> IF i \in S THEN Null ELSE pending[i]]

(***************************************************************************)
(* oo_gpu_stream_create.  (A full table destroys the new stream again.)    *)
(***************************************************************************)
FreeStreams == {s \in Streams : streams[s] = Null}

StreamCreate(t, o) ==
  /\ Enter(t) /\ t \in Streamers /\ o \in StreamObjs \ devStreams
  /\ FreeStreams # {}
  /\ streams' = [streams EXCEPT ![Min(FreeStreams)] = o]
  /\ devStreams' = devStreams \cup {o}
  /\ UNCHANGED <<hip, poolVars, pending, pc, loc, devMem, dma>>

Quiet(o) == \A d \in dma : d.stream # o

(***************************************************************************)
(* oo_gpu_stream_destroy: read the handle, wait for the stream, destroy    *)
(* it, then drop the handle and the stream's pending copies.  An error of  *)
(* the device ends the call.                                               *)
(***************************************************************************)
DestroyRead(t, s) ==
  /\ Enter(t) /\ t \in Streamers
  /\ Goto(t, IF streams[s] = Null THEN "drop" ELSE "destroyWait",
          [handle |-> s, obj |-> streams[s]])
  /\ UNCHANGED <<hip, poolVars, streams, pending, devVars>>

DestroyWait(t) ==
  /\ pc[t] = "destroyWait"
  /\ \/ Quiet(loc[t].obj) /\ Goto(t, "destroy", loc[t])
     \/ Return(t)
  /\ UNCHANGED <<hip, poolVars, streams, pending, devVars>>

DestroyStream(t) ==
  /\ pc[t] = "destroy"
  /\ \/ devStreams' = devStreams \ {loc[t].obj} /\ Goto(t, "drop", loc[t])
     \/ Return(t) /\ UNCHANGED devStreams
  /\ UNCHANGED <<hip, poolVars, streams, pending, devMem, dma>>

DestroyDrop(t) ==
  /\ pc[t] = "drop"
  /\ Release(OfStream(loc[t].handle))
  /\ streams' = [streams EXCEPT ![loc[t].handle] = Null]
  /\ Return(t)
  /\ UNCHANGED <<hip, pool, bins, handles, vram, asked, devVars>>

(***************************************************************************)
(* oo_gpu_stream_sync: wait for the stream, then release its copies (also  *)
(* when the wait fails).                                                   *)
(***************************************************************************)
SyncRead(t, s) ==
  /\ Enter(t) /\ t \in Streamers
  /\ Goto(t, IF streams[s] = Null THEN "release" ELSE "syncWait",
          [handle |-> s, obj |-> streams[s]])
  /\ UNCHANGED <<hip, poolVars, streams, pending, devVars>>

SyncWait(t) ==
  /\ pc[t] = "syncWait" /\ (Quiet(loc[t].obj) \/ SyncFails)
  /\ Goto(t, "release", loc[t])
  /\ UNCHANGED <<hip, poolVars, streams, pending, devVars>>

SyncRelease(t) ==
  /\ pc[t] = "release"
  /\ Release(OfStream(loc[t].handle))
  /\ Return(t)
  /\ UNCHANGED <<hip, pool, bins, handles, vram, asked, streams, devVars>>

(***************************************************************************)
(* oo_gpu_sync: the same for the whole device.                             *)
(***************************************************************************)
DeviceSync(t) ==
  /\ Enter(t) /\ t \in Streamers
  /\ Goto(t, "deviceWait", Null)
  /\ UNCHANGED <<hip, poolVars, streams, pending, devVars>>

DeviceWait(t) ==
  /\ pc[t] = "deviceWait" /\ (dma = {} \/ SyncFails)
  /\ Goto(t, "releaseAll", Null)
  /\ UNCHANGED <<hip, poolVars, streams, pending, devVars>>

DeviceRelease(t) ==
  /\ pc[t] = "releaseAll"
  /\ Release(AllPending)
  /\ Return(t)
  /\ UNCHANGED <<hip, pool, bins, handles, vram, asked, streams, devVars>>

(***************************************************************************)
(* oo_gpu_pool_purge: wait for the device (an error ends the call),        *)
(* release every pending copy, refuse if a block is still pinned or in     *)
(* use, and otherwise free all blocks and their memory.                    *)
(***************************************************************************)
PurgeStart(t) ==
  /\ Enter(t) /\ t \in Owners
  /\ Goto(t, "purgeWait", Null)
  /\ UNCHANGED <<hip, poolVars, streams, pending, devVars>>

PurgeWait(t) ==
  /\ pc[t] = "purgeWait"
  /\ \/ dma = {} /\ Goto(t, "purge", Null)
     \/ Return(t)
  /\ UNCHANGED <<hip, poolVars, streams, pending, devVars>>

PurgePool(t) ==
  /\ pc[t] = "purge"
  /\ pending' = [i \in Pending |-> Null]
  /\ IF \E b \in pool : Released(AllPending)[b].pins > 0 \/ blk[b].used
       THEN blk' = Released(AllPending) /\ UNCHANGED <<pool, bins, handles, vram, asked, devMem>>
       ELSE /\ devMem' = devMem \ {blk[b].ptr : b \in pool}
            /\ blk' = [b \in Blocks |-> Fresh]
            /\ pool' = {} /\ bins' = [n \in Bins |-> << >>]
            /\ handles' = [h \in Handles |-> Null] /\ asked' = [h \in Handles |-> 0]
            /\ vram' = 0
  /\ Return(t)
  /\ UNCHANGED <<hip, streams, devStreams, dma>>

-----------------------------------------------------------------------------
Next ==
  \/ \E t \in Threads :
       \/ GpuInit(t)
       \/ \E x \in Sizes, p \in Ptrs \cup {Null} : AllocReuse(t, x, p)
       \/ \E x \in Sizes, b \in Blocks, p \in Ptrs : AllocNew(t, x, b, p)
       \/ \E h \in Handles : FreeBlock(t, h)
       \/ FreeDevice(t) \/ FreeClear(t)
       \/ \E h \in Handles, x \in Sizes : CopyPin(t, h, x)
       \/ CopyUnpin(t)
       \/ \E s \in Streams : AsyncCheck(t, s)
       \/ \E h \in Handles, x \in Sizes : AsyncClaim(t, h, x)
       \/ AsyncQueued(t) \/ AsyncFailed(t)
       \/ \E o \in StreamObjs : StreamCreate(t, o)
       \/ \E s \in Streams : DestroyRead(t, s) \/ SyncRead(t, s)
       \/ DestroyWait(t) \/ DestroyStream(t) \/ DestroyDrop(t)
       \/ SyncWait(t) \/ SyncRelease(t)
       \/ DeviceSync(t) \/ DeviceWait(t) \/ DeviceRelease(t)
       \/ PurgeStart(t) \/ PurgeWait(t) \/ PurgePool(t)
  \/ \E d \in dma : DmaDone(d)

Spec == Init /\ [][Next]_vars

-----------------------------------------------------------------------------
\* What each block behind a handle counts for in the total.
Active == [b \in Blocks |-> IF b \in pool /\ blk[b].used THEN BinToSize(blk[b].bin) ELSE 0]

(***************************************************************************)
(* Every block of the pool is in exactly one place: on the free list of    *)
(* its bin, once, or behind exactly one handle; and g_vram_total_active is *)
(* the size of the blocks behind handles.  buffer_alloc, buffer_free and   *)
(* pool_purge keep the four tables in step on every path, a full handle    *)
(* table and a refusing device included.                                   *)
(***************************************************************************)
PoolSound ==
  /\ \A n \in Bins :
       /\ IsInjective(bins[n])
       /\ ToSet(bins[n]) = {b \in pool : blk[b].bin = n /\ ~blk[b].used}
  /\ \A b \in pool :
       Cardinality({h \in Handles : handles[h] = b}) = (IF blk[b].used THEN 1 ELSE 0)
  /\ \A h \in Handles : handles[h] # Null => handles[h] \in pool
  /\ vram = SumFunction(Active)

(***************************************************************************)
(* A handle that buffer_alloc returned is backed by device memory of its   *)
(* own, at least as large as was asked for, until it is freed: no path of  *)
(* free, reuse and purge leaves a handle on memory given back to the       *)
(* device.                                                                 *)
(***************************************************************************)
HandlesBacked ==
  \A h \in Handles : handles[h] # Null =>
    LET b == handles[h] IN
    /\ blk[b].ptr \in devMem
    /\ BinToSize(blk[b].bin) >= asked[h]
    /\ \A g \in Handles \ {h} : handles[g] # Null => blk[handles[g]].ptr # blk[b].ptr

(***************************************************************************)
(* in_flight_copies is exact: it counts the copies that run and the        *)
(* pending slots of the block, no more and no less, and a block the device *)
(* still copies to or from is pinned and in use.  So buffer_free refuses   *)
(* exactly the buffers with a copy in flight, and no pin is left behind    *)
(* that would make a buffer impossible to free.                            *)
(***************************************************************************)
PinsExact ==
  /\ \A b \in pool :
       blk[b].pins = Cardinality({t \in Threads : pc[t] = "copy" /\ loc[t].blk = b})
                   + Cardinality({i \in AllPending : pending[i].blk = b})
  /\ \A d \in dma : d.blk \in pool /\ blk[d.blk].used /\ blk[d.blk].pins > 0

(***************************************************************************)
(* The pool's tables, the device memory behind the handles and the pins of *)
(* copies in flight agree, whatever allocations, frees, copies, stream     *)
(* calls and purges interleave.                                            *)
(***************************************************************************)
GpuSound == TypeOK /\ PoolSound /\ HandlesBacked /\ PinsExact
=============================================================================
