------------------------------ MODULE GpuProofs ------------------------------
(***************************************************************************)
(* The device-memory pool is sound for any number of handles, streams,     *)
(* pending slots, blocks and threads that copy synchronously, as long as   *)
(* one thread owns buffers and streams and a synchronise that fails finds  *)
(* no copies under way.                                                    *)
(***************************************************************************)
EXTENDS Gpu, SetFacts, SequenceTheorems

OneUser == \A t, u \in Owners \cup Streamers : t = u

Objs    == StreamObjs \cup {Null}
OnBlock == [blk : Blocks, ptr : Ptrs]
OnSlot  == [blk : Blocks, ptr : Ptrs, slot : Pending, stream : Objs]
OnStream == [handle : Streams, obj : Objs]

GTypeOK ==
  /\ TypeOK
  /\ loc = [t \in Threads |-> loc[t]]
  /\ IsFiniteSet(dma)

\* Before oo_gpu_init has found the runtime nothing has happened.
Untouched == hip # "ok" => pool = {} /\ dma = {} /\ \A t \in Threads : pc[t] = "idle"

\* Only the one user is ever inside a call other than a synchronous copy.
UserAlone ==
  \A t \in Threads : pc[t] \notin {"idle", "copy"} => t \in Owners \cup Streamers

\* What a thread carries at each place.
FreeLocal(t) ==
  pc[t] \in {"hipFree", "clear"} =>
    /\ loc[t] \in OnBlock
    /\ loc[t].blk \in pool /\ ~blk[loc[t].blk].used /\ blk[loc[t].blk].ptr = loc[t].ptr

CopyLocal(t) ==
  pc[t] = "copy" => loc[t] \in OnBlock /\ loc[t].blk \in pool /\ blk[loc[t].blk].used

AsyncLocal(t) ==
  /\ pc[t] = "claim" => loc[t] \in Streams /\ streams[loc[t]] # Null
  /\ pc[t] = "enqueue" =>
       /\ loc[t] \in OnSlot /\ loc[t].stream # Null
       /\ pending[loc[t].slot] # Null
       /\ pending[loc[t].slot].blk = loc[t].blk
       /\ streams[pending[loc[t].slot].stream] = loc[t].stream

StreamLocal(t) ==
  /\ pc[t] \in {"destroyWait", "destroy", "drop", "syncWait", "release"} =>
       loc[t] \in OnStream /\ streams[loc[t].handle] = loc[t].obj
  /\ pc[t] \in {"destroy", "drop", "release"} => Quiet(loc[t].obj)
  /\ pc[t] \in {"releaseAll", "purge"} => dma = {}

GLocal == \A t \in Threads : FreeLocal(t) /\ CopyLocal(t) /\ AsyncLocal(t) /\ StreamLocal(t)

\* The free lists and the handles.
FreeLists ==
  \A n \in Bins :
    /\ IsInjective(bins[n])
    /\ ToSet(bins[n]) = {b \in pool : blk[b].bin = n /\ ~blk[b].used}

HandlesOne ==
  /\ \A h \in Handles : handles[h] # Null => handles[h] \in pool /\ blk[handles[h]].used
  /\ \A b \in pool : blk[b].used => \E h \in Handles : handles[h] = b
  /\ \A g, h \in Handles : handles[g] = handles[h] /\ handles[g] # Null => g = h

VramExact == vram = SumFunction(Active)

\* Device memory: each block its own, allocated unless a free has just returned it.
Memories ==
  /\ \A b, c \in pool : b # c /\ blk[b].ptr # Null => blk[b].ptr # blk[c].ptr
  /\ \A b \in pool : blk[b].used => blk[b].ptr # Null
  /\ \A b \in pool : blk[b].ptr # Null =>
       blk[b].ptr \in devMem \/ \E t \in Threads : pc[t] = "clear" /\ loc[t].blk = b
  /\ \A h \in Handles : handles[h] # Null => BinToSize(blk[handles[h]].bin) >= asked[h]

\* Pins: exact, and every queued copy has a slot that no enqueue under way may give back.
Copying(b) == {t \in Threads : pc[t] = "copy" /\ loc[t].blk = b}
Claimed(b) == {i \in AllPending : pending[i].blk = b}

PinsCount == \A b \in pool : blk[b].pins = Cardinality(Copying(b)) + Cardinality(Claimed(b))

SlotsUsed == \A i \in Pending : pending[i] # Null => pending[i].blk \in pool /\ blk[pending[i].blk].used

HasSlot(d) ==
  \E i \in Pending :
    /\ pending[i] # Null /\ pending[i].blk = d.blk
    /\ streams[pending[i].stream] = d.stream
    /\ \A t \in Threads : pc[t] = "enqueue" => loc[t].slot # i

DmaHasSlot == \A d \in dma : d.stream # Null /\ HasSlot(d)

GIInv ==
  /\ GTypeOK /\ Untouched /\ UserAlone /\ GLocal
  /\ FreeLists /\ HandlesOne /\ VramExact /\ Memories
  /\ PinsCount /\ SlotsUsed /\ DmaHasSlot
-----------------------------------------------------------------------------
(* Sizes, free lists, the total.                                           *)

\* The bin of a request is as large as the request.
LEMMA SizeFits ==
  ASSUME NEW x \in Sizes
  PROVE  /\ SizeToBin(x) \in Bins
         /\ BinToSize(SizeToBin(x)) \in Nat
         /\ BinToSize(SizeToBin(x)) >= x
<1> DEFINE T == {n \in Bins : BinToSize(n) >= x} \cup {NBins - 1}
<1>1. T \in SUBSET Nat /\ T # {} /\ T \subseteq Bins
  BY BinsAssumption DEF Bins
<1>2. PICK m : m = SizeToBin(x)
  OBVIOUS
<1>3. m \in T
  BY <1>1, <1>2, MinProperties DEF SizeToBin
<1>4. BinToSize(m) \in Nat /\ m \in Bins
  BY <1>1, <1>3, BinsAssumption DEF BinToSize
<1>5. BinToSize(NBins - 1) >= x
  <2>1. NBins - 1 \in Bins
    BY <1>1
  <2> QED BY <2>1, BinsAssumption DEF BinToSize
<1>6. BinToSize(m) >= x
  BY <1>3, <1>5
<1> QED BY <1>2, <1>4, <1>6

\* A block put on a free list it is not on leaves the list without repetition.
LEMMA PushFree ==
  ASSUME NEW S, NEW s \in Seq(S), NEW b \in S, IsInjective(s), b \notin ToSet(s)
  PROVE  /\ <<b>> \o s \in Seq(S) /\ IsInjective(<<b>> \o s)
         /\ ToSet(<<b>> \o s) = ToSet(s) \cup {b}
<1> DEFINE r == <<b>> \o s
<1>1. /\ r \in Seq(S) /\ Len(r) = Len(s) + 1 /\ r[1] = b
      /\ \A i \in 1 .. Len(s) : r[i + 1] = s[i]
      /\ \A i \in 2 .. Len(r) : i - 1 \in 1 .. Len(s) /\ r[i] = s[i - 1]
      /\ DOMAIN r = 1 .. Len(r) /\ DOMAIN s = 1 .. Len(s) /\ Len(s) \in Nat
  OBVIOUS
<1> HIDE DEF r
<1>2. \A i \in 1 .. Len(s) : s[i] # b
  BY <1>1 DEF ToSet
<1>3. IsInjective(r)
  <2> SUFFICES ASSUME NEW i \in 1 .. Len(r), NEW j \in 1 .. Len(r), r[i] = r[j] PROVE i = j
    BY <1>1 DEF IsInjective
  <2>1. CASE i = 1 \/ j = 1
    BY <1>1, <1>2, <2>1
  <2>2. CASE i # 1 /\ j # 1
    <3>1. i - 1 \in 1 .. Len(s) /\ j - 1 \in 1 .. Len(s) /\ s[i - 1] = s[j - 1]
      BY <1>1, <2>2
    <3>2. i - 1 = j - 1
      BY <1>1, <3>1 DEF IsInjective
    <3> QED BY <1>1, <3>2
  <2> QED BY <2>1, <2>2
<1>4. ToSet(r) = ToSet(s) \cup {b}
  <2>1. ASSUME NEW y \in ToSet(r) PROVE y \in ToSet(s) \cup {b}
    <3>1. PICK i \in 1 .. Len(r) : y = r[i]
      BY <1>1 DEF ToSet
    <3>2. CASE i # 1
      <4>1. i \in 2 .. Len(r)
        BY <1>1, <3>2
      <4> QED BY <1>1, <3>1, <4>1 DEF ToSet
    <3> QED BY <1>1, <3>1, <3>2
  <2>2. ASSUME NEW y \in ToSet(s) PROVE y \in ToSet(r)
    <3>1. PICK i \in 1 .. Len(s) : y = s[i]
      BY <1>1 DEF ToSet
    <3>2. i + 1 \in 1 .. Len(r) /\ r[i + 1] = y
      BY <1>1, <3>1
    <3> QED BY <1>1, <3>2 DEF ToSet
  <2>3. b \in ToSet(r)
    <3>1. 1 \in 1 .. Len(r)
      BY <1>1
    <3> QED BY <1>1, <3>1 DEF ToSet
  <2> QED BY <2>1, <2>2, <2>3
<1> QED BY <1>1, <1>3, <1>4 DEF r

\* Taking the first block off a free list takes exactly that block.
LEMMA TailFree ==
  ASSUME NEW S, NEW s \in Seq(S), s # << >>, IsInjective(s)
  PROVE  /\ Head(s) \in S /\ Head(s) \in ToSet(s)
         /\ Tail(s) \in Seq(S) /\ IsInjective(Tail(s))
         /\ ToSet(Tail(s)) = ToSet(s) \ {Head(s)}
<1> DEFINE r == Tail(s)
<1>1. /\ r \in Seq(S) /\ Len(r) = Len(s) - 1 /\ Head(s) = s[1] /\ Len(s) \in Nat /\ Len(s) >= 1
      /\ \A i \in 1 .. Len(r) : i + 1 \in 1 .. Len(s) /\ r[i] = s[i + 1]
      /\ \A i \in 2 .. Len(s) : i - 1 \in 1 .. Len(r) /\ s[i] = r[i - 1]
      /\ DOMAIN r = 1 .. Len(r) /\ DOMAIN s = 1 .. Len(s)
  OBVIOUS
<1> HIDE DEF r
<1>2. 1 \in 1 .. Len(s)
  BY <1>1
<1>3. \A i \in 1 .. Len(r) : r[i] # s[1]
  <2> SUFFICES ASSUME NEW i \in 1 .. Len(r), r[i] = s[1] PROVE FALSE
    OBVIOUS
  <2>1. i + 1 = 1
    BY <1>1, <1>2 DEF IsInjective
  <2> QED BY <1>1, <2>1
<1>4. IsInjective(r)
  <2> SUFFICES ASSUME NEW i \in 1 .. Len(r), NEW j \in 1 .. Len(r), r[i] = r[j] PROVE i = j
    BY <1>1 DEF IsInjective
  <2>1. i + 1 = j + 1
    BY <1>1 DEF IsInjective
  <2> QED BY <1>1, <2>1
<1>5. ToSet(r) = ToSet(s) \ {s[1]}
  <2>1. ASSUME NEW y \in ToSet(r) PROVE y \in ToSet(s) \ {s[1]}
    <3>1. PICK i \in 1 .. Len(r) : y = r[i]
      BY <1>1 DEF ToSet
    <3> QED BY <1>1, <1>3, <3>1 DEF ToSet
  <2>2. ASSUME NEW y \in ToSet(s), y # s[1] PROVE y \in ToSet(r)
    <3>1. PICK i \in 1 .. Len(s) : y = s[i]
      BY <1>1 DEF ToSet
    <3>2. i \in 2 .. Len(s)
      BY <1>1, <2>2, <3>1
    <3> QED BY <1>1, <3>1, <3>2 DEF ToSet
  <2> QED BY <2>1, <2>2
<1>6. s[1] \in S /\ s[1] \in ToSet(s)
  BY <1>1, <1>2 DEF ToSet
<1> QED BY <1>1, <1>4, <1>5, <1>6 DEF r

\* A function of naturals that changes at one place, and its sum.
LEMMA SumMoves ==
  ASSUME NEW S, IsFiniteSet(S), NEW v \in [S -> Nat], NEW w \in [S -> Nat], NEW b \in S,
         \A c \in S \ {b} : w[c] = v[c]
  PROVE  /\ SumFunction(w) = SumFunction(v) - v[b] + w[b]
         /\ SumFunction(v) \in Nat /\ SumFunction(w) \in Nat
<1>1. w = [v EXCEPT ![b] = w[b]]
  OBVIOUS
<1>2. v \in [S -> Int] /\ w[b] \in Int
  OBVIOUS
<1>3. SumFunction(w) = SumFunction(v) - v[b] + w[b]
  BY <1>1, <1>2, SumChange
<1> QED BY <1>3, SumOfNaturals

\* The sizes summed by the total of used memory are natural.
LEMMA ActiveType ==
  ASSUME TypeOK PROVE Active \in [Blocks -> Nat]
<1>1. \A b \in Blocks : blk[b].bin \in Bins /\ BinToSize(blk[b].bin) \in Nat
  BY BinsAssumption DEF TypeOK, BinToSize
<1> QED BY <1>1 DEF Active

\* Two finite sets that differ by one element.
LEMMA CardStep ==
  ASSUME NEW X, IsFiniteSet(X), NEW x
  PROVE  /\ Cardinality(X) \in Nat
         /\ x \notin X => Cardinality(X \cup {x}) = Cardinality(X) + 1
         /\ x \in X => Cardinality(X \ {x}) = Cardinality(X) - 1 /\ Cardinality(X) > 0
<1>1. Cardinality(X) \in Nat
  BY FS_CardinalityType
<1>2. x \notin X => Cardinality(X \cup {x}) = Cardinality(X) + 1
  BY FS_AddElement
<1>3. x \in X => Cardinality(X \ {x}) = Cardinality(X) - 1
  BY FS_RemoveElement
<1>4. x \in X => Cardinality(X) # 0
  BY FS_EmptySet
<1> QED BY <1>1, <1>2, <1>3, <1>4

\* What pins are counted over is finite.
LEMMA CountedSets ==
  ASSUME NEW b
  PROVE  IsFiniteSet(Copying(b)) /\ IsFiniteSet(Claimed(b)) /\ IsFiniteSet(AllPending)
<1>1. IsFiniteSet(Pending) /\ IsFiniteSet(Threads)
  <2>1. 0 \in Int /\ NPending - 1 \in Int
    BY SlotsAssumption
  <2> QED BY <2>1, FS_Interval, UsersAssumption DEF Pending
<1>2. Copying(b) \subseteq Threads /\ AllPending \subseteq Pending /\ Claimed(b) \subseteq Pending
  BY DEF Copying, Claimed, AllPending
<1> QED BY <1>1, <1>2, FS_Subset
-----------------------------------------------------------------------------
(* What steps leave alone.                                                 *)

SameBlocks ==
  \A b \in Blocks :
    blk'[b].ptr = blk[b].ptr /\ blk'[b].bin = blk[b].bin /\ blk'[b].used = blk[b].used

OthersStay(t) == \A u \in Threads \ {t} : pc'[u] = pc[u] /\ loc'[u] = loc[u]

AllLocal(t) == FreeLocal(t) /\ CopyLocal(t) /\ AsyncLocal(t) /\ StreamLocal(t)

\* While the user is in a call the others are idle or copy synchronously.
LEMMA Alone ==
  ASSUME GIInv, OneUser, NEW t \in Owners \cup Streamers
  PROVE  \A u \in Threads \ {t} : pc[u] \in {"idle", "copy"}
BY DEF GIInv, UserAlone, OneUser

\* A thread inside a call found the runtime present; only copies need no owner.
LEMMA Running ==
  ASSUME GIInv, NEW t \in Threads, pc[t] # "idle"
  PROVE  hip = "ok" /\ (pc[t] # "copy" => t \in Owners \cup Streamers)
BY DEF GIInv, Untouched, UserAlone

\* Goto moves one thread and leaves the others.
LEMMA GotoFacts ==
  ASSUME GIInv, NEW t \in Threads, NEW l, NEW x, Goto(t, l, x)
  PROVE  /\ pc'[t] = l /\ loc'[t] = x /\ OthersStay(t)
         /\ pc' = [u \in Threads |-> IF u = t THEN l ELSE pc[u]]
         /\ loc' = [u \in Threads |-> IF u = t THEN x ELSE loc[u]]
BY DEF GIInv, GTypeOK, TypeOK, Goto, OthersStay

\* A step that keeps ptr, bin and used of every block keeps lists, handles and total.
LEMMA PoolFrame ==
  ASSUME GIInv, SameBlocks, UNCHANGED <<pool, bins, handles, vram>>
  PROVE  (FreeLists /\ HandlesOne /\ VramExact)'
<1>0. pool \subseteq Blocks
  BY DEF GIInv, GTypeOK, TypeOK
<1>1. FreeLists'
  <2> SUFFICES ASSUME NEW n \in Bins
               PROVE  IsInjective(bins'[n]) /\ ToSet(bins'[n]) = {b \in pool' : blk'[b].bin = n /\ ~blk'[b].used}
    BY DEF FreeLists
  <2>1. IsInjective(bins[n]) /\ ToSet(bins[n]) = {b \in pool : blk[b].bin = n /\ ~blk[b].used}
    BY DEF GIInv, FreeLists
  <2>2. {b \in pool' : blk'[b].bin = n /\ ~blk'[b].used} = {b \in pool : blk[b].bin = n /\ ~blk[b].used}
    BY <1>0 DEF SameBlocks
  <2> QED BY <2>1, <2>2
<1>2. HandlesOne'
  BY <1>0 DEF GIInv, HandlesOne, SameBlocks
<1>3. VramExact'
  <2>1. Active' = Active
    BY <1>0 DEF Active, SameBlocks
  <2> QED BY <2>1 DEF GIInv, VramExact
<1> QED BY <1>1, <1>2, <1>3

\* A step that leaves device memory and the frees under way alone keeps Memories.
LEMMA MemFrame ==
  ASSUME GIInv, SameBlocks, UNCHANGED <<pool, handles, asked, devMem>>,
         \A t \in Threads : pc[t] = "clear" => pc'[t] = "clear" /\ loc'[t] = loc[t]
  PROVE  Memories'
<1>0. pool \subseteq Blocks
  BY DEF GIInv, GTypeOK, TypeOK
<1>1. \A h \in Handles : handles[h] # Null => handles[h] \in Blocks
  BY DEF GIInv, GTypeOK, TypeOK
<1> QED BY <1>0, <1>1 DEF GIInv, Memories, SameBlocks

\* A step that leaves pins, pending slots and copies alone keeps the count of pins.
LEMMA PinFrame ==
  ASSUME GIInv, SameBlocks, UNCHANGED <<pool, pending>>,
         \A b \in pool : blk'[b].pins = blk[b].pins,
         \A t \in Threads : (pc'[t] = "copy" <=> pc[t] = "copy") /\ (pc[t] = "copy" => loc'[t] = loc[t])
  PROVE  (PinsCount /\ SlotsUsed)'
<1>0. pool \subseteq Blocks
  BY DEF GIInv, GTypeOK, TypeOK
<1>1. \A b : Copying(b)' = Copying(b) /\ Claimed(b)' = Claimed(b)
  BY DEF Copying, Claimed, AllPending
<1>2. PinsCount'
  BY <1>1 DEF GIInv, PinsCount
<1>3. SlotsUsed'
  BY <1>0 DEF GIInv, SlotsUsed, SameBlocks
<1> QED BY <1>2, <1>3

\* A copy that ends, or a step without copies, keeps every queued copy in its slot.
LEMMA DmaFrame ==
  ASSUME GIInv, dma' \subseteq dma, UNCHANGED <<pending, streams>>,
         \A t \in Threads : pc'[t] = "enqueue" => pc[t] = "enqueue" /\ loc'[t] = loc[t]
  PROVE  DmaHasSlot'
<1> SUFFICES ASSUME NEW d \in dma' PROVE d.stream # Null /\ HasSlot(d)'
  BY DEF DmaHasSlot
<1>1. d.stream # Null /\ HasSlot(d)
  BY DEF GIInv, DmaHasSlot
<1> QED BY <1>1 DEF HasSlot

\* What the other threads know stays true when the blocks they copy stay.
LEMMA OthersLocal ==
  ASSUME GIInv, OneUser, NEW t \in Owners \cup Streamers, OthersStay(t),
         \A u \in Threads \ {t} : pc[u] = "copy" => loc[u].blk \in pool' /\ blk'[loc[u].blk].used,
         AllLocal(t)'
  PROVE  GLocal'
<1> SUFFICES ASSUME NEW u \in Threads \ {t} PROVE AllLocal(u)'
  BY DEF GLocal, AllLocal
<1>1. pc[u] \in {"idle", "copy"} /\ pc'[u] = pc[u] /\ loc'[u] = loc[u]
  BY Alone DEF OthersStay
<1>2. FreeLocal(u)' /\ AsyncLocal(u)' /\ StreamLocal(u)'
  BY <1>1 DEF FreeLocal, AsyncLocal, StreamLocal
<1>3. CopyLocal(u)'
  BY <1>1 DEF CopyLocal, GIInv, GLocal
<1> QED BY <1>2, <1>3 DEF AllLocal

\* A step of one thread has to be looked at for that thread's own place only.
LEMMA LocalFrame ==
  ASSUME GIInv, NEW t \in Threads, OthersStay(t), SameBlocks,
         UNCHANGED <<pool, streams, pending>>, dma' \subseteq dma, AllLocal(t)'
  PROVE  GLocal'
<1> SUFFICES ASSUME NEW u \in Threads \ {t} PROVE AllLocal(u)'
  BY DEF GLocal, AllLocal
<1>0. pool \subseteq Blocks
  BY DEF GIInv, GTypeOK, TypeOK
<1>1. pc'[u] = pc[u] /\ loc'[u] = loc[u] /\ FreeLocal(u) /\ CopyLocal(u) /\ AsyncLocal(u) /\ StreamLocal(u)
  BY DEF OthersStay, GIInv, GLocal
<1>2. FreeLocal(u)' /\ CopyLocal(u)'
  BY <1>0, <1>1 DEF FreeLocal, CopyLocal, SameBlocks
<1>3. AsyncLocal(u)'
  BY <1>1 DEF AsyncLocal
<1>4. StreamLocal(u)'
  BY <1>1 DEF StreamLocal, Quiet
<1> QED BY <1>2, <1>3, <1>4 DEF AllLocal

Places == {"idle", "hipFree", "clear", "copy", "claim", "enqueue", "destroyWait", "destroy", "syncWait",
           "release", "drop", "deviceWait", "releaseAll", "purgeWait", "purge"}

\* A step of the user that changes nothing but its place (and the device's streams).
LEMMA MoveKeeps ==
  ASSUME GIInv, NEW t \in Owners \cup Streamers, NEW l \in Places, NEW x, Goto(t, l, x), hip = "ok",
         {pc[t], l} \cap {"copy", "clear", "enqueue"} = {},
         UNCHANGED <<hip, poolVars, streams, pending, devMem, dma>>, devStreams' \subseteq StreamObjs,
         (AsyncLocal(t) /\ FreeLocal(t) /\ StreamLocal(t))'
  PROVE  GIInv'
<1>0. t \in Threads
  BY UsersAssumption
<1>1. /\ pc'[t] = l /\ OthersStay(t)
      /\ pc' = [u \in Threads |-> IF u = t THEN l ELSE pc[u]]
      /\ loc' = [u \in Threads |-> IF u = t THEN x ELSE loc[u]]
  BY <1>0, GotoFacts
<1>2. SameBlocks /\ \A b \in pool : blk'[b].pins = blk[b].pins
  BY DEF poolVars, SameBlocks
<1>3. GTypeOK'
  BY <1>1 DEF GIInv, GTypeOK, TypeOK, Places, poolVars
<1>4. Untouched'
  BY DEF Untouched
<1>5. UserAlone'
  BY <1>0, <1>1 DEF GIInv, UserAlone, OthersStay
<1>6. GLocal'
  <2>1. CopyLocal(t)'
    BY <1>1 DEF CopyLocal
  <2> QED BY <1>0, <1>1, <1>2, <2>1, LocalFrame DEF AllLocal, poolVars
<1>7. (FreeLists /\ HandlesOne /\ VramExact)'
  BY <1>2, PoolFrame DEF poolVars
<1>8. Memories'
  BY <1>0, <1>1, <1>2, MemFrame DEF poolVars, OthersStay
<1>9. (PinsCount /\ SlotsUsed)'
  BY <1>0, <1>1, <1>2, PinFrame DEF poolVars, OthersStay
<1>10. DmaHasSlot'
  BY <1>0, <1>1, DmaFrame DEF OthersStay
<1> QED BY <1>3, <1>4, <1>5, <1>6, <1>7, <1>8, <1>9, <1>10 DEF GIInv

\* Read the stream, wait for it, destroy it; start and wait of the device-wide calls.
LEMMA WaitStep ==
  ASSUME GIInv, OneUser, ~SyncFails, NEW t \in Threads,
         \/ \E s \in Streams : AsyncCheck(t, s) \/ DestroyRead(t, s) \/ SyncRead(t, s)
         \/ DestroyWait(t) \/ DestroyStream(t) \/ SyncWait(t)
         \/ DeviceSync(t) \/ DeviceWait(t) \/ PurgeStart(t) \/ PurgeWait(t)
  PROVE  GIInv'
<1>0. devStreams \subseteq StreamObjs /\ streams \in [Streams -> Objs]
  BY DEF GIInv, GTypeOK, TypeOK, Objs
<1> DEFINE Fits(l, x) ==
      /\ l \in Places /\ {pc[t], l} \cap {"copy", "clear", "enqueue"} = {} /\ Goto(t, l, x)
      /\ l \notin {"hipFree"} /\ (l = "claim" => x \in Streams /\ streams[x] # Null)
      /\ l \in {"destroyWait", "destroy", "drop", "syncWait", "release"} =>
           x \in OnStream /\ streams[x.handle] = x.obj
      /\ l \in {"destroy", "drop", "release"} => Quiet(x.obj)
      /\ l \in {"releaseAll", "purge"} => dma = {}
      /\ t \in Owners \cup Streamers /\ hip = "ok"
      /\ UNCHANGED <<hip, poolVars, streams, pending, devMem, dma>> /\ devStreams' \subseteq StreamObjs
<1>1. ASSUME NEW l, NEW x, Fits(l, x) PROVE GIInv'
  <2>1. pc'[t] = l /\ loc'[t] = x
    BY <1>1, GotoFacts
  <2>2. (AsyncLocal(t) /\ FreeLocal(t) /\ StreamLocal(t))'
    BY <1>1, <2>1 DEF AsyncLocal, FreeLocal, StreamLocal, Quiet
  <2> QED BY <1>1, <2>2, MoveKeeps
<1>q. \A s \in Streams : streams[s] = Null => Quiet(streams[s])
  BY DEF GIInv, DmaHasSlot, Quiet
<1>2. ASSUME NEW s \in Streams, AsyncCheck(t, s) PROVE GIInv'
  <2>1. Fits("claim", s)
    BY <1>0, <1>2 DEF AsyncCheck, Enter, Places, devVars
  <2> QED BY <2>1, <1>1
<1>3. ASSUME NEW s \in Streams, DestroyRead(t, s) PROVE GIInv'
  <2>1. Fits(IF streams[s] = Null THEN "drop" ELSE "destroyWait", [handle |-> s, obj |-> streams[s]])
    BY <1>0, <1>3, <1>q DEF DestroyRead, Enter, Places, OnStream, devVars
  <2> QED BY <2>1, <1>1
<1>4. ASSUME NEW s \in Streams, SyncRead(t, s) PROVE GIInv'
  <2>1. Fits(IF streams[s] = Null THEN "release" ELSE "syncWait", [handle |-> s, obj |-> streams[s]])
    BY <1>0, <1>4, <1>q DEF SyncRead, Enter, Places, OnStream, devVars
  <2> QED BY <2>1, <1>1
<1>h. pc[t] # "idle" => hip = "ok" /\ (pc[t] # "copy" => t \in Owners \cup Streamers)
  BY Running
<1>l. StreamLocal(t)
  BY DEF GIInv, GLocal
<1>5. ASSUME DestroyWait(t) PROVE GIInv'
  <2>1. CASE Quiet(loc[t].obj) /\ Goto(t, "destroy", loc[t])
    <3>1. Fits("destroy", loc[t])
      BY <1>0, <1>5, <1>h, <1>l, <2>1 DEF DestroyWait, Places, devVars, StreamLocal
    <3> QED BY <3>1, <1>1
  <2>2. CASE Return(t)
    <3>1. Fits("idle", Null)
      BY <1>0, <1>5, <1>h, <2>2 DEF DestroyWait, Return, Places, devVars
    <3> QED BY <3>1, <1>1
  <2> QED BY <1>5, <2>1, <2>2 DEF DestroyWait
<1>6. ASSUME DestroyStream(t) PROVE GIInv'
  <2>1. CASE devStreams' = devStreams \ {loc[t].obj} /\ Goto(t, "drop", loc[t])
    <3>1. Fits("drop", loc[t])
      BY <1>0, <1>6, <1>h, <1>l, <2>1 DEF DestroyStream, Places, StreamLocal
    <3> QED BY <3>1, <1>1
  <2>2. CASE Return(t) /\ UNCHANGED devStreams
    <3>1. Fits("idle", Null)
      BY <1>0, <1>6, <1>h, <2>2 DEF DestroyStream, Return, Places
    <3> QED BY <3>1, <1>1
  <2> QED BY <1>6, <2>1, <2>2 DEF DestroyStream
<1>7. ASSUME SyncWait(t) PROVE GIInv'
  <2>1. Fits("release", loc[t])
    BY <1>0, <1>7, <1>h, <1>l DEF SyncWait, Places, devVars, StreamLocal
  <2> QED BY <2>1, <1>1
<1>8. ASSUME DeviceSync(t) PROVE GIInv'
  <2>1. Fits("deviceWait", Null)
    BY <1>0, <1>8 DEF DeviceSync, Enter, Places, devVars
  <2> QED BY <2>1, <1>1
<1>9. ASSUME DeviceWait(t) PROVE GIInv'
  <2>1. Fits("releaseAll", Null)
    BY <1>0, <1>9, <1>h DEF DeviceWait, Places, devVars
  <2> QED BY <2>1, <1>1
<1>10. ASSUME PurgeStart(t) PROVE GIInv'
  <2>1. Fits("purgeWait", Null)
    BY <1>0, <1>10 DEF PurgeStart, Enter, Places, devVars
  <2> QED BY <2>1, <1>1
<1>11. ASSUME PurgeWait(t) PROVE GIInv'
  <2>1. CASE dma = {} /\ Goto(t, "purge", Null)
    <3>1. Fits("purge", Null)
      BY <1>0, <1>11, <1>h, <2>1 DEF PurgeWait, Places, devVars
    <3> QED BY <3>1, <1>1
  <2>2. CASE Return(t)
    <3>1. Fits("idle", Null)
      BY <1>0, <1>11, <1>h, <2>2 DEF PurgeWait, Return, Places, devVars
    <3> QED BY <3>1, <1>1
  <2> QED BY <1>11, <2>1, <2>2 DEF PurgeWait
<1> QED BY <1>2, <1>3, <1>4, <1>5, <1>6, <1>7, <1>8, <1>9, <1>10, <1>11
-----------------------------------------------------------------------------
(* Pins.                                                                   *)

\* The block behind a handle that may be copied to or from.
LEMMA CopyableFacts ==
  ASSUME GIInv, NEW h \in Handles, NEW x, Copyable(h, x)
  PROVE  /\ handles[h] \in pool /\ handles[h] \in Blocks
         /\ blk[handles[h]].used /\ blk[handles[h]].ptr \in Ptrs
<1>1. handles[h] \in pool /\ handles[h] \in Blocks /\ blk[handles[h]].used
  BY DEF GIInv, GTypeOK, TypeOK, HandlesOne, Copyable
<1>2. blk[handles[h]].ptr \in Ptrs \cup {Null} /\ blk[handles[h]].ptr # Null
  BY <1>1 DEF GIInv, GTypeOK, TypeOK, Copyable
<1> QED BY <1>1, <1>2

\* One pin more or less.
LEMMA PinType ==
  ASSUME TypeOK, NEW b \in Blocks, NEW k \in Nat, blk' = [blk EXCEPT ![b].pins = k]
  PROVE  /\ blk' \in [Blocks -> [ptr : Ptrs \cup {Null}, bin : Bins, used : BOOLEAN, pins : Nat]]
         /\ SameBlocks /\ blk'[b].pins = k
         /\ \A c \in Blocks \ {b} : blk'[c] = blk[c]
BY DEF TypeOK, SameBlocks

\* Unpin of a pinned block takes one pin off.
LEMMA UnpinIs ==
  ASSUME NEW b, blk[b].pins > 0
  PROVE  Unpin(b) = [blk EXCEPT ![b].pins = blk[b].pins - 1]
<1>1. (IF blk[b].pins > 0 THEN blk[b].pins - 1 ELSE blk[b].pins) = blk[b].pins - 1
  OBVIOUS
<1> QED BY <1>1, Zenon DEF Unpin

\* A synchronous copy pins its block.
LEMMA CopyPinStep ==
  ASSUME GIInv, NEW t \in Threads, NEW h \in Handles, NEW x \in Sizes, CopyPin(t, h, x)
  PROVE  GIInv'
<1>1. PICK b : b = handles[h]
  OBVIOUS
<1>2. b \in pool /\ b \in Blocks /\ blk[b].used /\ blk[b].ptr \in Ptrs
  BY <1>1, CopyableFacts DEF CopyPin
<1>3. PICK j : j = [blk |-> b, ptr |-> blk[b].ptr]
  OBVIOUS
<1>4. /\ pc[t] = "idle" /\ hip = "ok" /\ Goto(t, "copy", j) /\ blk' = [blk EXCEPT ![b].pins = blk[b].pins + 1]
      /\ UNCHANGED <<hip, pool, bins, handles, vram, asked, streams, pending, devMem, devStreams, dma>>
  BY <1>1, <1>3 DEF CopyPin, Enter, devVars
<1>5. /\ pc'[t] = "copy" /\ loc'[t] = j /\ OthersStay(t)
      /\ pc' = [u \in Threads |-> IF u = t THEN "copy" ELSE pc[u]]
      /\ loc' = [u \in Threads |-> IF u = t THEN j ELSE loc[u]]
  BY <1>4, GotoFacts
<1>6. TypeOK /\ blk[b].pins \in Nat
  BY <1>2 DEF GIInv, GTypeOK, TypeOK
<1>7. /\ blk' \in [Blocks -> [ptr : Ptrs \cup {Null}, bin : Bins, used : BOOLEAN, pins : Nat]]
      /\ SameBlocks /\ blk'[b].pins = blk[b].pins + 1
      /\ \A c \in Blocks \ {b} : blk'[c] = blk[c]
  <2>1. blk[b].pins + 1 \in Nat
    BY <1>6
  <2> QED BY <1>2, <1>4, <1>6, <2>1, PinType
<1>8. GTypeOK'
  BY <1>4, <1>5, <1>7 DEF GIInv, GTypeOK, TypeOK
<1>9. Untouched' /\ UserAlone'
  BY <1>4, <1>5 DEF GIInv, Untouched, UserAlone, OthersStay
<1>10. GLocal'
  <2>1. CopyLocal(t)'
    BY <1>2, <1>3, <1>4, <1>5, <1>7 DEF CopyLocal, OnBlock, SameBlocks
  <2>2. FreeLocal(t)' /\ AsyncLocal(t)' /\ StreamLocal(t)'
    BY <1>5 DEF FreeLocal, AsyncLocal, StreamLocal
  <2> QED BY <1>4, <1>5, <1>7, <2>1, <2>2, LocalFrame DEF AllLocal
<1>11. (FreeLists /\ HandlesOne /\ VramExact)'
  BY <1>4, <1>7, PoolFrame
<1>12. Memories'
  BY <1>4, <1>5, <1>7, MemFrame DEF OthersStay
<1>13. SlotsUsed'
  BY <1>4, <1>7 DEF GIInv, SlotsUsed, SameBlocks, GTypeOK, TypeOK
<1>14. PinsCount'
  <2> SUFFICES ASSUME NEW c \in pool
               PROVE  blk'[c].pins = Cardinality(Copying(c)') + Cardinality(Claimed(c)')
    BY <1>4 DEF PinsCount
  <2>1. Claimed(c)' = Claimed(c)
    BY <1>4 DEF Claimed, AllPending
  <2>2. blk[c].pins = Cardinality(Copying(c)) + Cardinality(Claimed(c))
    BY DEF GIInv, PinsCount
  <2>3. CASE c = b
    <3>1. Copying(c)' = Copying(c) \cup {t} /\ t \notin Copying(c)
      BY <1>3, <1>4, <1>5, <2>3 DEF Copying, OthersStay
    <3>2. Cardinality(Copying(c)') = Cardinality(Copying(c)) + 1 /\ Cardinality(Copying(c)) \in Nat
      BY <3>1, CountedSets, CardStep
    <3>3. Cardinality(Claimed(c)) \in Nat
      BY CountedSets, CardStep
    <3> QED BY <1>7, <2>1, <2>2, <2>3, <3>2, <3>3
  <2>4. CASE c # b
    <3>1. Copying(c)' = Copying(c)
      BY <1>3, <1>4, <1>5, <2>4 DEF Copying, OthersStay
    <3>2. c \in Blocks
      BY <1>6 DEF TypeOK
    <3> QED BY <1>7, <2>1, <2>2, <2>4, <3>1, <3>2
  <2> QED BY <2>3, <2>4
<1>15. DmaHasSlot'
  BY <1>4, <1>5, DmaFrame DEF OthersStay
<1> QED BY <1>8, <1>9, <1>10, <1>11, <1>12, <1>13, <1>14, <1>15 DEF GIInv

\* A synchronous copy takes its own pin off.
LEMMA CopyUnpinStep ==
  ASSUME GIInv, NEW t \in Threads, CopyUnpin(t)
  PROVE  GIInv'
<1>1. PICK b : b = loc[t].blk
  OBVIOUS
<1>2. b \in pool /\ b \in Blocks /\ blk[b].used
  BY <1>1 DEF GIInv, GTypeOK, TypeOK, GLocal, CopyLocal, CopyUnpin
<1>3. blk[b].pins = Cardinality(Copying(b)) + Cardinality(Claimed(b)) /\ Cardinality(Claimed(b)) \in Nat
  BY <1>2, CountedSets, CardStep DEF GIInv, PinsCount
<1>4. /\ t \in Copying(b) /\ Cardinality(Copying(b)) > 0 /\ Cardinality(Copying(b)) \in Nat
      /\ Cardinality(Copying(b) \ {t}) = Cardinality(Copying(b)) - 1
  <2>1. t \in Copying(b)
    BY <1>1 DEF CopyUnpin, Copying
  <2> QED BY <2>1, CountedSets, CardStep
<1>5. /\ pc[t] = "copy" /\ Goto(t, "idle", Null) /\ blk' = [blk EXCEPT ![b].pins = blk[b].pins - 1]
      /\ UNCHANGED <<hip, pool, bins, handles, vram, asked, streams, pending, devMem, devStreams, dma>>
  <2>1. blk[b].pins > 0
    BY <1>3, <1>4
  <2>2. Unpin(b) = [blk EXCEPT ![b].pins = blk[b].pins - 1]
    BY <2>1, UnpinIs
  <2> QED BY <1>1, <2>2 DEF CopyUnpin, Return, devVars
<1>6. /\ pc'[t] = "idle" /\ loc'[t] = Null /\ OthersStay(t)
      /\ pc' = [u \in Threads |-> IF u = t THEN "idle" ELSE pc[u]]
      /\ loc' = [u \in Threads |-> IF u = t THEN Null ELSE loc[u]]
  BY <1>5, GotoFacts
<1>7. TypeOK /\ blk[b].pins - 1 \in Nat
  BY <1>3, <1>4 DEF GIInv, GTypeOK
<1>8. /\ blk' \in [Blocks -> [ptr : Ptrs \cup {Null}, bin : Bins, used : BOOLEAN, pins : Nat]]
      /\ SameBlocks /\ blk'[b].pins = blk[b].pins - 1
      /\ \A c \in Blocks \ {b} : blk'[c] = blk[c]
  BY <1>2, <1>5, <1>7, PinType
<1>9. GTypeOK'
  BY <1>5, <1>6, <1>8 DEF GIInv, GTypeOK, TypeOK
<1>10. Untouched' /\ UserAlone'
  BY <1>5, <1>6 DEF GIInv, Untouched, UserAlone, OthersStay
<1>11. GLocal'
  <2>1. AllLocal(t)'
    BY <1>6 DEF AllLocal, CopyLocal, FreeLocal, AsyncLocal, StreamLocal
  <2> QED BY <1>5, <1>6, <1>8, <2>1, LocalFrame
<1>12. (FreeLists /\ HandlesOne /\ VramExact)'
  BY <1>5, <1>8, PoolFrame
<1>13. Memories'
  BY <1>5, <1>6, <1>8, MemFrame DEF OthersStay
<1>14. SlotsUsed'
  BY <1>5, <1>8 DEF GIInv, SlotsUsed, SameBlocks, GTypeOK, TypeOK
<1>15. PinsCount'
  <2> SUFFICES ASSUME NEW c \in pool
               PROVE  blk'[c].pins = Cardinality(Copying(c)') + Cardinality(Claimed(c)')
    BY <1>5 DEF PinsCount
  <2>1. Claimed(c)' = Claimed(c)
    BY <1>5 DEF Claimed, AllPending
  <2>2. blk[c].pins = Cardinality(Copying(c)) + Cardinality(Claimed(c))
    BY DEF GIInv, PinsCount
  <2>3. CASE c = b
    <3>1. Copying(c)' = Copying(c) \ {t}
      BY <1>5, <1>6, <2>3 DEF Copying, OthersStay
    <3> QED BY <1>3, <1>4, <1>8, <2>1, <2>3, <3>1
  <2>4. CASE c # b
    <3>1. Copying(c)' = Copying(c)
      BY <1>1, <1>5, <1>6, <2>4 DEF Copying, OthersStay
    <3>2. c \in Blocks
      BY <1>7 DEF TypeOK
    <3> QED BY <1>8, <2>1, <2>2, <2>4, <3>1, <3>2
  <2> QED BY <2>3, <2>4
<1>16. DmaHasSlot'
  BY <1>5, <1>6, DmaFrame DEF OthersStay
<1> QED BY <1>9, <1>10, <1>11, <1>12, <1>13, <1>14, <1>15, <1>16 DEF GIInv

\* An asynchronous copy claims a pending slot and pins its block.
LEMMA AsyncClaimStep ==
  ASSUME GIInv, OneUser, NEW t \in Threads, NEW h \in Handles, NEW x \in Sizes, AsyncClaim(t, h, x)
  PROVE  GIInv'
<1>0. pc[t] = "claim" /\ hip = "ok" /\ t \in Owners \cup Streamers /\ TypeOK
  BY Running DEF AsyncClaim, GIInv, GTypeOK
<1>1. CASE ~(Copyable(h, x) /\ FreePending # {})
  <2>1. Goto(t, "idle", Null) /\ UNCHANGED <<hip, poolVars, streams, pending, devVars>>
    BY <1>1 DEF AsyncClaim, Return, poolVars, devVars
  <2>2. (AsyncLocal(t) /\ FreeLocal(t) /\ StreamLocal(t))'
    <3>1. pc'[t] = "idle"
      BY <2>1, GotoFacts
    <3> QED BY <3>1 DEF AsyncLocal, FreeLocal, StreamLocal
  <2>3. devStreams' \subseteq StreamObjs
    BY <1>0, <2>1 DEF TypeOK, devVars
  <2> QED BY <1>0, <2>1, <2>2, <2>3, MoveKeeps DEF Places, devVars
<1>2. CASE Copyable(h, x) /\ FreePending # {}
  <2>1. PICK b, s, i : b = handles[h] /\ s = loc[t] /\ i = Min(FreePending)
    OBVIOUS
  <2>2. b \in pool /\ b \in Blocks /\ blk[b].used /\ blk[b].ptr \in Ptrs
    BY <1>2, <2>1, CopyableFacts
  <2>3. s \in Streams /\ streams[s] # Null /\ streams[s] \in Objs
    BY <1>0, <2>1 DEF GIInv, GLocal, AsyncLocal, GTypeOK, TypeOK, Objs
  <2>4. i \in Pending /\ pending[i] = Null
    <3>1. FreePending \in SUBSET Nat /\ FreePending # {}
      BY <1>2, SlotsAssumption DEF FreePending, Pending
    <3>2. i \in FreePending
      BY <2>1, <3>1, MinProperties
    <3> QED BY <3>2 DEF FreePending
  <2>5. PICK r, j : r = [blk |-> b, stream |-> s]
                    /\ j = [blk |-> b, ptr |-> blk[b].ptr, slot |-> i, stream |-> streams[s]]
    OBVIOUS
  <2>6. r \in [blk : Blocks, stream : Streams] /\ r # Null /\ r.blk = b /\ r.stream = s
    BY <2>2, <2>3, <2>5, NullAssumption
  <2>7. /\ j \in OnSlot /\ j.blk = b /\ j.slot = i /\ j.stream = streams[s]
    BY <2>2, <2>3, <2>4, <2>5 DEF OnSlot
  <2>8. /\ pending' = [pending EXCEPT ![i] = r] /\ blk' = [blk EXCEPT ![b].pins = blk[b].pins + 1]
        /\ Goto(t, "enqueue", j)
        /\ UNCHANGED <<hip, pool, bins, handles, vram, asked, streams, devMem, devStreams, dma>>
    BY <1>2, <2>1, <2>5 DEF AsyncClaim, devVars
  <2>9. /\ pc'[t] = "enqueue" /\ loc'[t] = j /\ OthersStay(t)
        /\ pc' = [u \in Threads |-> IF u = t THEN "enqueue" ELSE pc[u]]
        /\ loc' = [u \in Threads |-> IF u = t THEN j ELSE loc[u]]
    BY <2>8, GotoFacts
  <2>10. /\ blk' \in [Blocks -> [ptr : Ptrs \cup {Null}, bin : Bins, used : BOOLEAN, pins : Nat]]
         /\ SameBlocks /\ blk'[b].pins = blk[b].pins + 1
         /\ \A c \in Blocks \ {b} : blk'[c] = blk[c]
    <3>1. blk[b].pins + 1 \in Nat
      BY <1>0, <2>2 DEF TypeOK
    <3> QED BY <1>0, <2>2, <2>8, <3>1, PinType
  <2>11. pending' \in [Pending -> [blk : Blocks, stream : Streams] \cup {Null}]
         /\ pending'[i] = r /\ \A k \in Pending \ {i} : pending'[k] = pending[k]
    BY <1>0, <2>4, <2>6, <2>8 DEF TypeOK
  <2>12. \A u \in Threads \ {t} : pc[u] \in {"idle", "copy"}
    BY <1>0, Alone
  <2>13. GTypeOK'
    BY <2>8, <2>9, <2>10, <2>11 DEF GIInv, GTypeOK, TypeOK
  <2>14. Untouched' /\ UserAlone'
    BY <1>0, <2>8, <2>9 DEF GIInv, Untouched, UserAlone, OthersStay
  <2>15. GLocal'
    <3>1. FreeLocal(t)' /\ CopyLocal(t)' /\ StreamLocal(t)'
      BY <2>9 DEF FreeLocal, CopyLocal, StreamLocal
    <3>2. AsyncLocal(t)'
      BY <2>3, <2>6, <2>7, <2>8, <2>9, <2>11 DEF AsyncLocal
    <3>3. \A u \in Threads \ {t} : pc[u] = "copy" => loc[u].blk \in pool' /\ blk'[loc[u].blk].used
      <4>1. pool' = pool /\ pool \subseteq Blocks
        BY <1>0, <2>8 DEF TypeOK
      <4> QED BY <2>10, <4>1 DEF GIInv, GLocal, CopyLocal, SameBlocks
    <3> QED BY <1>0, <2>9, <3>1, <3>2, <3>3, OthersLocal DEF AllLocal
  <2>16. (FreeLists /\ HandlesOne /\ VramExact)'
    BY <2>8, <2>10, PoolFrame
  <2>17. Memories'
    BY <1>0, <2>8, <2>9, <2>10, MemFrame DEF OthersStay
  <2>18. SlotsUsed'
    BY <1>0, <2>2, <2>6, <2>8, <2>10, <2>11 DEF GIInv, SlotsUsed, SameBlocks, TypeOK
  <2>19. PinsCount'
    <3> SUFFICES ASSUME NEW c \in pool
                 PROVE  blk'[c].pins = Cardinality(Copying(c)') + Cardinality(Claimed(c)')
      BY <2>8 DEF PinsCount
    <3>1. Copying(c)' = Copying(c)
      BY <1>0, <2>9 DEF Copying, OthersStay
    <3>2. blk[c].pins = Cardinality(Copying(c)) + Cardinality(Claimed(c))
      BY DEF GIInv, PinsCount
    <3>3. CASE c = b
      <4>1. Claimed(c)' = Claimed(c) \cup {i} /\ i \notin Claimed(c)
        BY <2>4, <2>6, <2>11, <3>3 DEF Claimed, AllPending
      <4>2. Cardinality(Claimed(c)') = Cardinality(Claimed(c)) + 1 /\ Cardinality(Claimed(c)) \in Nat
        BY <4>1, CountedSets, CardStep
      <4>3. Cardinality(Copying(c)) \in Nat
        BY CountedSets, CardStep
      <4> QED BY <2>10, <3>1, <3>2, <3>3, <4>2, <4>3
    <3>4. CASE c # b
      <4>1. Claimed(c)' = Claimed(c)
        BY <2>4, <2>6, <2>11, <3>4 DEF Claimed, AllPending
      <4>2. c \in Blocks
        BY <1>0 DEF TypeOK
      <4> QED BY <2>10, <3>1, <3>2, <3>4, <4>1, <4>2
    <3> QED BY <3>3, <3>4
  <2>20. DmaHasSlot'
    <3> SUFFICES ASSUME NEW d \in dma PROVE d.stream # Null /\ HasSlot(d)'
      BY <2>8 DEF DmaHasSlot
    <3>1. d.stream # Null /\ HasSlot(d)
      BY DEF GIInv, DmaHasSlot
    <3>2. PICK k \in Pending : pending[k] # Null /\ pending[k].blk = d.blk /\ streams[pending[k].stream] = d.stream
      BY <3>1 DEF HasSlot
    <3>3. k # i /\ pending'[k] = pending[k]
      BY <2>4, <2>11, <3>2
    <3>4. \A u \in Threads : pc'[u] = "enqueue" => loc'[u].slot # k
      BY <2>7, <2>9, <2>12, <3>3 DEF OthersStay
    <3> QED BY <2>8, <3>1, <3>2, <3>3, <3>4 DEF HasSlot
  <2> QED BY <2>13, <2>14, <2>15, <2>16, <2>17, <2>18, <2>19, <2>20 DEF GIInv
<1> QED BY <1>1, <1>2

\* The runtime took the copy: it is queued with the slot claimed for it.
LEMMA AsyncQueuedStep ==
  ASSUME GIInv, OneUser, NEW t \in Threads, AsyncQueued(t)
  PROVE  GIInv'
<1>0. pc[t] = "enqueue" /\ hip = "ok" /\ t \in Owners \cup Streamers /\ TypeOK /\ IsFiniteSet(dma)
  BY Running DEF AsyncQueued, GIInv, GTypeOK
<1>1. PICK ids : ids = {d.id : d \in dma}
  OBVIOUS
<1>2. PICK id : id = Min(1 .. MaxDma \ ids)
  OBVIOUS
<1>3. id \in 1 .. MaxDma
  <2>1. MaxDma \in Nat /\ IsFiniteSet(1 .. MaxDma) /\ Cardinality(1 .. MaxDma) = MaxDma
    BY SlotsAssumption, FS_Interval
  <2>2. IsFiniteSet(ids) /\ Cardinality(ids) =< Cardinality(dma)
    <3>1. PICK f : f = [d \in dma |-> d.id]
      OBVIOUS
    <3>2. f \in Surjection(dma, ids)
      BY <1>1, <3>1 DEF Surjection
    <3> QED BY <1>0, <3>2, FS_Surjection
  <2>3. Cardinality(dma) < MaxDma /\ Cardinality(dma) \in Nat
    BY <1>0, FS_CardinalityType DEF AsyncQueued
  <2>4. 1 .. MaxDma \ ids # {}
    <3> SUFFICES ASSUME 1 .. MaxDma \subseteq ids PROVE FALSE
      OBVIOUS
    <3>1. Cardinality(1 .. MaxDma) =< Cardinality(ids) /\ Cardinality(ids) \in Nat
      BY <2>2, FS_Subset, FS_CardinalityType
    <3> QED BY <2>1, <2>2, <2>3, <3>1
  <2>5. 1 .. MaxDma \ ids \in SUBSET Nat
    BY <2>1
  <2> QED BY <1>2, <2>4, <2>5, MinProperties
<1>4. PICK e : e = [id |-> id, blk |-> loc[t].blk, ptr |-> loc[t].ptr, stream |-> loc[t].stream]
  OBVIOUS
<1>5. /\ dma' = dma \cup {e} /\ Goto(t, "idle", Null)
      /\ UNCHANGED <<hip, pool, blk, bins, handles, vram, asked, streams, pending, devMem, devStreams>>
  BY <1>1, <1>2, <1>4 DEF AsyncQueued, Return, poolVars
<1>6. /\ pc'[t] = "idle" /\ loc'[t] = Null /\ OthersStay(t)
      /\ pc' = [u \in Threads |-> IF u = t THEN "idle" ELSE pc[u]]
      /\ loc' = [u \in Threads |-> IF u = t THEN Null ELSE loc[u]]
  BY <1>5, GotoFacts
<1>7. /\ loc[t] \in OnSlot /\ loc[t].stream # Null /\ pending[loc[t].slot] # Null
      /\ pending[loc[t].slot].blk = loc[t].blk
      /\ streams[pending[loc[t].slot].stream] = loc[t].stream
  BY <1>0 DEF GIInv, GLocal, AsyncLocal
<1>8. /\ e \in [id : 1 .. MaxDma, blk : Blocks, ptr : Ptrs, stream : StreamObjs \cup {Null}]
      /\ e.blk = loc[t].blk /\ e.stream = loc[t].stream /\ loc[t].slot \in Pending
  BY <1>3, <1>4, <1>7 DEF OnSlot, Objs
<1>9. SameBlocks /\ \A b \in pool : blk'[b].pins = blk[b].pins
  BY <1>5 DEF SameBlocks
<1>10. \A u \in Threads \ {t} : pc[u] \in {"idle", "copy"}
  BY <1>0, Alone
<1>11. GTypeOK'
  <2>1. IsFiniteSet(dma')
    BY <1>0, <1>5, FS_AddElement
  <2>2. dma' \subseteq [id : 1 .. MaxDma, blk : Blocks, ptr : Ptrs, stream : StreamObjs \cup {Null}]
    BY <1>0, <1>5, <1>8 DEF TypeOK
  <2> QED BY <1>0, <1>5, <1>6, <2>1, <2>2 DEF GTypeOK, TypeOK
<1>12. Untouched' /\ UserAlone'
  BY <1>0, <1>5, <1>6 DEF GIInv, Untouched, UserAlone, OthersStay
<1>13. GLocal'
  <2>1. AllLocal(t)'
    BY <1>6 DEF AllLocal, FreeLocal, CopyLocal, StreamLocal, AsyncLocal
  <2>2. \A u \in Threads \ {t} : pc[u] = "copy" => loc[u].blk \in pool' /\ blk'[loc[u].blk].used
    BY <1>5 DEF GIInv, GLocal, CopyLocal
  <2> QED BY <1>0, <1>6, <2>1, <2>2, OthersLocal
<1>14. (FreeLists /\ HandlesOne /\ VramExact)'
  BY <1>5, <1>9, PoolFrame
<1>15. Memories'
  BY <1>0, <1>5, <1>6, <1>9, MemFrame DEF OthersStay
<1>16. (PinsCount /\ SlotsUsed)'
  BY <1>0, <1>5, <1>6, <1>9, PinFrame DEF OthersStay
<1>17. DmaHasSlot'
  <2>1. \A u \in Threads : pc'[u] # "enqueue"
    BY <1>6, <1>10 DEF OthersStay
  <2> SUFFICES ASSUME NEW d \in dma' PROVE d.stream # Null /\ HasSlot(d)'
    BY DEF DmaHasSlot
  <2>2. CASE d \in dma
    <3>1. d.stream # Null /\ HasSlot(d)
      BY <2>2 DEF GIInv, DmaHasSlot
    <3> QED BY <1>5, <2>1, <3>1 DEF HasSlot
  <2>3. CASE d = e
    BY <1>5, <1>7, <1>8, <2>1, <2>3 DEF HasSlot
  <2> QED BY <1>5, <2>2, <2>3
<1> QED BY <1>11, <1>12, <1>13, <1>14, <1>15, <1>16, <1>17 DEF GIInv

-----------------------------------------------------------------------------
(* Pending slots are given back.                                           *)

In(S, b) == {i \in S : pending[i].blk = b}

\* Fewer slots are given back for a block than its pins count.
LEMMA InFacts ==
  ASSUME GIInv, NEW S \in SUBSET AllPending, NEW b
  PROVE  /\ In(S, b) \subseteq Claimed(b) /\ IsFiniteSet(In(S, b)) /\ Cardinality(In(S, b)) \in Nat
         /\ Cardinality(In(S, b)) =< Cardinality(Claimed(b))
         /\ Cardinality(Claimed(b) \ In(S, b)) = Cardinality(Claimed(b)) - Cardinality(In(S, b))
         /\ Cardinality(Claimed(b)) \in Nat /\ Cardinality(Copying(b)) \in Nat
         /\ b \in pool => blk[b].pins >= Cardinality(In(S, b))
<1>1. IsFiniteSet(Claimed(b)) /\ IsFiniteSet(Copying(b))
  BY CountedSets
<1>2. In(S, b) \subseteq Claimed(b)
  BY DEF In, Claimed
<1>3. IsFiniteSet(In(S, b)) /\ Cardinality(In(S, b)) =< Cardinality(Claimed(b))
  BY <1>1, <1>2, FS_Subset
<1>4. Cardinality(Claimed(b) \ In(S, b)) = Cardinality(Claimed(b)) - Cardinality(Claimed(b) \cap In(S, b))
  BY <1>1, <1>3, FS_Difference
<1>5. Claimed(b) \cap In(S, b) = In(S, b)
  BY <1>2
<1>6. Cardinality(In(S, b)) \in Nat /\ Cardinality(Claimed(b)) \in Nat /\ Cardinality(Copying(b)) \in Nat
  BY <1>1, <1>3, FS_CardinalityType
<1>7. b \in pool => blk[b].pins = Cardinality(Copying(b)) + Cardinality(Claimed(b))
  BY DEF GIInv, PinsCount
<1>8. Cardinality(Claimed(b) \ In(S, b)) = Cardinality(Claimed(b)) - Cardinality(In(S, b))
  BY <1>4, <1>5, Zenon
<1>9. b \in pool => blk[b].pins >= Cardinality(In(S, b))
  BY <1>3, <1>6, <1>7
<1> QED BY <1>2, <1>3, <1>6, <1>8, <1>9

\* Releasing pending slots takes one pin off a block for each of its slots.
LEMMA ReleasedFacts ==
  ASSUME GIInv, NEW S \in SUBSET AllPending
  PROVE  /\ Released(S) \in [Blocks -> [ptr : Ptrs \cup {Null}, bin : Bins, used : BOOLEAN, pins : Nat]]
         /\ \A b \in Blocks : /\ Released(S)[b].ptr = blk[b].ptr /\ Released(S)[b].bin = blk[b].bin
                              /\ Released(S)[b].used = blk[b].used
         /\ \A b \in pool : Released(S)[b].pins = blk[b].pins - Cardinality(In(S, b))
<1> DEFINE K(b) == Cardinality(In(S, b))
<1> DEFINE R(b) == [blk[b] EXCEPT !.pins = IF blk[b].pins > K(b) THEN blk[b].pins - K(b) ELSE 0]
<1>1. Released(S) = [b \in Blocks |-> R(b)]
  BY DEF Released, In
<1>2. \A b \in Blocks : blk[b] \in [ptr : Ptrs \cup {Null}, bin : Bins, used : BOOLEAN, pins : Nat]
  BY DEF GIInv, GTypeOK, TypeOK
<1>3. \A b \in Blocks : K(b) \in Nat
  BY InFacts
<1>4. \A b \in pool : b \in Blocks /\ blk[b].pins >= K(b)
  BY InFacts DEF GIInv, GTypeOK, TypeOK
<1> HIDE DEF K
<1>5. ASSUME NEW b \in Blocks
      PROVE  /\ R(b) \in [ptr : Ptrs \cup {Null}, bin : Bins, used : BOOLEAN, pins : Nat]
             /\ R(b).ptr = blk[b].ptr /\ R(b).bin = blk[b].bin /\ R(b).used = blk[b].used
             /\ blk[b].pins >= K(b) => R(b).pins = blk[b].pins - K(b)
  <2>1. blk[b].pins \in Nat /\ K(b) \in Nat
    BY <1>2, <1>3
  <2>2. PICK n : n = IF blk[b].pins > K(b) THEN blk[b].pins - K(b) ELSE 0
    OBVIOUS
  <2>3. n \in Nat /\ (blk[b].pins >= K(b) => n = blk[b].pins - K(b))
    BY <2>1, <2>2
  <2>4. R(b) = [blk[b] EXCEPT !.pins = n]
    BY <2>2
  <2> HIDE DEF R
  <2> QED BY <1>2, <2>3, <2>4
<1>6. \A b \in Blocks : Released(S)[b] = R(b)
  BY <1>1
<1> HIDE DEF R
<1>7. \A b \in pool : Released(S)[b].pins = blk[b].pins - K(b)
  BY <1>4, <1>5, <1>6
<1>8. Released(S) \in [Blocks -> [ptr : Ptrs \cup {Null}, bin : Bins, used : BOOLEAN, pins : Nat]]
  BY <1>1, <1>5
<1> QED BY <1>5, <1>6, <1>7, <1>8 DEF K

\* The user ends a call giving the slots in S back; what the device still copies keeps a slot.
LEMMA UnclaimKeeps ==
  ASSUME GIInv, OneUser, NEW t \in Owners \cup Streamers, NEW S \in SUBSET AllPending,
         Goto(t, "idle", Null), pc[t] \notin {"idle", "copy", "clear"},
         UNCHANGED <<hip, pool, bins, handles, vram, asked, devMem, devStreams, dma>>,
         blk' \in [Blocks -> [ptr : Ptrs \cup {Null}, bin : Bins, used : BOOLEAN, pins : Nat]],
         SameBlocks, \A b \in pool : blk'[b].pins = blk[b].pins - Cardinality(In(S, b)),
         pending' = [i \in Pending |-> IF i \in S THEN Null ELSE pending[i]],
         streams' \in [Streams -> Objs],
         \A d \in dma : \E k \in Pending \ S :
           pending[k] # Null /\ pending[k].blk = d.blk /\ streams'[pending[k].stream] = d.stream
  PROVE  GIInv'
<1>0. t \in Threads /\ hip = "ok" /\ TypeOK
  BY UsersAssumption, Running DEF GIInv, GTypeOK
<1>1. /\ pc'[t] = "idle" /\ loc'[t] = Null /\ OthersStay(t)
      /\ pc' = [u \in Threads |-> IF u = t THEN "idle" ELSE pc[u]]
      /\ loc' = [u \in Threads |-> IF u = t THEN Null ELSE loc[u]]
  BY <1>0, GotoFacts
<1>2. \A u \in Threads \ {t} : pc[u] \in {"idle", "copy"}
  BY Alone
<1>3. /\ pending' \in [Pending -> [blk : Blocks, stream : Streams] \cup {Null}]
      /\ \A i \in Pending \ S : pending'[i] = pending[i]
      /\ \A i \in S : i \in Pending /\ pending'[i] = Null
  BY <1>0 DEF TypeOK, AllPending
<1>4. GTypeOK'
  BY <1>0, <1>1, <1>3 DEF GIInv, GTypeOK, TypeOK, Objs
<1>5. Untouched' /\ UserAlone'
  BY <1>0, <1>1 DEF GIInv, Untouched, UserAlone, OthersStay
<1>6. GLocal'
  <2>1. AllLocal(t)'
    BY <1>1 DEF AllLocal, FreeLocal, CopyLocal, StreamLocal, AsyncLocal
  <2>2. \A u \in Threads \ {t} : pc[u] = "copy" => loc[u].blk \in pool' /\ blk'[loc[u].blk].used
    <3>1. pool' = pool /\ pool \subseteq Blocks
      BY <1>0 DEF TypeOK
    <3> QED BY <3>1 DEF GIInv, GLocal, CopyLocal, SameBlocks
  <2> QED BY <1>1, <2>1, <2>2, OthersLocal
<1>7. (FreeLists /\ HandlesOne /\ VramExact)'
  BY PoolFrame
<1>8. Memories'
  BY <1>0, <1>1, MemFrame DEF OthersStay
<1>9. SlotsUsed'
  BY <1>0, <1>3 DEF GIInv, SlotsUsed, SameBlocks, TypeOK
<1>10. PinsCount'
  <2> SUFFICES ASSUME NEW c \in pool
               PROVE  blk'[c].pins = Cardinality(Copying(c)') + Cardinality(Claimed(c)')
    BY DEF PinsCount
  <2>1. Copying(c)' = Copying(c)
    BY <1>0, <1>1 DEF Copying, OthersStay
  <2>2. Claimed(c)' = Claimed(c) \ In(S, c)
    BY <1>3 DEF Claimed, AllPending, In
  <2>3. blk[c].pins = Cardinality(Copying(c)) + Cardinality(Claimed(c))
    BY DEF GIInv, PinsCount
  <2>4. /\ Cardinality(Claimed(c) \ In(S, c)) = Cardinality(Claimed(c)) - Cardinality(In(S, c))
        /\ Cardinality(Claimed(c)) \in Nat /\ Cardinality(Copying(c)) \in Nat /\ Cardinality(In(S, c)) \in Nat
    BY InFacts
  <2>5. blk'[c].pins = blk[c].pins - Cardinality(In(S, c))
    OBVIOUS
  <2> QED BY <2>1, <2>2, <2>3, <2>4, <2>5
<1>11. DmaHasSlot'
  <2>1. \A u \in Threads : pc'[u] # "enqueue"
    BY <1>0, <1>1, <1>2 DEF OthersStay
  <2> SUFFICES ASSUME NEW d \in dma PROVE d.stream # Null /\ HasSlot(d)'
    BY DEF DmaHasSlot
  <2>2. d.stream # Null
    BY DEF GIInv, DmaHasSlot
  <2>3. PICK k \in Pending \ S :
          pending[k] # Null /\ pending[k].blk = d.blk /\ streams'[pending[k].stream] = d.stream
    OBVIOUS
  <2>4. pending'[k] = pending[k]
    BY <1>3
  <2> QED BY <2>1, <2>2, <2>3, <2>4 DEF HasSlot
<1> QED BY <1>4, <1>5, <1>6, <1>7, <1>8, <1>9, <1>10, <1>11 DEF GIInv

\* The runtime refused the copy: slot and pin are given back.
LEMMA AsyncFailedStep ==
  ASSUME GIInv, OneUser, NEW t \in Threads, AsyncFailed(t)
  PROVE  GIInv'
<1>0. pc[t] = "enqueue" /\ hip = "ok" /\ t \in Owners \cup Streamers /\ TypeOK
  BY Running DEF AsyncFailed, GIInv, GTypeOK
<1>1. PICK i, b : i = loc[t].slot /\ b = loc[t].blk
  OBVIOUS
<1>2. i \in Pending /\ b \in Blocks /\ pending[i] # Null /\ pending[i].blk = b
  BY <1>0, <1>1 DEF GIInv, GLocal, AsyncLocal, OnSlot
<1>3. b \in pool
  BY <1>2 DEF GIInv, SlotsUsed
<1>4. {i} \in SUBSET AllPending
  BY <1>2 DEF AllPending
<1>5. In({i}, b) = {i} /\ \A c : c # b => In({i}, c) = {}
  BY <1>2 DEF In
<1>6. Cardinality(In({i}, b)) = 1 /\ \A c : c # b => Cardinality(In({i}, c)) = 0
  BY <1>5, FS_Singleton, FS_EmptySet
<1>7. blk[b].pins \in Nat /\ blk[b].pins > 0
  <2>1. blk[b].pins >= Cardinality(In({i}, b)) /\ blk[b].pins \in Nat
    BY <1>0, <1>2, <1>3, <1>4, InFacts DEF TypeOK
  <2> QED BY <1>6, <2>1
<1>8. Unpin(b) = [blk EXCEPT ![b].pins = blk[b].pins - 1]
  BY <1>7, UnpinIs
<1>9. /\ Goto(t, "idle", Null) /\ blk' = [blk EXCEPT ![b].pins = blk[b].pins - 1]
      /\ pending' = [pending EXCEPT ![i] = Null]
      /\ UNCHANGED <<hip, pool, bins, handles, vram, asked, streams, devMem, devStreams, dma>>
  BY <1>1, <1>8 DEF AsyncFailed, Return, devVars
<1>10. /\ blk' \in [Blocks -> [ptr : Ptrs \cup {Null}, bin : Bins, used : BOOLEAN, pins : Nat]]
       /\ SameBlocks /\ blk'[b].pins = blk[b].pins - 1
       /\ \A c \in Blocks \ {b} : blk'[c] = blk[c]
  <2> DEFINE k == blk[b].pins - 1
  <2>1. k \in Nat
    BY <1>7
  <2>2. blk' = [blk EXCEPT ![b].pins = k]
    BY <1>9
  <2> HIDE DEF k
  <2>3. /\ blk' \in [Blocks -> [ptr : Ptrs \cup {Null}, bin : Bins, used : BOOLEAN, pins : Nat]]
        /\ SameBlocks /\ blk'[b].pins = k
        /\ \A c \in Blocks \ {b} : blk'[c] = blk[c]
    BY <1>0, <1>2, <2>1, <2>2, PinType
  <2> QED BY <2>3 DEF k
<1>11. \A c \in pool : blk'[c].pins = blk[c].pins - Cardinality(In({i}, c))
  <2> SUFFICES ASSUME NEW c \in pool PROVE blk'[c].pins = blk[c].pins - Cardinality(In({i}, c))
    OBVIOUS
  <2>1. c \in Blocks /\ blk[c].pins \in Nat
    BY <1>0 DEF TypeOK
  <2>2. CASE c = b
    BY <1>6, <1>10, <2>2
  <2>3. CASE c # b
    <3>1. blk'[c] = blk[c] /\ Cardinality(In({i}, c)) = 0
      BY <1>6, <1>10, <2>1, <2>3
    <3> QED BY <2>1, <3>1
  <2> QED BY <2>2, <2>3
<1>12. pending' = [k \in Pending |-> IF k \in {i} THEN Null ELSE pending[k]]
  BY <1>0, <1>2, <1>9 DEF TypeOK
<1>13. streams' \in [Streams -> Objs]
  BY <1>0, <1>9 DEF TypeOK, Objs
<1>14. \A d \in dma : \E k \in Pending \ {i} :
         pending[k] # Null /\ pending[k].blk = d.blk /\ streams'[pending[k].stream] = d.stream
  <2> SUFFICES ASSUME NEW d \in dma
               PROVE  \E k \in Pending \ {i} :
                        pending[k] # Null /\ pending[k].blk = d.blk /\ streams'[pending[k].stream] = d.stream
    OBVIOUS
  <2>1. HasSlot(d)
    BY DEF GIInv, DmaHasSlot
  <2> QED BY <1>0, <1>1, <1>9, <2>1 DEF HasSlot
<1> QED BY <1>0, <1>4, <1>9, <1>10, <1>11, <1>12, <1>13, <1>14, UnclaimKeeps

\* The releases after a stream destroy, a stream synchronise and a device synchronise.
LEMMA ReleaseSteps ==
  ASSUME GIInv, OneUser, NEW t \in Threads, DestroyDrop(t) \/ SyncRelease(t) \/ DeviceRelease(t)
  PROVE  GIInv'
<1>0. /\ pc[t] \in {"drop", "release", "releaseAll"}
      /\ hip = "ok" /\ t \in Owners \cup Streamers /\ TypeOK
  BY Running DEF DestroyDrop, SyncRelease, DeviceRelease, GIInv, GTypeOK
<1>1. ASSUME NEW S \in SUBSET AllPending, Release(S), Goto(t, "idle", Null), streams' \in [Streams -> Objs],
             UNCHANGED <<hip, pool, bins, handles, vram, asked, devMem, devStreams, dma>>,
             \A d \in dma : \E k \in Pending \ S :
               pending[k] # Null /\ pending[k].blk = d.blk /\ streams'[pending[k].stream] = d.stream
      PROVE  GIInv'
  <2>1. /\ blk' \in [Blocks -> [ptr : Ptrs \cup {Null}, bin : Bins, used : BOOLEAN, pins : Nat]]
        /\ SameBlocks /\ \A b \in pool : blk'[b].pins = blk[b].pins - Cardinality(In(S, b))
    BY <1>1, ReleasedFacts DEF Release, SameBlocks
  <2> QED BY <1>0, <1>1, <2>1, UnclaimKeeps DEF Release
<1>2. streams \in [Streams -> Objs]
  BY <1>0 DEF TypeOK, Objs
<1>3. ASSUME NEW s \in Streams, Quiet(streams[s]),
             \A z \in Streams \ {s} : streams'[z] = streams[z]
      PROVE  \A d \in dma : \E k \in Pending \ OfStream(s) :
               pending[k] # Null /\ pending[k].blk = d.blk /\ streams'[pending[k].stream] = d.stream
  <2> SUFFICES ASSUME NEW d \in dma
               PROVE  \E k \in Pending \ OfStream(s) :
                        pending[k] # Null /\ pending[k].blk = d.blk /\ streams'[pending[k].stream] = d.stream
    OBVIOUS
  <2>1. HasSlot(d)
    BY DEF GIInv, DmaHasSlot
  <2>2. PICK k \in Pending : pending[k] # Null /\ pending[k].blk = d.blk /\ streams[pending[k].stream] = d.stream
    BY <2>1 DEF HasSlot
  <2>3. pending[k].stream # s /\ pending[k].stream \in Streams
    BY <1>0, <1>3, <2>2 DEF Quiet, TypeOK
  <2> QED BY <1>3, <2>2, <2>3 DEF OfStream
<1>4. \A s : OfStream(s) \in SUBSET AllPending
  BY DEF OfStream, AllPending
<1>5. ASSUME DestroyDrop(t) PROVE GIInv'
  <2>1. PICK s : s = loc[t].handle
    OBVIOUS
  <2>2. s \in Streams /\ Quiet(streams[s])
    BY <1>5, <2>1 DEF DestroyDrop, GIInv, GLocal, StreamLocal, OnStream
  <2>3. /\ Release(OfStream(s)) /\ Goto(t, "idle", Null) /\ streams' = [streams EXCEPT ![s] = Null]
        /\ UNCHANGED <<hip, pool, bins, handles, vram, asked, devMem, devStreams, dma>>
    BY <1>5, <2>1 DEF DestroyDrop, Return, devVars
  <2>4. streams' \in [Streams -> Objs] /\ \A z \in Streams \ {s} : streams'[z] = streams[z]
    BY <1>2, <2>2, <2>3 DEF Objs
  <2> QED BY <1>1, <1>3, <1>4, <2>2, <2>3, <2>4
<1>6. ASSUME SyncRelease(t) PROVE GIInv'
  <2>1. PICK s : s = loc[t].handle
    OBVIOUS
  <2>2. s \in Streams /\ Quiet(streams[s])
    BY <1>6, <2>1 DEF SyncRelease, GIInv, GLocal, StreamLocal, OnStream
  <2>3. /\ Release(OfStream(s)) /\ Goto(t, "idle", Null) /\ streams' = streams
        /\ UNCHANGED <<hip, pool, bins, handles, vram, asked, devMem, devStreams, dma>>
    BY <1>6, <2>1 DEF SyncRelease, Return, devVars
  <2> QED BY <1>1, <1>2, <1>3, <1>4, <2>2, <2>3
<1>7. ASSUME DeviceRelease(t) PROVE GIInv'
  <2>1. dma = {}
    BY <1>7 DEF DeviceRelease, GIInv, GLocal, StreamLocal
  <2>2. /\ Release(AllPending) /\ Goto(t, "idle", Null) /\ streams' = streams
        /\ UNCHANGED <<hip, pool, bins, handles, vram, asked, devMem, devStreams, dma>>
    BY <1>7 DEF DeviceRelease, Return, devVars
  <2>3. AllPending \in SUBSET AllPending
    OBVIOUS
  <2> QED BY <1>1, <1>2, <2>1, <2>2, <2>3
<1> QED BY <1>5, <1>6, <1>7

\* The device ends a copy.
LEMMA DmaDoneStep ==
  ASSUME GIInv, NEW d \in dma, DmaDone(d)
  PROVE  GIInv'
<1>1. /\ dma' = dma \ {d}
      /\ UNCHANGED <<hip, pool, blk, bins, handles, vram, asked, streams, pending, pc, loc, devMem, devStreams>>
  BY DEF DmaDone, poolVars
<1>2. SameBlocks /\ (\A b \in pool : blk'[b].pins = blk[b].pins) /\ dma' \subseteq dma
  BY <1>1 DEF SameBlocks
<1>3. GTypeOK'
  <2>1. IsFiniteSet(dma')
    BY <1>2, FS_Subset DEF GIInv, GTypeOK
  <2> QED BY <1>1, <2>1 DEF GIInv, GTypeOK, TypeOK
<1>4. Untouched' /\ UserAlone'
  BY <1>1 DEF GIInv, Untouched, UserAlone
<1>5. GLocal'
  <2> SUFFICES ASSUME NEW t \in Threads PROVE AllLocal(t)'
    BY DEF GLocal, AllLocal
  <2>1. FreeLocal(t) /\ CopyLocal(t) /\ AsyncLocal(t) /\ StreamLocal(t)
    BY DEF GIInv, GLocal
  <2>2. FreeLocal(t)' /\ CopyLocal(t)'
    BY <1>1, <2>1 DEF FreeLocal, CopyLocal
  <2>3. AsyncLocal(t)'
    BY <1>1, <2>1 DEF AsyncLocal
  <2>4. StreamLocal(t)'
    BY <1>1, <1>2, <2>1 DEF StreamLocal, Quiet
  <2> QED BY <2>2, <2>3, <2>4 DEF AllLocal
<1>6. (FreeLists /\ HandlesOne /\ VramExact)'
  BY <1>1, <1>2, PoolFrame
<1>7. Memories'
  BY <1>1, <1>2, MemFrame
<1>8. (PinsCount /\ SlotsUsed)'
  BY <1>1, <1>2, PinFrame
<1>9. DmaHasSlot'
  BY <1>1, <1>2, DmaFrame
<1> QED BY <1>3, <1>4, <1>5, <1>6, <1>7, <1>8, <1>9 DEF GIInv

\* A stream handle names a new stream.
LEMMA StreamCreateStep ==
  ASSUME GIInv, OneUser, NEW t \in Threads, NEW o \in StreamObjs, StreamCreate(t, o)
  PROVE  GIInv'
<1>1. PICK s : s = Min(FreeStreams)
  OBVIOUS
<1>2. /\ streams' = [streams EXCEPT ![s] = o] /\ devStreams' = devStreams \cup {o}
      /\ UNCHANGED <<hip, pool, blk, bins, handles, vram, asked, pending, pc, loc, devMem, dma>>
      /\ pc[t] = "idle" /\ t \in Owners \cup Streamers /\ hip = "ok" /\ TypeOK
  BY <1>1 DEF StreamCreate, poolVars, Enter, GIInv, GTypeOK
<1>3. s \in Streams /\ streams[s] = Null
  <2>1. FreeStreams \in SUBSET Nat /\ FreeStreams # {}
    BY SlotsAssumption DEF FreeStreams, Streams, StreamCreate
  <2>2. s \in FreeStreams
    BY <1>1, <2>1, MinProperties
  <2> QED BY <2>2 DEF FreeStreams
<1>4. /\ streams' \in [Streams -> StreamObjs \cup {Null}]
      /\ \A z \in Streams \ {s} : streams'[z] = streams[z]
  BY <1>2, <1>3 DEF TypeOK
<1>5. SameBlocks /\ (\A b \in pool : blk'[b].pins = blk[b].pins) /\ OthersStay(t)
  BY <1>2 DEF SameBlocks, OthersStay
<1>6. GTypeOK'
  BY <1>2, <1>4 DEF GIInv, GTypeOK, TypeOK
<1>7. Untouched' /\ UserAlone'
  BY <1>2 DEF GIInv, Untouched, UserAlone
<1>8. GLocal'
  <2>1. AllLocal(t)'
    BY <1>2 DEF AllLocal, FreeLocal, CopyLocal, StreamLocal, AsyncLocal
  <2>2. \A u \in Threads \ {t} : pc[u] = "copy" => loc[u].blk \in pool' /\ blk'[loc[u].blk].used
    BY <1>2 DEF GIInv, GLocal, CopyLocal
  <2> QED BY <1>2, <1>5, <2>1, <2>2, OthersLocal
<1>9. (FreeLists /\ HandlesOne /\ VramExact)'
  BY <1>2, <1>5, PoolFrame
<1>10. Memories'
  BY <1>2, <1>5, MemFrame
<1>11. (PinsCount /\ SlotsUsed)'
  BY <1>2, <1>5, PinFrame
<1>12. DmaHasSlot'
  <2> SUFFICES ASSUME NEW d \in dma PROVE d.stream # Null /\ HasSlot(d)'
    BY <1>2 DEF DmaHasSlot
  <2>1. d.stream # Null /\ HasSlot(d)
    BY DEF GIInv, DmaHasSlot
  <2>2. PICK k \in Pending : /\ pending[k] # Null /\ pending[k].blk = d.blk
                             /\ streams[pending[k].stream] = d.stream
                             /\ \A u \in Threads : pc[u] = "enqueue" => loc[u].slot # k
    BY <2>1 DEF HasSlot
  <2>3. pending[k].stream \in Streams \ {s}
    BY <1>2, <1>3, <2>1, <2>2 DEF TypeOK
  <2> QED BY <1>2, <1>4, <2>1, <2>2, <2>3 DEF HasSlot
<1> QED BY <1>6, <1>7, <1>8, <1>9, <1>10, <1>11, <1>12 DEF GIInv

\* oo_gpu_init finds an untouched pool.
LEMMA GpuInitStep ==
  ASSUME GIInv, NEW t \in Threads, GpuInit(t)
  PROVE  GIInv'
<1>1. pool = {} /\ dma = {} /\ \A u \in Threads : pc[u] = "idle"
  BY DEF GIInv, Untouched, GpuInit
<1>2. /\ hip' \in {"ok", "absent"} /\ handles' = [h \in Handles |-> Null] /\ bins' = [n \in Bins |-> << >>]
      /\ streams' = [s \in Streams |-> Null] /\ pending' = [i \in Pending |-> Null]
      /\ UNCHANGED <<pool, blk, vram, asked, pc, loc, devMem, devStreams, dma>>
  BY DEF GpuInit, devVars
<1>3. GTypeOK'
  <2>1. bins' \in [Bins -> Seq(Blocks)]
    BY <1>2
  <2> QED BY <1>2, <2>1 DEF GIInv, GTypeOK, TypeOK
<1>4. Untouched' /\ UserAlone'
  BY <1>1, <1>2 DEF Untouched, UserAlone
<1>5. GLocal'
  BY <1>1, <1>2 DEF GLocal, FreeLocal, CopyLocal, StreamLocal, AsyncLocal
<1>6. FreeLists'
  BY <1>1, <1>2 DEF FreeLists, IsInjective, ToSet
<1>7. HandlesOne' /\ Memories' /\ PinsCount' /\ SlotsUsed' /\ DmaHasSlot'
  BY <1>1, <1>2 DEF HandlesOne, Memories, PinsCount, SlotsUsed, DmaHasSlot
<1>8. VramExact'
  <2>1. Active' = Active
    BY <1>2 DEF Active
  <2> QED BY <1>2, <2>1 DEF GIInv, VramExact
<1> QED BY <1>3, <1>4, <1>5, <1>6, <1>7, <1>8 DEF GIInv
-----------------------------------------------------------------------------
(* Allocation, free and purge.                                             *)

BlockType == [ptr : Ptrs \cup {Null}, bin : Bins, used : BOOLEAN, pins : Nat]

\* A block that is not in use, or has no pin, has no copy and no slot.
LEMMA Unpinned ==
  ASSUME GIInv, NEW b \in Blocks, b \notin pool \/ ~blk[b].used \/ blk[b].pins = 0
  PROVE  /\ \A u \in Threads : pc[u] = "copy" => loc[u].blk # b
         /\ \A i \in Pending : pending[i] # Null => pending[i].blk # b
         /\ Copying(b) = {} /\ Claimed(b) = {}
<1>1. CASE b \notin pool \/ ~blk[b].used
  <2>1. \A u \in Threads : pc[u] = "copy" => loc[u].blk # b
    BY <1>1 DEF GIInv, GLocal, CopyLocal
  <2>2. \A i \in Pending : pending[i] # Null => pending[i].blk # b
    BY <1>1 DEF GIInv, SlotsUsed
  <2> QED BY <2>1, <2>2 DEF Copying, Claimed, AllPending
<1>2. CASE b \in pool /\ blk[b].pins = 0
  <2>1. Cardinality(Copying(b)) + Cardinality(Claimed(b)) = 0
    BY <1>2 DEF GIInv, PinsCount
  <2>2. \A u : u \in Copying(b) => Cardinality(Copying(b)) > 0
    BY CountedSets, CardStep
  <2>3. \A i : i \in Claimed(b) => Cardinality(Claimed(b)) > 0
    BY CountedSets, CardStep
  <2>4. Cardinality(Copying(b)) \in Nat /\ Cardinality(Claimed(b)) \in Nat
    BY CountedSets, CardStep
  <2>5. Copying(b) = {} /\ Claimed(b) = {}
    BY <2>1, <2>2, <2>3, <2>4
  <2> QED BY <2>5 DEF Copying, Claimed, AllPending
<1> QED BY <1>1, <1>2

\* Memory the user may rely on: with nobody else in a free, all of it is allocated.
LEMMA Allocated ==
  ASSUME GIInv, OneUser, NEW t \in Owners \cup Streamers, pc[t] # "clear"
  PROVE  \A b \in pool : blk[b].ptr # Null => blk[b].ptr \in devMem
<1>1. \A u \in Threads : pc[u] # "clear"
  BY Alone
<1> QED BY <1>1 DEF GIInv, Memories

\* oo_gpu_buffer_free, under the mutex: the block goes on its free list.
LEMMA FreeBlockStep ==
  ASSUME GIInv, OneUser, NEW t \in Threads, NEW h \in Handles, FreeBlock(t, h)
  PROVE  GIInv'
<1>1. PICK b, n : b = handles[h] /\ n = blk[b].bin
  OBVIOUS
<1>2. PICK j : j = [blk |-> b, ptr |-> blk[b].ptr]
  OBVIOUS
<1>3. /\ pc[t] = "idle" /\ hip = "ok" /\ t \in Owners \cup Streamers /\ TypeOK
      /\ b # Null /\ blk[b].used /\ blk[b].pins = 0
      /\ handles' = [handles EXCEPT ![h] = Null] /\ asked' = [asked EXCEPT ![h] = 0]
      /\ blk' = [blk EXCEPT ![b].used = FALSE] /\ bins' = [bins EXCEPT ![n] = <<b>> \o bins[n]]
      /\ vram' = vram - BinToSize(n) /\ Goto(t, "hipFree", j)
      /\ UNCHANGED <<hip, pool, streams, pending, devMem, devStreams, dma>>
  BY <1>1, <1>2 DEF FreeBlock, Enter, Push, devVars, GIInv, GTypeOK
<1>4. b \in pool /\ b \in Blocks /\ n \in Bins /\ blk[b].ptr \in Ptrs /\ blk[b] \in BlockType
  <2>1. b \in pool /\ b \in Blocks
    BY <1>1, <1>3 DEF GIInv, HandlesOne, TypeOK
  <2>2. blk[b].ptr # Null
    BY <1>3, <2>1 DEF GIInv, Memories
  <2> QED BY <1>1, <1>3, <2>1, <2>2 DEF TypeOK, BlockType
<1>5. /\ pc'[t] = "hipFree" /\ loc'[t] = j /\ OthersStay(t)
      /\ pc' = [u \in Threads |-> IF u = t THEN "hipFree" ELSE pc[u]]
      /\ loc' = [u \in Threads |-> IF u = t THEN j ELSE loc[u]]
  BY <1>3, GotoFacts
<1>6. /\ blk' \in [Blocks -> BlockType] /\ ~blk'[b].used /\ blk'[b].pins = blk[b].pins
      /\ blk'[b].ptr = blk[b].ptr /\ blk'[b].bin = n
      /\ \A c \in Blocks \ {b} : blk'[c] = blk[c]
  <2>1. blk \in [Blocks -> BlockType]
    BY <1>3 DEF TypeOK, BlockType
  <2> QED BY <1>1, <1>3, <1>4, <2>1 DEF BlockType
<1>7. \A u \in Threads \ {t} : pc[u] \in {"idle", "copy"}
  BY <1>3, Alone
<1>8. /\ \A u \in Threads : pc[u] = "copy" => loc[u].blk # b
      /\ \A i \in Pending : pending[i] # Null => pending[i].blk # b
  BY <1>3, <1>4, Unpinned
<1>9. /\ bins[n] \in Seq(Blocks) /\ IsInjective(bins[n])
      /\ ToSet(bins[n]) = {c \in pool : blk[c].bin = n /\ ~blk[c].used}
  BY <1>3, <1>4 DEF GIInv, FreeLists, TypeOK
<1>10. PICK f : f = <<b>> \o bins[n]
  OBVIOUS
<1>11. f \in Seq(Blocks) /\ IsInjective(f) /\ ToSet(f) = ToSet(bins[n]) \cup {b}
  BY <1>3, <1>4, <1>9, <1>10, PushFree
<1>12. /\ bins' \in [Bins -> Seq(Blocks)] /\ bins'[n] = f
       /\ \A m \in Bins \ {n} : bins'[m] = bins[m]
  BY <1>3, <1>4, <1>10, <1>11 DEF TypeOK
<1>13. handles' \in [Handles -> Blocks \cup {Null}] /\ handles'[h] = Null
       /\ \A g \in Handles \ {h} : handles'[g] = handles[g] /\ handles[g] # b
  BY <1>1, <1>3 DEF GIInv, HandlesOne, TypeOK
<1>14. VramExact' /\ vram' \in Nat
  <2>1. Active \in [Blocks -> Nat]
    BY <1>3, ActiveType
  <2>2. PICK w : w = Active'
    OBVIOUS
  <2>3. w = [c \in Blocks |-> IF c \in pool /\ blk'[c].used THEN BinToSize(blk'[c].bin) ELSE 0]
    BY <1>3, <2>2 DEF Active
  <2>4. w[b] = 0 /\ \A c \in Blocks \ {b} : w[c] = Active[c]
    BY <1>4, <1>6, <2>3 DEF Active
  <2>5. w \in [Blocks -> Nat]
    BY <2>1, <2>3, <2>4
  <2>6. Active[b] = BinToSize(n)
    BY <1>1, <1>3, <1>4 DEF Active
  <2>7. SumFunction(w) = SumFunction(Active) - Active[b] + w[b] /\ SumFunction(Active) \in Nat /\ SumFunction(w) \in Nat
    BY <1>4, <2>1, <2>4, <2>5, SumMoves, BlocksAssumption
  <2>8. vram = SumFunction(Active)
    BY DEF GIInv, VramExact
  <2>9. BinToSize(n) \in Nat
    BY <2>1, <2>6, <1>4
  <2>10. vram' = SumFunction(w)
    BY <1>3, <2>4, <2>6, <2>7, <2>8, <2>9
  <2> QED BY <2>2, <2>7, <2>10 DEF VramExact
<1>15. GTypeOK'
  <2>1. asked' \in [Handles -> Sizes \cup {0}]
    BY <1>3 DEF TypeOK
  <2> QED BY <1>3, <1>5, <1>6, <1>12, <1>13, <1>14, <2>1 DEF GIInv, GTypeOK, TypeOK, BlockType
<1>16. Untouched' /\ UserAlone'
  BY <1>3, <1>5 DEF GIInv, Untouched, UserAlone, OthersStay
<1>17. GLocal'
  <2>1. FreeLocal(t)'
    BY <1>2, <1>3, <1>4, <1>5, <1>6 DEF FreeLocal, OnBlock
  <2>2. CopyLocal(t)' /\ StreamLocal(t)' /\ AsyncLocal(t)'
    BY <1>5 DEF CopyLocal, StreamLocal, AsyncLocal
  <2>3. \A u \in Threads \ {t} : pc[u] = "copy" => loc[u].blk \in pool' /\ blk'[loc[u].blk].used
    BY <1>3, <1>6, <1>8 DEF GIInv, GLocal, CopyLocal, TypeOK
  <2> QED BY <1>3, <1>5, <2>1, <2>2, <2>3, OthersLocal DEF AllLocal
<1>18. FreeLists'
  <2> SUFFICES ASSUME NEW m \in Bins
               PROVE  IsInjective(bins'[m]) /\ ToSet(bins'[m]) = {c \in pool : blk'[c].bin = m /\ ~blk'[c].used}
    BY <1>3 DEF FreeLists
  <2>0. pool \subseteq Blocks
    BY <1>3 DEF TypeOK
  <2>1. CASE m = n
    <3>1. {c \in pool : blk'[c].bin = n /\ ~blk'[c].used} = {c \in pool : blk[c].bin = n /\ ~blk[c].used} \cup {b}
      BY <1>4, <1>6, <2>0
    <3> QED BY <1>9, <1>11, <1>12, <2>1, <3>1
  <2>2. CASE m # n
    <3>1. {c \in pool : blk'[c].bin = m /\ ~blk'[c].used} = {c \in pool : blk[c].bin = m /\ ~blk[c].used}
      BY <1>3, <1>4, <1>6, <2>0, <2>2
    <3>2. bins'[m] = bins[m]
      BY <1>12, <2>2
    <3> QED BY <3>1, <3>2 DEF GIInv, FreeLists
  <2> QED BY <2>1, <2>2
<1>19. HandlesOne'
  <2>0. pool \subseteq Blocks
    BY <1>3 DEF TypeOK
  <2>1. \A g \in Handles : handles'[g] # Null => handles'[g] \in pool' /\ blk'[handles'[g]].used
    BY <1>3, <1>6, <1>13, <2>0 DEF GIInv, HandlesOne
  <2>2. \A c \in pool' : blk'[c].used => \E g \in Handles : handles'[g] = c
    <3> SUFFICES ASSUME NEW c \in pool, blk'[c].used PROVE \E g \in Handles : handles'[g] = c
      BY <1>3
    <3>1. c # b /\ blk[c].used
      BY <1>6, <2>0
    <3>2. PICK g \in Handles : handles[g] = c
      BY <3>1 DEF GIInv, HandlesOne
    <3> QED BY <1>1, <1>13, <3>1, <3>2
  <2>3. \A f1, g \in Handles : handles'[f1] = handles'[g] /\ handles'[f1] # Null => f1 = g
    BY <1>13 DEF GIInv, HandlesOne
  <2> QED BY <2>1, <2>2, <2>3 DEF HandlesOne
<1>20. Memories'
  <2>0. pool \subseteq Blocks /\ \A c \in Blocks : blk'[c].ptr = blk[c].ptr /\ blk'[c].bin = blk[c].bin
    BY <1>1, <1>3, <1>6 DEF TypeOK
  <2>1. \A c, d \in pool' : c # d /\ blk'[c].ptr # Null => blk'[c].ptr # blk'[d].ptr
    BY <1>3, <2>0 DEF GIInv, Memories
  <2>2. \A c \in pool' : blk'[c].used => blk'[c].ptr # Null
    BY <1>3, <1>6, <2>0 DEF GIInv, Memories
  <2>3. \A c \in pool' : blk'[c].ptr # Null => blk'[c].ptr \in devMem'
    BY <1>3, <2>0, Allocated
  <2>4. \A g \in Handles : handles'[g] # Null => BinToSize(blk'[handles'[g]].bin) >= asked'[g]
    <3> SUFFICES ASSUME NEW g \in Handles, handles'[g] # Null
                 PROVE  BinToSize(blk'[handles'[g]].bin) >= asked'[g]
      OBVIOUS
    <3>1. g # h /\ handles'[g] = handles[g] /\ handles[g] \in Blocks /\ asked'[g] = asked[g]
      BY <1>3, <1>13 DEF TypeOK
    <3> QED BY <2>0, <3>1 DEF GIInv, Memories
  <2> QED BY <2>1, <2>2, <2>3, <2>4 DEF Memories
<1>21. SlotsUsed'
  BY <1>3, <1>6, <1>8 DEF GIInv, SlotsUsed, TypeOK
<1>22. PinsCount'
  <2> SUFFICES ASSUME NEW c \in pool
               PROVE  blk'[c].pins = Cardinality(Copying(c)') + Cardinality(Claimed(c)')
    BY <1>3 DEF PinsCount
  <2>1. Copying(c)' = Copying(c) /\ Claimed(c)' = Claimed(c)
    BY <1>3, <1>5 DEF Copying, Claimed, AllPending, OthersStay
  <2>2. blk'[c].pins = blk[c].pins
    BY <1>3, <1>6 DEF TypeOK
  <2> QED BY <2>1, <2>2 DEF GIInv, PinsCount
<1>23. DmaHasSlot'
  BY <1>3, <1>5, DmaFrame DEF OthersStay
<1> QED BY <1>14, <1>15, <1>16, <1>17, <1>18, <1>19, <1>20, <1>21, <1>22, <1>23 DEF GIInv

\* oo_gpu_buffer_free, after unlocking: hipFree of the block's memory.
LEMMA FreeDeviceStep ==
  ASSUME GIInv, OneUser, NEW t \in Threads, FreeDevice(t)
  PROVE  GIInv'
<1>1. /\ pc[t] = "hipFree" /\ hip = "ok" /\ t \in Owners \cup Streamers /\ TypeOK
      /\ devMem' = devMem \ {loc[t].ptr} /\ Goto(t, "clear", loc[t])
      /\ UNCHANGED <<hip, pool, blk, bins, handles, vram, asked, streams, pending, devStreams, dma>>
  BY Running DEF FreeDevice, poolVars, GIInv, GTypeOK
<1>2. /\ pc'[t] = "clear" /\ loc'[t] = loc[t] /\ OthersStay(t)
      /\ pc' = [u \in Threads |-> IF u = t THEN "clear" ELSE pc[u]]
      /\ loc' = [u \in Threads |-> IF u = t THEN loc[t] ELSE loc[u]]
  BY <1>1, GotoFacts
<1>3. SameBlocks /\ \A b \in pool : blk'[b].pins = blk[b].pins
  BY <1>1 DEF SameBlocks
<1>4. /\ loc[t] \in OnBlock /\ loc[t].blk \in pool /\ ~blk[loc[t].blk].used
      /\ blk[loc[t].blk].ptr = loc[t].ptr
  BY <1>1 DEF GIInv, GLocal, FreeLocal
<1>5. GTypeOK'
  BY <1>1, <1>2 DEF GIInv, GTypeOK, TypeOK
<1>6. Untouched' /\ UserAlone'
  BY <1>1, <1>2 DEF GIInv, Untouched, UserAlone, OthersStay
<1>7. GLocal'
  <2>1. FreeLocal(t)'
    BY <1>1, <1>2, <1>4 DEF FreeLocal
  <2>2. CopyLocal(t)' /\ StreamLocal(t)' /\ AsyncLocal(t)'
    BY <1>2 DEF CopyLocal, StreamLocal, AsyncLocal
  <2> QED BY <1>1, <1>2, <1>3, <2>1, <2>2, LocalFrame DEF AllLocal
<1>8. (FreeLists /\ HandlesOne /\ VramExact)'
  BY <1>1, <1>3, PoolFrame
<1>9. Memories'
  <2>1. ASSUME NEW b \in pool, blk[b].ptr # Null
        PROVE  blk[b].ptr \in devMem' \/ \E u \in Threads : pc'[u] = "clear" /\ loc'[u].blk = b
    <3>1. CASE b = loc[t].blk
      BY <1>2, <3>1
    <3>2. CASE b # loc[t].blk
      <4>1. blk[b].ptr # loc[t].ptr
        BY <1>4, <2>1, <3>2 DEF GIInv, Memories
      <4>2. blk[b].ptr \in devMem
        BY <1>1, <2>1, Allocated
      <4> QED BY <1>1, <4>1, <4>2
    <3> QED BY <3>1, <3>2
  <2> QED BY <1>1, <2>1 DEF GIInv, Memories
<1>10. (PinsCount /\ SlotsUsed)'
  BY <1>1, <1>2, <1>3, PinFrame DEF OthersStay
<1>11. DmaHasSlot'
  BY <1>1, <1>2, DmaFrame DEF OthersStay
<1> QED BY <1>5, <1>6, <1>7, <1>8, <1>9, <1>10, <1>11 DEF GIInv

\* oo_gpu_buffer_free, after hipFree: the block forgets its pointer.
LEMMA FreeClearStep ==
  ASSUME GIInv, OneUser, NEW t \in Threads, FreeClear(t)
  PROVE  GIInv'
<1>0. PICK b : b = loc[t].blk
  OBVIOUS
<1>1. /\ pc[t] = "clear" /\ hip = "ok" /\ t \in Owners \cup Streamers /\ TypeOK
      /\ blk' = [blk EXCEPT ![b].ptr = Null] /\ Goto(t, "idle", Null)
      /\ UNCHANGED <<hip, pool, bins, handles, vram, asked, streams, pending, devMem, devStreams, dma>>
  BY <1>0, Running DEF FreeClear, Return, devVars, GIInv, GTypeOK
<1>2. /\ pc'[t] = "idle" /\ loc'[t] = Null /\ OthersStay(t)
      /\ pc' = [u \in Threads |-> IF u = t THEN "idle" ELSE pc[u]]
      /\ loc' = [u \in Threads |-> IF u = t THEN Null ELSE loc[u]]
  BY <1>1, GotoFacts
<1>3. b \in pool /\ b \in Blocks /\ ~blk[b].used /\ pool \subseteq Blocks
  BY <1>0, <1>1 DEF GIInv, GLocal, FreeLocal, TypeOK
<1>4. /\ blk' \in [Blocks -> BlockType] /\ blk'[b].ptr = Null /\ blk'[b].used = blk[b].used
      /\ blk'[b].bin = blk[b].bin /\ blk'[b].pins = blk[b].pins
      /\ \A c \in Blocks \ {b} : blk'[c] = blk[c]
  <2>1. blk \in [Blocks -> BlockType]
    BY <1>1 DEF TypeOK, BlockType
  <2> QED BY <1>1, <1>3, <2>1 DEF BlockType
<1>5. \A c \in Blocks : /\ blk'[c].used = blk[c].used /\ blk'[c].bin = blk[c].bin
                        /\ blk'[c].pins = blk[c].pins
  BY <1>4
<1>6. \A u \in Threads \ {t} : pc[u] \in {"idle", "copy"}
  BY <1>1, Alone
<1>7. GTypeOK'
  BY <1>1, <1>2, <1>4 DEF GIInv, GTypeOK, TypeOK, BlockType
<1>8. Untouched' /\ UserAlone'
  BY <1>1, <1>2 DEF GIInv, Untouched, UserAlone, OthersStay
<1>9. GLocal'
  <2>1. AllLocal(t)'
    BY <1>2 DEF AllLocal, FreeLocal, CopyLocal, StreamLocal, AsyncLocal
  <2>2. \A u \in Threads \ {t} : pc[u] = "copy" => loc[u].blk \in pool' /\ blk'[loc[u].blk].used
    BY <1>1, <1>3, <1>5 DEF GIInv, GLocal, CopyLocal
  <2> QED BY <1>1, <1>2, <2>1, <2>2, OthersLocal
<1>10. FreeLists'
  <2> SUFFICES ASSUME NEW m \in Bins
               PROVE  IsInjective(bins[m]) /\ ToSet(bins[m]) = {c \in pool : blk'[c].bin = m /\ ~blk'[c].used}
    BY <1>1 DEF FreeLists
  <2>1. {c \in pool : blk'[c].bin = m /\ ~blk'[c].used} = {c \in pool : blk[c].bin = m /\ ~blk[c].used}
    BY <1>3, <1>5
  <2> QED BY <2>1 DEF GIInv, FreeLists
<1>11. HandlesOne'
  BY <1>1, <1>3, <1>5 DEF GIInv, HandlesOne
<1>12. VramExact'
  <2>1. Active' = Active
    BY <1>1, <1>5 DEF Active
  <2> QED BY <1>1, <2>1 DEF GIInv, VramExact
<1>13. Memories'
  <2>1. \A c \in pool : c # b /\ blk[c].ptr # Null => blk[c].ptr \in devMem
    <3> SUFFICES ASSUME NEW c \in pool, c # b, blk[c].ptr # Null PROVE blk[c].ptr \in devMem
      OBVIOUS
    <3>1. ~\E u \in Threads : pc[u] = "clear" /\ loc[u].blk = c
      BY <1>0, <1>6
    <3> QED BY <3>1 DEF GIInv, Memories
  <2>2. \A c \in pool' : blk'[c].ptr # Null => c # b /\ blk'[c].ptr = blk[c].ptr
    BY <1>1, <1>3, <1>4
  <2>3. \A c, d \in pool' : c # d /\ blk'[c].ptr # Null => blk'[c].ptr # blk'[d].ptr
    BY <1>1, <1>3, <1>4, <2>2 DEF GIInv, Memories
  <2>4. \A c \in pool' : blk'[c].used => blk'[c].ptr # Null
    BY <1>1, <1>3, <1>4, <1>5 DEF GIInv, Memories
  <2>5. \A c \in pool' : blk'[c].ptr # Null => blk'[c].ptr \in devMem'
    BY <1>1, <2>1, <2>2
  <2>6. \A g \in Handles : handles'[g] # Null => BinToSize(blk'[handles'[g]].bin) >= asked'[g]
    BY <1>1, <1>5 DEF GIInv, Memories, TypeOK
  <2> QED BY <2>3, <2>4, <2>5, <2>6 DEF Memories
<1>14. SlotsUsed'
  BY <1>1, <1>3, <1>5 DEF GIInv, SlotsUsed
<1>15. PinsCount'
  <2> SUFFICES ASSUME NEW c \in pool
               PROVE  blk'[c].pins = Cardinality(Copying(c)') + Cardinality(Claimed(c)')
    BY <1>1 DEF PinsCount
  <2>1. Copying(c)' = Copying(c) /\ Claimed(c)' = Claimed(c)
    BY <1>1, <1>2 DEF Copying, Claimed, AllPending, OthersStay
  <2> QED BY <1>3, <1>5, <2>1 DEF GIInv, PinsCount
<1>16. DmaHasSlot'
  BY <1>1, <1>2, DmaFrame DEF OthersStay
<1> QED BY <1>7, <1>8, <1>9, <1>10, <1>11, <1>12, <1>13, <1>14, <1>15, <1>16 DEF GIInv

(* The end of an allocation: block b of the bin of x, in no handle and on  *)
(* none of the lists in rest, has memory q of its own and is handed out.   *)
ReadyFor(t, x, b, rest, q) ==
  /\ pc[t] = "idle" /\ hip = "ok" /\ HandOut(b, rest, x)
  /\ b \notin pool \/ ~blk[b].used
  /\ \A m \in Bins : /\ IsInjective(rest[m])
                     /\ ToSet(rest[m]) = {c \in pool \ {b} : blk[c].bin = m /\ ~blk[c].used}
  /\ \A c \in pool \ {b} : blk[c].ptr # q
  /\ pool' = pool \cup {b} /\ blk' \in [Blocks -> BlockType] /\ \A c \in Blocks \ {b} : blk'[c] = blk[c]
  /\ blk'[b].ptr = q /\ blk'[b].bin = SizeToBin(x) /\ blk'[b].pins = 0 /\ (blk'[b].used <=> FreeHandles # {})
  /\ devMem \subseteq devMem' /\ q \in devMem' /\ devMem' \subseteq Ptrs
  /\ UNCHANGED <<hip, streams, pending, pc, loc, devStreams, dma>>

\* A block that is on no list and backed by memory may be handed out.
LEMMA HandOutKeeps ==
  ASSUME GIInv, OneUser, NEW t \in Owners, NEW x \in Sizes, NEW b \in Blocks,
         NEW rest \in [Bins -> Seq(Blocks)], NEW q \in Ptrs, ReadyFor(t, x, b, rest, q)
  PROVE  GIInv'
<1> USE DEF ReadyFor
<1>0. TypeOK /\ t \in Threads /\ t \in Owners \cup Streamers /\ pool \subseteq Blocks /\ OthersStay(t)
  BY UsersAssumption DEF GIInv, GTypeOK, TypeOK, OthersStay
<1>1. PICK n : n = SizeToBin(x)
  OBVIOUS
<1>2. n \in Bins /\ BinToSize(n) \in Nat /\ BinToSize(n) >= x
  BY <1>1, SizeFits
<1>3. /\ \A u \in Threads : pc[u] = "copy" => loc[u].blk # b
      /\ \A i \in Pending : pending[i] # Null => pending[i].blk # b
      /\ Copying(b) = {} /\ Claimed(b) = {}
  BY Unpinned
<1>4. \A g \in Handles : handles[g] # b
  BY NullAssumption DEF GIInv, HandlesOne
<1>5. Untouched' /\ UserAlone'
  BY DEF GIInv, Untouched, UserAlone
<1>6. GLocal'
  <2>1. AllLocal(t)'
    BY DEF AllLocal, FreeLocal, CopyLocal, StreamLocal, AsyncLocal
  <2>2. \A u \in Threads \ {t} : pc[u] = "copy" => loc[u].blk \in pool' /\ blk'[loc[u].blk].used
    BY <1>0, <1>3 DEF GIInv, GLocal, CopyLocal
  <2> QED BY <1>0, <2>1, <2>2, OthersLocal
<1>7. SlotsUsed'
  BY <1>0, <1>3 DEF GIInv, SlotsUsed
<1>8. PinsCount'
  <2> SUFFICES ASSUME NEW c \in pool \cup {b}
               PROVE  blk'[c].pins = Cardinality(Copying(c)') + Cardinality(Claimed(c)')
    BY DEF PinsCount
  <2>1. Copying(c)' = Copying(c) /\ Claimed(c)' = Claimed(c)
    BY DEF Copying, Claimed, AllPending
  <2>2. CASE c = b
    <3>1. Cardinality(Copying(c)) = 0 /\ Cardinality(Claimed(c)) = 0
      BY <1>3, <2>2, FS_EmptySet
    <3> QED BY <2>1, <2>2, <3>1
  <2>3. CASE c # b
    BY <1>0, <2>1, <2>3 DEF GIInv, PinsCount
  <2> QED BY <2>2, <2>3
<1>9. DmaHasSlot'
  BY DmaFrame
<1>10. /\ \A c, d \in pool' : c # d /\ blk'[c].ptr # Null => blk'[c].ptr # blk'[d].ptr
       /\ \A c \in pool' : blk'[c].used => blk'[c].ptr # Null
       /\ \A c \in pool' : blk'[c].ptr # Null => blk'[c].ptr \in devMem'
  <2>0. q # Null
    BY NullAssumption
  <2>1. \A c \in pool' : c # b => c \in pool /\ c \in pool \ {b} /\ blk'[c] = blk[c]
    BY <1>0
  <2>2. \A c, d \in pool' : c # d /\ blk'[c].ptr # Null => blk'[c].ptr # blk'[d].ptr
    BY <2>0, <2>1 DEF GIInv, Memories
  <2>3. \A c \in pool' : blk'[c].used => blk'[c].ptr # Null
    BY <2>0, <2>1 DEF GIInv, Memories
  <2>4. \A c \in pool : blk[c].ptr # Null => blk[c].ptr \in devMem
    BY <1>0, Allocated
  <2>5. \A c \in pool' : blk'[c].ptr # Null => blk'[c].ptr \in devMem'
    BY <2>1, <2>4
  <2> QED BY <2>2, <2>3, <2>5
<1>11. CASE FreeHandles # {}
  <2>1. PICK h : h = Min(FreeHandles)
    OBVIOUS
  <2>2. h \in Handles /\ handles[h] = Null
    <3>1. FreeHandles \in SUBSET Nat /\ FreeHandles # {}
      BY <1>11, SlotsAssumption DEF FreeHandles, Handles
    <3>2. h \in FreeHandles
      BY <2>1, <3>1, MinProperties
    <3> QED BY <3>2 DEF FreeHandles
  <2>3. /\ handles' = [handles EXCEPT ![h] = b] /\ asked' = [asked EXCEPT ![h] = x]
        /\ bins' = rest /\ vram' = vram + BinToSize(n) /\ blk'[b].used
    BY <1>1, <1>11, <2>1 DEF HandOut
  <2>4. /\ handles' \in [Handles -> Blocks \cup {Null}] /\ handles'[h] = b
        /\ \A g \in Handles \ {h} : handles'[g] = handles[g] /\ asked'[g] = asked[g]
        /\ asked' \in [Handles -> Sizes \cup {0}] /\ asked'[h] = x
    BY <1>0, <2>2, <2>3 DEF TypeOK
  <2>5. VramExact' /\ vram' \in Nat
    <3>1. Active \in [Blocks -> Nat]
      BY <1>0, ActiveType
    <3>2. PICK w : w = Active'
      OBVIOUS
    <3>3. w = [c \in Blocks |-> IF c \in pool' /\ blk'[c].used THEN BinToSize(blk'[c].bin) ELSE 0]
      BY <3>2 DEF Active
    <3>4. w[b] = BinToSize(n) /\ \A c \in Blocks \ {b} : w[c] = Active[c]
      BY <1>1, <2>3, <3>3 DEF Active
    <3>5. w \in [Blocks -> Nat]
      BY <1>2, <3>1, <3>3, <3>4
    <3>6. Active[b] = 0
      BY DEF Active
    <3>7. /\ SumFunction(w) = SumFunction(Active) - Active[b] + w[b]
          /\ SumFunction(Active) \in Nat /\ SumFunction(w) \in Nat
      BY <3>1, <3>4, <3>5, SumMoves, BlocksAssumption
    <3>8. vram = SumFunction(Active)
      BY DEF GIInv, VramExact
    <3>9. vram' = SumFunction(w)
      BY <1>2, <2>3, <3>4, <3>6, <3>7, <3>8
    <3> QED BY <3>2, <3>7, <3>9 DEF VramExact
  <2>6. GTypeOK'
    BY <1>0, <2>3, <2>4, <2>5 DEF GIInv, GTypeOK, TypeOK, BlockType
  <2>7. FreeLists'
    <3> SUFFICES ASSUME NEW m \in Bins
                 PROVE  /\ IsInjective(rest[m])
                        /\ ToSet(rest[m]) = {c \in pool' : blk'[c].bin = m /\ ~blk'[c].used}
      BY <2>3 DEF FreeLists
    <3>1. {c \in pool' : blk'[c].bin = m /\ ~blk'[c].used} = {c \in pool \ {b} : blk[c].bin = m /\ ~blk[c].used}
      BY <1>0, <2>3
    <3> QED BY <3>1
  <2>8. HandlesOne'
    <3>1. \A g \in Handles : handles'[g] # Null => handles'[g] \in pool' /\ blk'[handles'[g]].used
      BY <1>0, <1>4, <2>3, <2>4 DEF GIInv, HandlesOne
    <3>2. \A c \in pool' : blk'[c].used => \E g \in Handles : handles'[g] = c
      <4> SUFFICES ASSUME NEW c \in pool', blk'[c].used, c # b PROVE \E g \in Handles : handles'[g] = c
        BY <2>2, <2>4
      <4>1. c \in pool /\ blk[c].used
        BY <1>0
      <4>2. PICK g \in Handles : handles[g] = c
        BY <4>1 DEF GIInv, HandlesOne
      <4>3. g # h
        BY <1>0, <2>2, <4>1, <4>2, NullAssumption
      <4> QED BY <2>4, <4>2, <4>3
    <3>3. \A f, g \in Handles : handles'[f] = handles'[g] /\ handles'[f] # Null => f = g
      BY <1>4, <2>4 DEF GIInv, HandlesOne
    <3> QED BY <3>1, <3>2, <3>3 DEF HandlesOne
  <2>9. Memories'
    <3>1. \A g \in Handles : handles'[g] # Null => BinToSize(blk'[handles'[g]].bin) >= asked'[g]
      <4> SUFFICES ASSUME NEW g \in Handles, handles'[g] # Null
                   PROVE  BinToSize(blk'[handles'[g]].bin) >= asked'[g]
        OBVIOUS
      <4>1. CASE g = h
        BY <1>1, <1>2, <2>4, <4>1
      <4>2. CASE g # h
        <5>1. handles'[g] = handles[g] /\ asked'[g] = asked[g] /\ handles[g] \in Blocks \ {b}
          BY <1>0, <1>4, <2>4, <4>2 DEF TypeOK
        <5> QED BY <5>1 DEF GIInv, Memories
      <4> QED BY <4>1, <4>2
    <3> QED BY <1>10, <3>1 DEF Memories
  <2> QED BY <1>5, <1>6, <1>7, <1>8, <1>9, <2>5, <2>6, <2>7, <2>8, <2>9 DEF GIInv
<1>12. CASE FreeHandles = {}
  <2>1. PICK f : f = <<b>> \o rest[n]
    OBVIOUS
  <2>2. /\ bins' = [rest EXCEPT ![n] = f] /\ UNCHANGED <<handles, asked, vram>> /\ ~blk'[b].used
    BY <1>1, <1>12, <2>1 DEF HandOut
  <2>3. f \in Seq(Blocks) /\ IsInjective(f) /\ ToSet(f) = ToSet(rest[n]) \cup {b}
    <3>1. rest[n] \in Seq(Blocks) /\ IsInjective(rest[n]) /\ b \notin ToSet(rest[n])
      BY <1>2
    <3> QED BY <2>1, <3>1, PushFree
  <2>4. bins' \in [Bins -> Seq(Blocks)] /\ bins'[n] = f /\ \A m \in Bins \ {n} : bins'[m] = rest[m]
    BY <1>2, <2>2, <2>3
  <2>5. GTypeOK'
    BY <1>0, <2>2, <2>4 DEF GIInv, GTypeOK, TypeOK, BlockType
  <2>6. FreeLists'
    <3> SUFFICES ASSUME NEW m \in Bins
                 PROVE  /\ IsInjective(bins'[m])
                        /\ ToSet(bins'[m]) = {c \in pool' : blk'[c].bin = m /\ ~blk'[c].used}
      BY DEF FreeLists
    <3>1. CASE m = n
      <4>1. {c \in pool' : blk'[c].bin = m /\ ~blk'[c].used}
              = {c \in pool \ {b} : blk[c].bin = m /\ ~blk[c].used} \cup {b}
        BY <1>0, <1>1, <2>2, <3>1
      <4> QED BY <2>3, <2>4, <3>1, <4>1
    <3>2. CASE m # n
      <4>1. {c \in pool' : blk'[c].bin = m /\ ~blk'[c].used} = {c \in pool \ {b} : blk[c].bin = m /\ ~blk[c].used}
        BY <1>0, <1>1, <2>2, <3>2
      <4> QED BY <2>4, <3>2, <4>1
    <3> QED BY <3>1, <3>2
  <2>7. HandlesOne'
    BY <1>0, <1>4, <2>2 DEF GIInv, HandlesOne
  <2>8. VramExact'
    <3>1. Active' = Active
      BY <2>2 DEF Active
    <3> QED BY <2>2, <3>1 DEF GIInv, VramExact
  <2>9. Memories'
    <3>1. \A g \in Handles : handles'[g] # Null => BinToSize(blk'[handles'[g]].bin) >= asked'[g]
      BY <1>0, <1>4, <2>2 DEF GIInv, Memories, TypeOK
    <3> QED BY <1>10, <3>1 DEF Memories
  <2> QED BY <1>5, <1>6, <1>7, <1>8, <1>9, <2>5, <2>6, <2>7, <2>8, <2>9 DEF GIInv
<1> QED BY <1>11, <1>12

\* oo_gpu_buffer_alloc with a block the pool did not have.
LEMMA AllocNewStep ==
  ASSUME GIInv, OneUser, NEW t \in Threads, NEW x \in Sizes, NEW b \in Blocks, NEW p \in Ptrs,
         AllocNew(t, x, b, p)
  PROVE  GIInv'
<1>0. PICK n : n = SizeToBin(x)
  OBVIOUS
<1>1. /\ pc[t] = "idle" /\ hip = "ok" /\ t \in Owners /\ b \notin pool /\ p \notin devMem /\ TypeOK
      /\ devMem' = devMem \cup {p} /\ pool' = pool \cup {b} /\ HandOut(b, bins, x)
      /\ blk' = [blk EXCEPT ![b] = [ptr |-> p, bin |-> n, used |-> FreeHandles # {}, pins |-> 0]]
      /\ UNCHANGED <<hip, streams, pending, pc, loc, devStreams, dma>>
  BY <1>0 DEF AllocNew, Enter, GIInv, GTypeOK
<1>2. n \in Bins
  BY <1>0, SizeFits
<1>3. PICK f \in BOOLEAN : f = (FreeHandles # {})
  OBVIOUS
<1>4. PICK r : r = [ptr |-> p, bin |-> n, used |-> f, pins |-> 0]
  OBVIOUS
<1>5. blk' = [blk EXCEPT ![b] = r]
  BY <1>1, <1>3, <1>4, Zenon
<1>6. r \in BlockType /\ r.ptr = p /\ r.bin = n /\ r.pins = 0 /\ r.used = f
  BY <1>2, <1>4 DEF BlockType
<1>7. blk \in [Blocks -> BlockType]
  BY <1>1 DEF TypeOK, BlockType
<1>8. blk' \in [Blocks -> BlockType] /\ blk'[b] = r /\ \A c \in Blocks \ {b} : blk'[c] = blk[c]
  BY <1>5, <1>6, <1>7
<1>9. blk'[b].used <=> FreeHandles # {}
  BY <1>3, <1>6, <1>8
<1>10. bins \in [Bins -> Seq(Blocks)]
  BY <1>1 DEF TypeOK
<1>11. \A m \in Bins : /\ IsInjective(bins[m])
                       /\ ToSet(bins[m]) = {c \in pool \ {b} : blk[c].bin = m /\ ~blk[c].used}
  <2>1. pool \ {b} = pool
    BY <1>1
  <2> QED BY <2>1 DEF GIInv, FreeLists
<1>12. \A c \in pool \ {b} : blk[c].ptr # p
  <2>1. \A c \in pool : blk[c].ptr # Null => blk[c].ptr \in devMem
    BY <1>1, Allocated
  <2> QED BY <1>1, <2>1, NullAssumption
<1>13. devMem \subseteq devMem' /\ p \in devMem' /\ devMem' \subseteq Ptrs
  BY <1>1 DEF TypeOK
<1>14. blk'[b].ptr = p /\ blk'[b].bin = SizeToBin(x) /\ blk'[b].pins = 0
  BY <1>0, <1>6, <1>8
<1>15. ReadyFor(t, x, b, bins, p)
  BY <1>1, <1>8, <1>9, <1>11, <1>12, <1>13, <1>14 DEF ReadyFor
<1> QED BY <1>1, <1>10, <1>15, HandOutKeeps

\* oo_gpu_buffer_alloc with a block from its free list, or refused for want of memory.
LEMMA AllocReuseStep ==
  ASSUME GIInv, OneUser, NEW t \in Threads, NEW x \in Sizes, NEW p \in Ptrs \cup {Null}, AllocReuse(t, x, p)
  PROVE  GIInv'
<1>0. PICK n : n = SizeToBin(x)
  OBVIOUS
<1>1. PICK b : b = Head(bins[n])
  OBVIOUS
<1>2. PICK q : q = IF blk[b].ptr = Null THEN p ELSE blk[b].ptr
  OBVIOUS
<1>3. /\ pc[t] = "idle" /\ hip = "ok" /\ t \in Owners /\ TypeOK /\ bins[n] # << >>
      /\ blk[b].ptr = Null => p \in (Ptrs \ devMem) \cup {Null}
      /\ UNCHANGED <<hip, pool, streams, pending, pc, loc, devStreams, dma>>
  BY <1>0, <1>1 DEF AllocReuse, Enter, GIInv, GTypeOK
<1>4. /\ n \in Bins /\ bins \in [Bins -> Seq(Blocks)] /\ bins[n] \in Seq(Blocks) /\ IsInjective(bins[n])
      /\ ToSet(bins[n]) = {c \in pool : blk[c].bin = n /\ ~blk[c].used}
  <2>1. n \in Bins
    BY <1>0, SizeFits
  <2> QED BY <1>3, <2>1 DEF GIInv, FreeLists, TypeOK
<1>5. b \in Blocks /\ b \in pool /\ blk[b].bin = n /\ ~blk[b].used
  <2>1. b \in Blocks /\ b \in ToSet(bins[n])
    BY <1>1, <1>3, <1>4, TailFree
  <2> QED BY <1>4, <2>1
<1>6. blk \in [Blocks -> BlockType] /\ blk[b] \in BlockType
  BY <1>3, <1>5 DEF TypeOK, BlockType
<1>7. blk[b].pins = 0
  <2>1. Copying(b) = {} /\ Claimed(b) = {}
    BY <1>5, Unpinned
  <2>2. Cardinality(Copying(b)) = 0 /\ Cardinality(Claimed(b)) = 0
    BY <2>1, FS_EmptySet
  <2> QED BY <1>5, <2>2 DEF GIInv, PinsCount
<1>8. CASE q = Null
  <2>1. blk' = [blk EXCEPT ![b].pins = 0] /\ UNCHANGED <<handles, asked, bins, vram, devMem>>
    BY <1>0, <1>1, <1>2, <1>8 DEF AllocReuse
  <2>2. blk' = blk
    BY <1>5, <1>6, <1>7, <2>1 DEF BlockType
  <2>3. UNCHANGED vars
    BY <1>3, <2>1, <2>2 DEF vars, poolVars, devVars
  <2>4. SameBlocks /\ \A c \in pool : blk'[c].pins = blk[c].pins
    BY <2>2 DEF SameBlocks
  <2>5. GTypeOK' /\ Untouched' /\ UserAlone' /\ SlotsUsed'
    BY <2>1, <2>2, <1>3 DEF GIInv, GTypeOK, TypeOK, Untouched, UserAlone, SlotsUsed
  <2>6. GLocal'
    <3>1. FreeLocal(t)' /\ CopyLocal(t)' /\ AsyncLocal(t)' /\ StreamLocal(t)'
      BY <1>3 DEF FreeLocal, CopyLocal, AsyncLocal, StreamLocal
    <3> QED BY <1>3, <2>4, <3>1, LocalFrame DEF AllLocal, OthersStay
  <2>7. (FreeLists /\ HandlesOne /\ VramExact)' /\ Memories'
    BY <1>3, <2>1, <2>4, PoolFrame, MemFrame
  <2>8. PinsCount' /\ DmaHasSlot'
    BY <1>3, <2>4, PinFrame, DmaFrame
  <2> QED BY <2>5, <2>6, <2>7, <2>8 DEF GIInv
<1>9. CASE q # Null
  <2>1. PICK rest : rest = [bins EXCEPT ![n] = Tail(bins[n])]
    OBVIOUS
  <2>2. PICK f \in BOOLEAN : f = (FreeHandles # {})
    OBVIOUS
  <2>3. /\ devMem' = devMem \cup ({p} \ {Null}) /\ HandOut(b, rest, x)
        /\ blk' = [blk EXCEPT ![b] = [blk[b] EXCEPT !.ptr = q, !.pins = 0, !.used = FreeHandles # {}]]
    BY <1>0, <1>1, <1>2, <1>9, <2>1 DEF AllocReuse
  <2>4. PICK r : r = [blk[b] EXCEPT !.ptr = q, !.pins = 0, !.used = f]
    OBVIOUS
  <2>5. blk' = [blk EXCEPT ![b] = r]
    BY <2>2, <2>3, <2>4, Zenon
  <2>6. q \in Ptrs
    BY <1>2, <1>3, <1>6, <1>9 DEF BlockType
  <2>7. r \in BlockType /\ r.ptr = q /\ r.bin = n /\ r.pins = 0 /\ r.used = f
    BY <1>5, <1>6, <2>4, <2>6 DEF BlockType
  <2>8. blk' \in [Blocks -> BlockType] /\ blk'[b] = r /\ \A c \in Blocks \ {b} : blk'[c] = blk[c]
    BY <1>5, <1>6, <2>5, <2>7
  <2>9. blk'[b].used <=> FreeHandles # {}
    BY <2>2, <2>7, <2>8
  <2>10. /\ Tail(bins[n]) \in Seq(Blocks) /\ IsInjective(Tail(bins[n]))
         /\ ToSet(Tail(bins[n])) = ToSet(bins[n]) \ {b}
    BY <1>1, <1>3, <1>4, TailFree
  <2>11. rest \in [Bins -> Seq(Blocks)] /\ rest[n] = Tail(bins[n]) /\ \A m \in Bins \ {n} : rest[m] = bins[m]
    BY <1>4, <2>1, <2>10
  <2>12. \A m \in Bins : /\ IsInjective(rest[m])
                         /\ ToSet(rest[m]) = {c \in pool \ {b} : blk[c].bin = m /\ ~blk[c].used}
    <3> SUFFICES ASSUME NEW m \in Bins
                 PROVE  /\ IsInjective(rest[m])
                        /\ ToSet(rest[m]) = {c \in pool \ {b} : blk[c].bin = m /\ ~blk[c].used}
      OBVIOUS
    <3>1. CASE m = n
      BY <1>4, <2>10, <2>11, <3>1
    <3>2. CASE m # n
      <4>1. rest[m] = bins[m]
        BY <2>11, <3>2
      <4>2. {c \in pool \ {b} : blk[c].bin = m /\ ~blk[c].used} = {c \in pool : blk[c].bin = m /\ ~blk[c].used}
        BY <1>5, <3>2
      <4> QED BY <4>1, <4>2 DEF GIInv, FreeLists
    <3> QED BY <3>1, <3>2
  <2>13. /\ \A c \in pool \ {b} : blk[c].ptr # q
         /\ devMem \subseteq devMem' /\ q \in devMem' /\ devMem' \subseteq Ptrs
    <3>1. \A c \in pool : blk[c].ptr # Null => blk[c].ptr \in devMem
      BY <1>3, Allocated
    <3>2. devMem \subseteq devMem' /\ devMem' \subseteq Ptrs
      BY <1>3, <2>3 DEF TypeOK
    <3>3. CASE blk[b].ptr = Null
      BY <1>2, <1>3, <1>9, <2>3, <3>1, <3>2, <3>3
    <3>4. CASE blk[b].ptr # Null
      <4>1. q = blk[b].ptr /\ q \in devMem
        BY <1>2, <1>5, <3>1, <3>4
      <4>2. \A c \in pool \ {b} : blk[b].ptr # blk[c].ptr
        BY <1>5, <3>4 DEF GIInv, Memories
      <4> QED BY <3>2, <4>1, <4>2
    <3> QED BY <3>3, <3>4
  <2>14. pool' = pool \cup {b}
    BY <1>3, <1>5
  <2>15. blk'[b].ptr = q /\ blk'[b].bin = SizeToBin(x) /\ blk'[b].pins = 0
    BY <1>0, <2>7, <2>8
  <2>16. ReadyFor(t, x, b, rest, q)
    BY <1>3, <1>5, <2>3, <2>8, <2>9, <2>12, <2>13, <2>14, <2>15 DEF ReadyFor
  <2> QED BY <1>3, <1>5, <2>6, <2>11, <2>16, HandOutKeeps
<1> QED BY <1>8, <1>9

\* oo_gpu_pool_purge empties the pool, unless a block is pinned or in use.
LEMMA PurgePoolStep ==
  ASSUME GIInv, OneUser, NEW t \in Threads, PurgePool(t)
  PROVE  GIInv'
<1>1. /\ pc[t] = "purge" /\ hip = "ok" /\ t \in Owners \cup Streamers /\ TypeOK
      /\ Goto(t, "idle", Null) /\ pending' = [i \in Pending |-> Null]
      /\ UNCHANGED <<hip, streams, devStreams, dma>>
  BY Running DEF PurgePool, Return, GIInv, GTypeOK
<1>2. dma = {}
  BY <1>1 DEF GIInv, GLocal, StreamLocal
<1>3. CASE \E b \in pool : Released(AllPending)[b].pins > 0 \/ blk[b].used
  <2>1. blk' = Released(AllPending) /\ UNCHANGED <<pool, bins, handles, vram, asked, devMem>>
    BY <1>3 DEF PurgePool
  <2>2. AllPending \in SUBSET AllPending
    OBVIOUS
  <2>3. /\ blk' \in [Blocks -> [ptr : Ptrs \cup {Null}, bin : Bins, used : BOOLEAN, pins : Nat]]
        /\ SameBlocks /\ \A b \in pool : blk'[b].pins = blk[b].pins - Cardinality(In(AllPending, b))
    BY <2>1, <2>2, ReleasedFacts DEF SameBlocks
  <2>4. pending' = [i \in Pending |-> IF i \in AllPending THEN Null ELSE pending[i]]
    BY <1>1 DEF AllPending
  <2>5. streams' \in [Streams -> Objs]
    BY <1>1 DEF TypeOK, Objs
  <2> QED BY <1>1, <1>2, <2>1, <2>2, <2>3, <2>4, <2>5, UnclaimKeeps
<1>4. CASE ~\E b \in pool : Released(AllPending)[b].pins > 0 \/ blk[b].used
  <2>1. /\ devMem' = devMem \ {blk[b].ptr : b \in pool} /\ blk' = [b \in Blocks |-> Fresh]
        /\ pool' = {} /\ bins' = [n \in Bins |-> << >>] /\ handles' = [h \in Handles |-> Null]
        /\ asked' = [h \in Handles |-> 0] /\ vram' = 0
    BY <1>4 DEF PurgePool
  <2>2. /\ pc'[t] = "idle" /\ loc'[t] = Null /\ OthersStay(t)
        /\ pc' = [u \in Threads |-> IF u = t THEN "idle" ELSE pc[u]]
        /\ loc' = [u \in Threads |-> IF u = t THEN Null ELSE loc[u]]
    BY <1>1, GotoFacts
  <2>3. \A u \in Threads : pc'[u] = "idle"
    <3> SUFFICES ASSUME NEW u \in Threads \ {t} PROVE pc[u] = "idle"
      BY <2>2 DEF OthersStay
    <3>1. pc[u] \in {"idle", "copy"}
      BY <1>1, Alone
    <3>2. pc[u] # "copy"
      BY <1>4 DEF GIInv, GLocal, CopyLocal
    <3> QED BY <3>1, <3>2
  <2>4. GTypeOK'
    <3>1. Fresh \in [ptr : Ptrs \cup {Null}, bin : Bins, used : BOOLEAN, pins : Nat]
      BY BinsAssumption DEF Fresh, Bins
    <3>2. bins' \in [Bins -> Seq(Blocks)]
      BY <2>1
    <3> QED BY <1>1, <2>1, <2>2, <3>1, <3>2 DEF GIInv, GTypeOK, TypeOK
  <2>5. Untouched' /\ UserAlone'
    BY <1>1, <2>3 DEF Untouched, UserAlone
  <2>6. GLocal'
    BY <2>3 DEF GLocal, FreeLocal, CopyLocal, AsyncLocal, StreamLocal
  <2>7. FreeLists'
    BY <2>1 DEF FreeLists, IsInjective, ToSet
  <2>8. HandlesOne' /\ Memories' /\ PinsCount' /\ SlotsUsed' /\ DmaHasSlot'
    BY <1>1, <1>2, <2>1 DEF HandlesOne, Memories, PinsCount, SlotsUsed, DmaHasSlot
  <2>9. VramExact'
    <3>1. PICK w : w = Active'
      OBVIOUS
    <3>2. w = [b \in Blocks |-> 0]
      BY <2>1, <3>1 DEF Active
    <3>3. w \in [Blocks -> Nat] /\ \A b \in Blocks : w[b] = 0
      BY <3>2
    <3>4. SumFunction(w) = 0
      BY <3>3, SumOfNaturals, BlocksAssumption
    <3> QED BY <2>1, <3>1, <3>4 DEF VramExact
  <2> QED BY <2>4, <2>5, <2>6, <2>7, <2>8, <2>9 DEF GIInv
<1> QED BY <1>3, <1>4
-----------------------------------------------------------------------------
\* The initial state satisfies the invariant.
LEMMA GpuInitial == Init => GIInv
<1> SUFFICES ASSUME Init PROVE GIInv
  OBVIOUS
<1>1. GTypeOK
  <2>1. Fresh \in [ptr : Ptrs \cup {Null}, bin : Bins, used : BOOLEAN, pins : Nat]
    BY BinsAssumption DEF Fresh, Bins
  <2>2. bins \in [Bins -> Seq(Blocks)]
    BY DEF Init
  <2>3. IsFiniteSet(dma)
    BY FS_EmptySet DEF Init
  <2> QED BY <2>1, <2>2, <2>3 DEF Init, GTypeOK, TypeOK
<1>2. Untouched /\ UserAlone
  BY DEF Init, Untouched, UserAlone
<1>3. GLocal
  BY DEF Init, GLocal, FreeLocal, CopyLocal, AsyncLocal, StreamLocal
<1>4. FreeLists
  BY DEF Init, FreeLists, IsInjective, ToSet
<1>5. HandlesOne /\ Memories /\ PinsCount /\ SlotsUsed /\ DmaHasSlot
  BY DEF Init, HandlesOne, Memories, PinsCount, SlotsUsed, DmaHasSlot
<1>6. VramExact
  <2>1. Active \in [Blocks -> Nat] /\ \A b \in Blocks : Active[b] = 0
    BY DEF Init, Active
  <2>2. SumFunction(Active) = 0
    BY <2>1, SumOfNaturals, BlocksAssumption
  <2> QED BY <2>2 DEF Init, VramExact
<1> QED BY <1>1, <1>2, <1>3, <1>4, <1>5, <1>6 DEF GIInv

\* A stuttering step keeps the invariant.
LEMMA GpuStays ==
  ASSUME GIInv, UNCHANGED vars PROVE GIInv'
<1>1. /\ UNCHANGED <<hip, pool, blk, bins, handles, vram, asked, streams, pending, pc, loc>>
      /\ UNCHANGED <<devMem, devStreams, dma>>
  BY DEF vars, poolVars, devVars
<1>2. SameBlocks /\ \A b \in pool : blk'[b].pins = blk[b].pins
  BY <1>1 DEF SameBlocks
<1>3. GTypeOK' /\ Untouched' /\ UserAlone' /\ SlotsUsed'
  BY <1>1 DEF GIInv, GTypeOK, TypeOK, Untouched, UserAlone, SlotsUsed
<1>4. GLocal'
  <2> SUFFICES ASSUME NEW t \in Threads PROVE AllLocal(t)'
    BY DEF GLocal, AllLocal
  <2>1. FreeLocal(t) /\ CopyLocal(t) /\ AsyncLocal(t) /\ StreamLocal(t)
    BY DEF GIInv, GLocal
  <2>2. FreeLocal(t)' /\ CopyLocal(t)' /\ AsyncLocal(t)' /\ StreamLocal(t)'
    BY <1>1, <2>1 DEF FreeLocal, CopyLocal, AsyncLocal, StreamLocal, Quiet
  <2> QED BY <2>2 DEF AllLocal
<1>5. (FreeLists /\ HandlesOne /\ VramExact)' /\ Memories'
  BY <1>1, <1>2, PoolFrame, MemFrame
<1>6. PinsCount' /\ DmaHasSlot'
  BY <1>1, <1>2, PinFrame, DmaFrame
<1> QED BY <1>3, <1>4, <1>5, <1>6 DEF GIInv

\* Every step keeps the invariant.
LEMMA GpuStep ==
  ASSUME GIInv, OneUser, ~SyncFails, Next PROVE GIInv'
<1>1. ASSUME NEW d \in dma, DmaDone(d) PROVE GIInv'
  BY <1>1, DmaDoneStep
<1>2. ASSUME NEW t \in Threads, GpuInit(t) PROVE GIInv'
  BY <1>2, GpuInitStep
<1>3. ASSUME NEW t \in Threads, NEW x \in Sizes, NEW p \in Ptrs \cup {Null}, AllocReuse(t, x, p) PROVE GIInv'
  BY <1>3, AllocReuseStep
<1>4. ASSUME NEW t \in Threads, NEW x \in Sizes, NEW b \in Blocks, NEW p \in Ptrs, AllocNew(t, x, b, p) PROVE GIInv'
  BY <1>4, AllocNewStep
<1>5. ASSUME NEW t \in Threads, NEW h \in Handles, FreeBlock(t, h) PROVE GIInv'
  BY <1>5, FreeBlockStep
<1>6. ASSUME NEW t \in Threads, FreeDevice(t) \/ FreeClear(t) PROVE GIInv'
  BY <1>6, FreeDeviceStep, FreeClearStep
<1>7. ASSUME NEW t \in Threads, NEW h \in Handles, NEW x \in Sizes, CopyPin(t, h, x) \/ AsyncClaim(t, h, x) PROVE GIInv'
  BY <1>7, CopyPinStep, AsyncClaimStep
<1>8. ASSUME NEW t \in Threads, CopyUnpin(t) \/ AsyncQueued(t) \/ AsyncFailed(t) PROVE GIInv'
  BY <1>8, CopyUnpinStep, AsyncQueuedStep, AsyncFailedStep
<1>9. ASSUME NEW t \in Threads, NEW o \in StreamObjs, StreamCreate(t, o) PROVE GIInv'
  BY <1>9, StreamCreateStep
<1>10. ASSUME NEW t \in Threads,
              \/ \E s \in Streams : AsyncCheck(t, s) \/ DestroyRead(t, s) \/ SyncRead(t, s)
              \/ DestroyWait(t) \/ DestroyStream(t) \/ SyncWait(t)
              \/ DeviceSync(t) \/ DeviceWait(t) \/ PurgeStart(t) \/ PurgeWait(t)
       PROVE  GIInv'
  BY <1>10, WaitStep
<1>11. ASSUME NEW t \in Threads, DestroyDrop(t) \/ SyncRelease(t) \/ DeviceRelease(t) PROVE GIInv'
  BY <1>11, ReleaseSteps
<1>12. ASSUME NEW t \in Threads, PurgePool(t) PROVE GIInv'
  BY <1>12, PurgePoolStep
<1> QED BY <1>1, <1>2, <1>3, <1>4, <1>5, <1>6, <1>7, <1>8, <1>9, <1>10, <1>11, <1>12 DEF Next

\* The invariant gives GpuSound.
LEMMA GpuImplies ==
  ASSUME GIInv, OneUser PROVE GpuSound
<1>1. TypeOK /\ pool \subseteq Blocks
  BY DEF GIInv, GTypeOK, TypeOK
<1>2. \A b \in pool : Cardinality({h \in Handles : handles[h] = b}) = (IF blk[b].used THEN 1 ELSE 0)
  <2> SUFFICES ASSUME NEW b \in pool
               PROVE  Cardinality({h \in Handles : handles[h] = b}) = (IF blk[b].used THEN 1 ELSE 0)
    OBVIOUS
  <2>0. b # Null
    BY <1>1, NullAssumption
  <2>1. CASE blk[b].used
    <3>1. PICK h \in Handles : handles[h] = b
      BY <2>1 DEF GIInv, HandlesOne
    <3>2. {g \in Handles : handles[g] = b} = {h}
      BY <2>0, <3>1 DEF GIInv, HandlesOne
    <3> QED BY <2>1, <3>2, FS_Singleton
  <2>2. CASE ~blk[b].used
    <3>1. {g \in Handles : handles[g] = b} = {}
      BY <2>0, <2>2 DEF GIInv, HandlesOne
    <3> QED BY <2>2, <3>1, FS_EmptySet
  <2> QED BY <2>1, <2>2
<1>3. PoolSound
  BY <1>2 DEF GIInv, PoolSound, FreeLists, HandlesOne, VramExact
<1>4. \A b \in pool : blk[b].used => blk[b].ptr # Null /\ blk[b].ptr \in devMem
  BY DEF GIInv, GLocal, FreeLocal, Memories
<1>5. HandlesBacked
  <2> SUFFICES ASSUME NEW h \in Handles, handles[h] # Null
               PROVE  /\ blk[handles[h]].ptr \in devMem
                      /\ BinToSize(blk[handles[h]].bin) >= asked[h]
                      /\ \A g \in Handles \ {h} : handles[g] # Null => blk[handles[g]].ptr # blk[handles[h]].ptr
    BY DEF HandlesBacked
  <2>1. handles[h] \in pool /\ blk[handles[h]].used
    BY DEF GIInv, HandlesOne
  <2>2. \A g \in Handles \ {h} : handles[g] # Null => handles[g] \in pool /\ handles[g] # handles[h]
    BY DEF GIInv, HandlesOne
  <2>3. \A g \in Handles \ {h} : handles[g] # Null => blk[handles[g]].ptr # blk[handles[h]].ptr
    BY <1>4, <2>1, <2>2 DEF GIInv, Memories
  <2> QED BY <1>4, <2>1, <2>3 DEF GIInv, Memories
<1>6. PinsExact
  <2>1. \A d \in dma : d.blk \in pool /\ blk[d.blk].used /\ blk[d.blk].pins > 0
    <3> SUFFICES ASSUME NEW d \in dma PROVE d.blk \in pool /\ blk[d.blk].used /\ blk[d.blk].pins > 0
      OBVIOUS
    <3>1. HasSlot(d)
      BY DEF GIInv, DmaHasSlot
    <3>2. PICK k \in Pending : pending[k] # Null /\ pending[k].blk = d.blk
      BY <3>1 DEF HasSlot
    <3>3. d.blk \in pool /\ blk[d.blk].used
      BY <3>2 DEF GIInv, SlotsUsed
    <3>4. k \in Claimed(d.blk)
      BY <3>2 DEF Claimed, AllPending
    <3>5. Cardinality(Claimed(d.blk)) > 0 /\ Cardinality(Claimed(d.blk)) \in Nat /\ Cardinality(Copying(d.blk)) \in Nat
      BY <3>4, CountedSets, CardStep
    <3>6. blk[d.blk].pins = Cardinality(Copying(d.blk)) + Cardinality(Claimed(d.blk))
      BY <3>3 DEF GIInv, PinsCount
    <3> QED BY <3>3, <3>5, <3>6
  <2> QED BY <2>1 DEF GIInv, PinsCount, PinsExact, Copying, Claimed
<1> QED BY <1>1, <1>3, <1>5, <1>6 DEF GpuSound

(***************************************************************************)
(* The tables of the pool, the device memory behind the handles and the    *)
(* pins of copies in flight agree in every state, whatever the device      *)
(* refuses or delays and however many threads copy synchronously: for one  *)
(* thread that owns buffers and streams (with two, buffer_free is not      *)
(* atomic and the property fails) and a device that does not fail a        *)
(* synchronise while it still copies.                                      *)
(***************************************************************************)
THEOREM GpuCorrect ==
  ASSUME OneUser, ~SyncFails PROVE Spec => []GpuSound
<1>1. Init => GIInv
  BY GpuInitial
<1>2. GIInv /\ [Next]_vars => GIInv'
  BY GpuStep, GpuStays
<1>3. GIInv => GpuSound
  BY GpuImplies
<1> QED BY <1>1, <1>2, <1>3, PTL DEF Spec
=============================================================================
