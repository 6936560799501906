------------------------------- MODULE Memory -------------------------------
(***************************************************************************)
(* The raw allocator with its table of live blocks and the ambient quota   *)
(* (core/mem/alloc.c), and the payload allocator with its per-thread cache *)
(* of one large mapping (core/mem/align.c).                                *)
(*                                                                         *)
(* Raw blocks: a section under g_quota_mu is one step; the free() after it *)
(* is another.  Sizes are in words of 8 bytes, so the header is Hdr = 6    *)
(* and blocks are rounded to an even number.  posix_memalign may refuse,   *)
(* and reuses addresses.  A failed quota or bounds test exits.             *)
(*                                                                         *)
(* Payloads: sizes are in pages.  Small ones come from posix_memalign and  *)
(* are left out; the arena's are in Arena.  mmap hands out addresses that  *)
(* no cache still names (see the note on unmapped cached blocks).          *)
(***************************************************************************)
EXTENDS Integers, FiniteSets, FiniteSetsExt, Functions

CONSTANTS MemThreads,
          Addrs,        \* addresses of raw blocks
          RawSizes,     \* sizes asked of oo_alloc, in words
          BaseQuota,    \* ceiling after oo_list_quota_init, in words
          Raises,       \* sizes given to oo_alloc_bytes and oo_free_bytes
          MaxQuota,     \* bound: the ceiling
          Maps,         \* addresses of mappings
          Pages         \* sizes of large payloads, in pages

VARIABLES rawMem,       \* memory posix_memalign gave: address |-> its words
          table,        \* g_alloc_table: address |-> total_size and capacity
          ambient,      \* oo_list_ambient_bytes, in words (lists are in List)
          quota,        \* oo_list_ambient_quota
          unlinked,     \* thread |-> addresses taken out of the table, to be freed
          maps,         \* mapped memory: address |-> pages
          large,        \* live large payloads: address |-> pages asked for
          cacheBlk, cacheSz, cacheUse,  \* the thread-local cache
          memOver       \* the process has exited

rawVars == <<rawMem, table, ambient, quota, unlinked>>
mapVars == <<maps, large, cacheBlk, cacheSz, cacheUse>>
memVars == <<rawVars, mapVars, memOver>>

NoMap == "no mapping"
Hdr == 6

ASSUME MemAssumption == /\ IsFiniteSet(Addrs) /\ RawSizes \subseteq Nat
                        /\ Pages \subseteq Nat /\ NoMap \notin Maps

MemInit ==
  /\ rawMem = <<>> /\ table = <<>> /\ ambient = 0 /\ quota = BaseQuota
  /\ unlinked = [t \in MemThreads |-> {}]
  /\ maps = <<>> /\ large = <<>>
  /\ cacheBlk = [t \in MemThreads |-> NoMap] /\ cacheSz = [t \in MemThreads |-> 0]
  /\ cacheUse = [t \in MemThreads |-> FALSE]
  /\ memOver = FALSE

Drop(f, x) == [y \in DOMAIN f \ {x} |-> f[y]]
With(f, x, v) == [y \in DOMAIN f \cup {x} |-> IF y = x THEN v ELSE f[y]]
-----------------------------------------------------------------------------
(* Raw blocks. *)

Total(size) == Hdr + size + ((Hdr + size) % 2)

oo_alloc(t, size) ==
  /\ ~ memOver /\ unlinked[t] = {}
  /\ IF ambient > quota - Total(size)
     THEN memOver' = TRUE /\ UNCHANGED rawVars
     ELSE /\ UNCHANGED <<memOver, quota, unlinked>>
          /\ \/ \E a \in Addrs \ DOMAIN rawMem :
                  /\ rawMem' = With(rawMem, a, Total(size))
                  /\ table' = With(table, a, [total |-> Total(size), capacity |-> size])
                  /\ ambient' = ambient + Total(size)
             \/ UNCHANGED <<rawMem, table, ambient>>       \* posix_memalign failed: taken back
  /\ UNCHANGED mapVars

\* Mutant: the memory is given back first, and the entry stays.
FreeUnlinkLate(t, a) ==
  /\ ~ memOver /\ unlinked[t] = {}
  /\ a \in DOMAIN table
  /\ rawMem' = Drop(rawMem, a)
  /\ unlinked' = [unlinked EXCEPT ![t] = {}]
  /\ UNCHANGED <<table, ambient, quota, mapVars, memOver>>

\* oo_free: an address that is not in the table is ignored, a second free too.
FreeUnlink(t, a) ==
  /\ ~ memOver /\ unlinked[t] = {}
  /\ a \in DOMAIN table
  /\ table' = Drop(table, a)
  /\ ambient' = Max({0, ambient - table[a].total})
  /\ unlinked' = [unlinked EXCEPT ![t] = {a}]
  /\ UNCHANGED <<rawMem, quota, mapVars, memOver>>

FreeMemory(t) ==
  /\ unlinked[t] # {}
  /\ rawMem' = [a \in DOMAIN rawMem \ unlinked[t] |-> rawMem[a]]
  /\ unlinked' = [unlinked EXCEPT ![t] = {}]
  /\ UNCHANGED <<table, ambient, quota, mapVars, memOver>>

\* oo_write_int and oo_read_int: refused outside a block of the table, or past its capacity.
Access(t, a, offset) ==
  /\ ~ memOver /\ unlinked[t] = {}
  /\ memOver' = ~ (a \in DOMAIN table /\ offset <= table[a].capacity - 1)
  /\ UNCHANGED <<rawVars, mapVars>>

\* oo_alloc_bytes raises the ceiling (up to LLONG_MAX, here MaxQuota), oo_free_bytes lowers it.
oo_alloc_bytes(t, n) ==
  /\ ~ memOver /\ unlinked[t] = {}
  /\ quota' = Min({quota + n, MaxQuota})
  /\ UNCHANGED <<rawMem, table, ambient, unlinked, mapVars, memOver>>

oo_free_bytes(t, p) ==
  /\ ~ memOver /\ unlinked[t] = {} /\ p <= quota
  /\ quota' = quota - p
  /\ UNCHANGED <<rawMem, table, ambient, unlinked, mapVars, memOver>>
-----------------------------------------------------------------------------
(* Large payloads. *)

\* oo_alloc_large_mmap: the cached mapping if it is free and large enough; a free one that is
\* too small is unmapped; a fresh mapping becomes the cached one if there is none.
oo_alloc_large_mmap(t, n) ==
  /\ ~ memOver
  /\ LET own  == cacheBlk[t] # NoMap /\ ~ cacheUse[t]
         hit  == own /\ cacheSz[t] >= n
         kept == IF own /\ ~ hit THEN Drop(maps, cacheBlk[t]) ELSE maps
         blk  == IF own /\ ~ hit THEN NoMap ELSE cacheBlk[t]
     IN IF hit
        THEN /\ large' = With(large, cacheBlk[t], n)
             /\ cacheUse' = [cacheUse EXCEPT ![t] = TRUE]
             /\ UNCHANGED <<maps, cacheBlk, cacheSz>>
        ELSE \E m \in Maps \ (DOMAIN kept \cup {cacheBlk[u] : u \in MemThreads \ {t}} \cup {blk}) :
               /\ maps' = With(kept, m, n)
               /\ large' = With(large, m, n)
               /\ cacheBlk' = [cacheBlk EXCEPT ![t] = IF blk = NoMap THEN m ELSE blk]
               /\ cacheSz' = [cacheSz EXCEPT ![t] = IF blk = NoMap THEN n ELSE @]
               /\ cacheUse' = [cacheUse EXCEPT ![t] = TRUE]
  /\ UNCHANGED <<rawVars, memOver>>

\* Mutant: a cached mapping is handed back to the cache and unmapped.
oo_payload_free_both(t, m) ==
  /\ ~ memOver /\ m \in DOMAIN large
  /\ large' = Drop(large, m)
  /\ maps' = Drop(maps, m)
  /\ cacheUse' = [cacheUse EXCEPT ![t] = @ /\ m # cacheBlk[t]]
  /\ UNCHANGED <<cacheBlk, cacheSz, rawVars, memOver>>

\* oo_payload_free by any thread: its own cached mapping is kept, any other is unmapped, one
\* that another thread has in its cache included (that cache is then in use for ever).
oo_payload_free(t, m) ==
  /\ ~ memOver /\ m \in DOMAIN large
  /\ large' = Drop(large, m)
  /\ IF m = cacheBlk[t]
     THEN cacheUse' = [cacheUse EXCEPT ![t] = FALSE] /\ UNCHANGED maps
     ELSE maps' = Drop(maps, m) /\ UNCHANGED cacheUse
  /\ UNCHANGED <<cacheBlk, cacheSz, rawVars, memOver>>

MemNext ==
  \E t \in MemThreads :
    \/ \E s \in RawSizes : oo_alloc(t, s)
    \/ \E a \in Addrs : FreeUnlink(t, a) \/ Access(t, a, 0) \/ Access(t, a, 1)
    \/ FreeMemory(t)
    \/ \E n \in Raises : oo_alloc_bytes(t, n) \/ oo_free_bytes(t, n)
    \/ \E n \in Pages : oo_alloc_large_mmap(t, n)
    \/ \E m \in Maps : oo_payload_free(t, m)

MemSpec == MemInit /\ [][MemNext]_memVars
-----------------------------------------------------------------------------
BlockSizes == [a \in DOMAIN table |-> table[a].total]

(* The table of alloc.c is the truth about raw memory, whatever threads     *)
(* allocate, free twice and access meanwhile: what it lists is allocated    *)
(* and as large as it says, what is allocated is listed or about to be      *)
(* freed by the thread that unlinked it, and the ambient counter is the     *)
(* sum of the blocks listed.                                                *)
RawTableSound ==
  /\ \A a \in DOMAIN table : a \in DOMAIN rawMem /\ rawMem[a] = table[a].total
                             /\ Hdr + table[a].capacity <= rawMem[a]
  /\ DOMAIN rawMem = DOMAIN table \cup UNION {unlinked[t] : t \in MemThreads}
  /\ \A t, u \in MemThreads : unlinked[t] \cap (DOMAIN table \cup (IF t = u THEN {} ELSE unlinked[u])) = {}
  /\ ambient = SumFunction(BlockSizes)

(* Every large payload is backed by a mapping of its own of at least its    *)
(* size, across threads that free each other's payloads (align.c): a cache  *)
(* never hands out a mapping that is in use or gone.                        *)
PayloadBacked ==
  /\ \A m \in DOMAIN large : m \in DOMAIN maps /\ large[m] <= maps[m]
  /\ \A t \in MemThreads : cacheBlk[t] # NoMap /\ ~ cacheUse[t] =>
       /\ cacheBlk[t] \in DOMAIN maps \ DOMAIN large
       /\ cacheSz[t] = maps[cacheBlk[t]]

(* Both allocators keep their books: a table that matches raw memory, and   *)
(* large payloads that are backed, under every interleaving of allocation,  *)
(* access and free, a free of another thread's block included.              *)
MemorySound == RawTableSound /\ PayloadBacked
=============================================================================
