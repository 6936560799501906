------------------------------- MODULE Arena -------------------------------
(***************************************************************************)
(* The arena table of core/mem/arena.c and the payload frames, attachments *)
(* and checkpoint stack of core/mem/arena_checkpoint.c.                    *)
(*                                                                         *)
(* Offsets and sizes are in units of which ALIGN make 64 bytes, so that    *)
(* the rounding of the code shows.  Frames are the blocks payload alloc    *)
(* cuts: a header of ALIGN units and the payload.  The headers live in the *)
(* arena's own memory, hdr[s]; a payload that covers an old header leaves  *)
(* "garbage" there, and reading it can give anything.                      *)
(*                                                                         *)
(* A section under a slot's mutex is one step.  What the code does outside *)
(* it is a step of its own: the madvise of reset, the munmap of destroy,   *)
(* the gap of checkpoint between snapshot and push and that of rollback    *)
(* between pop and restore.                                                *)
(***************************************************************************)
EXTENDS Integers, SequencesExt

CONSTANTS Threads,
          NSlots,     \* OO_ARENA_SLOTS
          Caps,       \* capacities that are asked for
          Sizes,      \* payload sizes
          RawSizes,   \* sizes of raw allocations
          Junk,       \* what payload bytes can show as a dead header's cur and prev
          ALIGN,      \* 64 bytes
          CK_MAX,     \* OO_CK_MAX
          SizeMod,    \* 2^64, the modulus of size_t
          Regions,    \* addresses that mmap hands out
          MaxGen,     \* bound: creations per slot
          MaxOff,     \* bound: how far raw allocations go
          None        \* -1 as an offset, a slot or an address

ASSUME AlignAssumption == ALIGN \in Nat \ {0}
ASSUME CapsAssumption  == /\ Caps \subseteq Nat /\ \A c \in Caps : c >= ALIGN
                          /\ \E c \in Caps : \A d \in Caps : d =< c
ASSUME SizesAssumption == Sizes \cup RawSizes \subseteq Nat \ {0}
ASSUME NoneAssumption  == None \notin Nat \cup Regions
ASSUME BoundAssumption == {NSlots, CK_MAX, MaxGen, MaxOff} \subseteq Nat

Slots   == 0 .. NSlots - 1
MaxCap  == CHOOSE c \in Caps : \A d \in Caps : d =< c
Offsets == 0 .. MaxCap

ASSUME JunkAssumption  == Junk \subseteq [off : Nat, top : Offsets \cup {None}]

\* Mutant: the mask without the + 63.
RoundDown(x) == (x \div ALIGN) * ALIGN

RoundUp(x) == ((x + ALIGN - 1) \div ALIGN) * ALIGN

VARIABLES live, base, cap, off, gen, top,  \* OoArena
          hdr,       \* slot |-> offset |-> what lies there, read as a header
          frames,    \* frames the program may still use
          raw,       \* slot |-> the highest end oo_arena_alloc handed out
          active,    \* g_active_arena_slot of each thread
          ck,        \* the checkpoint stack g_ck
          pc, loc,   \* where each thread is, and what it carries
          mapped,    \* regions that are mapped
          crossed,   \* slot |-> a rollback revived frames that were dropped
          wiped      \* slot |-> a late madvise wiped pages in use

arVars == <<live, base, cap, off, gen, top>>
vars == <<arVars, hdr, frames, raw, active, ck, pc, loc, mapped, crossed, wiped>>

Header(p)  == [kind |-> "frame", prev |-> p, dead |-> FALSE]
Zero       == [kind |-> "zero", prev |-> None, dead |-> FALSE]
Garbage    == [kind |-> "garbage", prev |-> None, dead |-> FALSE]

TypeOK == /\ live \in [Slots -> BOOLEAN]
          /\ base \in [Slots -> Regions \cup {None}]
          /\ cap \in [Slots -> Caps \cup {0}]
          /\ off \in [Slots -> Nat]
          /\ gen \in [Slots -> 0 .. MaxGen]
          /\ top \in [Slots -> Offsets \cup {None}]
          /\ \A s \in Slots, c \in Offsets :
               /\ hdr[s][c].kind \in {"frame", "zero", "garbage"}
               /\ hdr[s][c].prev \in Offsets \cup {None}
               /\ hdr[s][c].dead \in BOOLEAN
          /\ \A f \in frames : f.slot \in Slots /\ f.cur \in Offsets
          /\ active \in [Threads -> Slots \cup {None}]
          /\ raw \in [Slots -> 0 .. MaxOff]
          /\ Len(ck) =< CK_MAX
          /\ pc \in [Threads -> {"idle", "push", "restore", "madvise", "munmap"}]
          /\ mapped \subseteq Regions
          /\ crossed \in [Slots -> BOOLEAN] /\ wiped \in [Slots -> BOOLEAN]

Init == /\ live = [s \in Slots |-> FALSE] /\ base = [s \in Slots |-> None]
        /\ cap = [s \in Slots |-> 0] /\ off = [s \in Slots |-> 0]
        /\ gen = [s \in Slots |-> 0] /\ top = [s \in Slots |-> None]
        /\ hdr = [s \in Slots |-> [c \in Offsets |-> Zero]]
        /\ frames = {} /\ raw = [s \in Slots |-> 0]
        /\ active = [t \in Threads |-> None]
        /\ ck = << >>
        /\ pc = [t \in Threads |-> "idle"]
        /\ loc = [t \in Threads |-> None]
        /\ mapped = {}
        /\ crossed = [s \in Slots |-> FALSE] /\ wiped = [s \in Slots |-> FALSE]

Goto(t, l, x) == pc' = [pc EXCEPT ![t] = l] /\ loc' = [loc EXCEPT ![t] = x]

-----------------------------------------------------------------------------
(***************************************************************************)
(* Bookkeeping of the model.  A checkpoint of an arena that was not        *)
(* crossed is intact as long as the arena has not been rewound below it;   *)
(* one that is not intact brings frames back that the arena had dropped.   *)
(***************************************************************************)
AgedEntry(k, s, o) == IF k.id = s /\ k.off > o THEN [k EXCEPT !.intact = FALSE] ELSE k
Aged(q, s, o) == [i \in DOMAIN q |-> AgedEntry(q[i], s, o)]
AgedLoc(s, o) ==
  [t \in Threads |-> IF pc[t] \in {"push", "restore"} THEN AgedEntry(loc[t], s, o) ELSE loc[t]]

Rewind(s, o) == ck' = Aged(ck, s, o) /\ loc' = AgedLoc(s, o)

DropFrames(s, o) == frames' = {f \in frames : f.slot # s \/ f.end =< o}

-----------------------------------------------------------------------------
(***************************************************************************)
(* oo_arena_create.                                                        *)
(***************************************************************************)
FirstFree(s) == ~live[s] /\ \A r \in 0 .. s - 1 : live[r]

Create(t, s, c, m) ==
  /\ pc[t] = "idle" /\ FirstFree(s) /\ gen[s] < MaxGen
  /\ m \in Regions \ mapped
  /\ mapped' = mapped \cup {m}
  /\ base' = [base EXCEPT ![s] = m]
  /\ cap'  = [cap  EXCEPT ![s] = c]
  /\ off'  = [off  EXCEPT ![s] = 0]
  /\ top'  = [top  EXCEPT ![s] = None]
  /\ live' = [live EXCEPT ![s] = TRUE]
  /\ gen'  = [gen  EXCEPT ![s] = @ + 1]
  /\ hdr'  = [hdr  EXCEPT ![s] = [x \in Offsets |-> Zero]]
  /\ raw' = [raw EXCEPT ![s] = 0]
  /\ crossed' = [crossed EXCEPT ![s] = FALSE]
  /\ wiped' = [wiped EXCEPT ![s] = FALSE]
  /\ UNCHANGED <<frames, active, ck, pc, loc>>

(***************************************************************************)
(* oo_arena_attach and oo_arena_detach: the thread's allocations go to     *)
(* slot s from now on.                                                     *)
(***************************************************************************)
Attach(t, s) ==
  /\ pc[t] = "idle" /\ live[s] /\ active[t] # s
  /\ active' = [active EXCEPT ![t] = s]
  /\ UNCHANGED <<arVars, hdr, frames, raw, ck, pc, loc, mapped, crossed, wiped>>

Detach(t) ==
  /\ pc[t] = "idle" /\ active[t] # None
  /\ active' = [active EXCEPT ![t] = None]
  /\ UNCHANGED <<arVars, hdr, frames, raw, ck, pc, loc, mapped, crossed, wiped>>

(***************************************************************************)
(* oo_arena_alloc with n > 0: a span of n units at the rounded offset.     *)
(* The room left is computed in size_t; the rounded offset is kept even    *)
(* when the allocation fails.                                              *)
(***************************************************************************)
RawAlloc(t, s, n) ==
  LET o    == RoundUp(off[s])
      room == (cap[s] - o) % SizeMod
  IN
  /\ pc[t] = "idle" /\ live[s] /\ o + n =< MaxOff
  /\ IF n > room
       THEN off' = [off EXCEPT ![s] = o] /\ raw' = raw
       ELSE /\ off' = [off EXCEPT ![s] = o + n]
            /\ raw' = [raw EXCEPT ![s] = IF o + n > @ THEN o + n ELSE @]
  /\ UNCHANGED <<live, base, cap, gen, top, hdr, frames, active, ck, pc, loc, mapped,
                 crossed, wiped>>

(***************************************************************************)
(* oo_payload_alloc of an attached thread: oo_arena_alloc_payload cuts a   *)
(* frame and links its header to the one below.  (If it does not fit the   *)
(* heap serves the request: the arena does not change.)                    *)
(***************************************************************************)
AllocPayload(t, n) ==
  LET s   == active[t]
      cur == RoundUp(off[s])
      end == cur + ALIGN + n
  IN
  /\ pc[t] = "idle" /\ s # None /\ live[s]
  /\ end =< cap[s]
  /\ hdr' = [hdr EXCEPT ![s] = [c \in Offsets |->
               IF c = cur THEN Header(top[s])
               ELSE IF c > cur /\ c < end THEN Garbage ELSE @[c]]]
  /\ off' = [off EXCEPT ![s] = RoundUp(end)]
  /\ top' = [top EXCEPT ![s] = cur]
  /\ frames' = frames \cup {[slot |-> s, cur |-> cur, end |-> end]}
  /\ UNCHANGED <<live, base, cap, gen, raw, active, ck, pc, loc, mapped, crossed, wiped>>

\* Mutant: the loop ends one frame early.
DeadAboveBottom(h, c) ==
  c # None /\ h[c].kind = "frame" /\ h[c].dead /\ h[c].prev # None

(***************************************************************************)
(* oo_arena_free_payload: mark the frame dead, then take dead frames off   *)
(* the top.  Walk is the loop of the code: it starts at the top and ends   *)
(* at a frame in use, at the bottom, or where the memory holds no header   *)
(* any more.  A loop that never ends leaves the thread where it is.        *)
(***************************************************************************)
DeadTop(h, c) == c # None /\ h[c].kind = "frame" /\ h[c].dead

Walk(h, start) ==
  LET step[n \in 0 .. MaxCap + 1] ==
        IF n = 0 THEN start
        ELSE LET w == step[n - 1]
             IN  IF DeadTop(h, w.top) THEN [off |-> w.top, top |-> h[w.top].prev] ELSE w
  IN  step[MaxCap + 1]

GarbageTop(h, c) == c # None /\ h[c].kind = "garbage"

Free(t, f) ==
  LET s == f.slot
      h == [hdr[s] EXCEPT ![f.cur].dead = TRUE]
      w == Walk(h, [off |-> off[s], top |-> top[s]])
  IN
  /\ pc[t] = "idle" /\ f \in frames
  /\ hdr[s][f.cur].kind = "frame"
  /\ ~DeadTop(h, w.top)
  /\ frames' = frames \ {f}
  /\ hdr' = [hdr EXCEPT ![s] = h]
  /\ \/ off' = [off EXCEPT ![s] = w.off] /\ top' = [top EXCEPT ![s] = w.top]
        /\ Rewind(s, w.off)
     \/ /\ GarbageTop(h, w.top)
        /\ \E j \in Junk : /\ off' = [off EXCEPT ![s] = j.off]
                           /\ top' = [top EXCEPT ![s] = j.top]
                           /\ Rewind(s, j.off)
  /\ UNCHANGED <<live, base, cap, gen, raw, active, pc, mapped, crossed, wiped>>

\* The header is gone: the code does not take the pointer for one of its own.
FreeUnknown(t, f) ==
  /\ pc[t] = "idle" /\ f \in frames
  /\ hdr[f.slot][f.cur].kind # "frame"
  /\ frames' = frames \ {f}
  /\ UNCHANGED <<arVars, hdr, raw, active, ck, pc, loc, mapped, crossed, wiped>>

(***************************************************************************)
(* oo_arena_on_destroy: only the calling thread is detached.               *)
(***************************************************************************)
OnDestroy(t, s) ==
  active' = [active EXCEPT ![t] = IF @ = s THEN None ELSE @]

(***************************************************************************)
(* oo_arena_reset: rewind under the mutex, then hand the pages of the base *)
(* address read there back to the kernel.  Whatever arena has been mapped  *)
(* at that address by then reads zeroes.                                   *)
(***************************************************************************)
Reset(t, s) ==
  /\ pc[t] = "idle" /\ live[s]
  /\ off' = [off EXCEPT ![s] = 0]
  /\ top' = [top EXCEPT ![s] = None]
  /\ OnDestroy(t, s)
  /\ DropFrames(s, 0)
  /\ ck' = Aged(ck, s, 0)
  /\ loc' = [AgedLoc(s, 0) EXCEPT ![t] = base[s]]
  /\ pc' = [pc EXCEPT ![t] = "madvise"]
  /\ raw' = [raw EXCEPT ![s] = 0]
  /\ crossed' = [crossed EXCEPT ![s] = FALSE]
  /\ wiped' = [wiped EXCEPT ![s] = FALSE]
  /\ UNCHANGED <<live, base, cap, gen, hdr, mapped>>

ResetAdvise(t) ==
  /\ pc[t] = "madvise"
  /\ LET hit(s) == live[s] /\ base[s] = loc[t] IN
     /\ hdr' = [s \in Slots |-> IF hit(s) THEN [c \in Offsets |-> Zero] ELSE hdr[s]]
     /\ wiped' = [s \in Slots |-> wiped[s] \/ (hit(s) /\ top[s] # None)]
  /\ Goto(t, "idle", None)
  /\ UNCHANGED <<arVars, frames, raw, active, ck, mapped, crossed>>

\* Mutant: a second destroy is not refused and finds the base still there.
DestroyAgain(t, s) ==
  /\ pc[t] = "idle" /\ base[s] # None
  /\ live' = [live EXCEPT ![s] = FALSE]
  /\ cap'  = [cap  EXCEPT ![s] = 0]
  /\ off'  = [off  EXCEPT ![s] = 0]
  /\ top'  = [top  EXCEPT ![s] = None]
  /\ OnDestroy(t, s)
  /\ DropFrames(s, 0)
  /\ Goto(t, "munmap", base[s])
  /\ UNCHANGED <<gen, base, hdr, raw, ck, mapped, crossed, wiped>>

(***************************************************************************)
(* oo_arena_destroy: empty the slot under both mutexes, then unmap.        *)
(***************************************************************************)
Destroy(t, s) ==
  /\ pc[t] = "idle" /\ live[s]
  /\ base' = [base EXCEPT ![s] = None]
  /\ live' = [live EXCEPT ![s] = FALSE]
  /\ cap'  = [cap  EXCEPT ![s] = 0]
  /\ off'  = [off  EXCEPT ![s] = 0]
  /\ top'  = [top  EXCEPT ![s] = None]
  /\ OnDestroy(t, s)
  /\ DropFrames(s, 0)
  /\ Goto(t, "munmap", base[s])
  /\ UNCHANGED <<gen, hdr, raw, ck, mapped, crossed, wiped>>

DestroyUnmap(t) ==
  /\ pc[t] = "munmap"
  /\ mapped' = mapped \ {loc[t]}
  /\ Goto(t, "idle", None)
  /\ UNCHANGED <<arVars, hdr, frames, raw, active, ck, crossed, wiped>>

-----------------------------------------------------------------------------
(***************************************************************************)
(* oo_checkpoint: snapshot the arena under its mutex, then push the entry  *)
(* on the stack all threads share, if there is room.                       *)
(***************************************************************************)
Snap(t, s) ==
  /\ pc[t] = "idle" /\ live[s]
  /\ Goto(t, "push", [id |-> s, off |-> off[s], gen |-> gen[s], top |-> top[s],
                      intact |-> ~crossed[s]])
  /\ UNCHANGED <<arVars, hdr, frames, raw, active, ck, mapped, crossed, wiped>>

\* Mutant: no test for a full stack.
PushUnchecked(t) ==
  /\ pc[t] = "push"
  /\ ck' = Append(ck, loc[t])
  /\ Goto(t, "idle", None)
  /\ UNCHANGED <<arVars, hdr, frames, raw, active, mapped, crossed, wiped>>

Push(t) ==
  /\ pc[t] = "push"
  /\ ck' = IF Len(ck) < CK_MAX THEN Append(ck, loc[t]) ELSE ck
  /\ Goto(t, "idle", None)
  /\ UNCHANGED <<arVars, hdr, frames, raw, active, mapped, crossed, wiped>>

(***************************************************************************)
(* oo_rollback: pop the entry, then restore the arena it names, unless it  *)
(* has been destroyed since.  What lies above the restored offset is given *)
(* up by the program.                                                      *)
(***************************************************************************)
Pop(t) ==
  /\ pc[t] = "idle" /\ ck # << >>
  /\ ck' = Front(ck)
  /\ Goto(t, "restore", Last(ck))
  /\ UNCHANGED <<arVars, hdr, frames, raw, active, mapped, crossed, wiped>>

\* Mutant: the generation is not compared.
ValidAnyGen(k) == live[k.id] /\ k.off =< cap[k.id]

Valid(k) == live[k.id] /\ gen[k.id] = k.gen /\ k.off =< cap[k.id]

Restore(t) ==
  LET k == loc[t]
      s == k.id
  IN
  /\ pc[t] = "restore" /\ Valid(k)
  /\ off' = [off EXCEPT ![s] = k.off]
  /\ top' = [top EXCEPT ![s] = k.top]
  /\ DropFrames(s, k.off)
  /\ crossed' = [crossed EXCEPT ![s] = @ \/ ~k.intact]
  /\ ck' = Aged(ck, s, k.off)
  /\ loc' = [AgedLoc(s, k.off) EXCEPT ![t] = None]
  /\ pc' = [pc EXCEPT ![t] = "idle"]
  /\ UNCHANGED <<live, base, cap, gen, hdr, raw, active, mapped, wiped>>

RestoreRefused(t) ==
  /\ pc[t] = "restore" /\ ~Valid(loc[t])
  /\ Goto(t, "idle", None)
  /\ UNCHANGED <<arVars, hdr, frames, raw, active, ck, mapped, crossed, wiped>>

-----------------------------------------------------------------------------
Next == \E t \in Threads :
          \/ \E s \in Slots :
               \/ \E c \in Caps, m \in Regions : Create(t, s, c, m)
               \/ Attach(t, s) \/ Reset(t, s) \/ Destroy(t, s) \/ Snap(t, s)
               \/ \E n \in RawSizes : RawAlloc(t, s, n)
          \/ Detach(t)
          \/ \E n \in Sizes : AllocPayload(t, n)
          \/ \E f \in frames : Free(t, f) \/ FreeUnknown(t, f)
          \/ ResetAdvise(t) \/ DestroyUnmap(t)
          \/ Push(t) \/ Pop(t) \/ Restore(t) \/ RestoreRefused(t)

Spec == Init /\ [][Next]_vars

-----------------------------------------------------------------------------
Sound(s) == live[s] /\ ~crossed[s] /\ ~wiped[s]

\* The frames the walk would meet if every one of them were dead.
Chain(s) ==
  LET down[n \in 0 .. MaxCap] ==
        IF n = 0 THEN top[s]
        ELSE IF down[n - 1] = None THEN None ELSE hdr[s][down[n - 1]].prev
  IN  {down[n] : n \in 0 .. MaxCap} \ {None}

(***************************************************************************)
(* Unless a rollback crossed frees or a late madvise hit, what the walk of *)
(* a free meets are the headers payload alloc wrote, each below the next   *)
(* and below the arena's offset, and every frame in use is among them: so  *)
(* a free reads no payload for a header and no frame is forgotten.         *)
(***************************************************************************)
ChainOK ==
  \A s \in Slots : Sound(s) =>
    /\ \A c \in Chain(s) : /\ hdr[s][c].kind = "frame"
                           /\ c + ALIGN < off[s]
                           /\ hdr[s][c].prev = None \/ hdr[s][c].prev + ALIGN < c
    /\ \A f \in frames : f.slot = s => f.cur \in Chain(s) /\ ~hdr[s][f.cur].dead

(***************************************************************************)
(* No two frames in use share memory and none reaches past the capacity,   *)
(* whatever threads, checkpoints and resets did, as long as no rollback    *)
(* brought dropped frames back.                                            *)
(***************************************************************************)
FramesDisjoint ==
  \A f \in frames : ~crossed[f.slot] =>
    /\ f.end =< cap[f.slot]
    /\ \A g \in frames : f.slot = g.slot => f = g \/ f.end =< g.cur \/ g.end =< f.cur

(***************************************************************************)
(* The mmap regions of live arenas are mapped, and no two share one: the   *)
(* munmap destroy makes after unlocking takes no live arena's memory.      *)
(***************************************************************************)
LiveMapped ==
  \A s \in Slots : live[s] =>
    /\ base[s] \in mapped
    /\ \A r \in Slots : live[r] /\ base[r] = base[s] => r = s

(***************************************************************************)
(* The free of the last frame in use gives the whole arena back, in        *)
(* whatever order the frames were freed, when nothing was allocated raw.   *)
(***************************************************************************)
LastFreeEmpties ==
  [][\A s \in Slots :
       (/\ Sound(s) /\ raw[s] = 0
        /\ \E t \in Threads, f \in frames : f.slot = s /\ Free(t, f)
        /\ \A f \in frames' : f.slot # s)
       => off'[s] = 0 /\ top'[s] = None]_vars

(***************************************************************************)
(* "alloc_exceeding_capacity_fails": a raw allocation that succeeds lies   *)
(* within the capacity of its arena.                                       *)
(***************************************************************************)
RawWithinCap == \A s \in Slots : live[s] => raw[s] =< cap[s]

(***************************************************************************)
(* What the threads that share an arena can rely on: intact headers,       *)
(* disjoint frames and mapped memory, whatever allocations, frees, resets, *)
(* checkpoints, rollbacks and destroys interleave.                         *)
(***************************************************************************)
ArenaSound == TypeOK /\ ChainOK /\ FramesDisjoint /\ LiveMapped
=============================================================================
