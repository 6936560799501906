------------------------------ MODULE WeakRef ------------------------------
(***************************************************************************)
(* One ARC control block of core/mem/weak.c, shared by several threads.    *)
(* Every atomic load, compare-exchange, fetch_add, fetch_sub and store of  *)
(* the code is a step of its own.                                          *)
(*                                                                         *)
(* The references the program holds are named tokens: S is the set of      *)
(* strong ones, W the set of weak ones (a weak_create that has counted its *)
(* reference and not yet decided holds one too), owner[r] the thread that  *)
(* holds r.  A thread calls an operation only with a reference it holds,   *)
(* and keeps that reference until the operation gives it up.               *)
(***************************************************************************)
EXTENDS Integers, FiniteSets

CONSTANTS Threads,
          Refs,        \* tokens; bound: references held at one time
          MaxCount,    \* UINT32_MAX
          None         \* no thread, no token

ASSUME RefsAssumption == IsFiniteSet(Refs)
ASSUME MaxCountAssumption == MaxCount \in Nat /\ Cardinality(Refs) + 1 < MaxCount
ASSUME NoneAssumption == None \notin Threads /\ None \notin Refs

VARIABLES strong, weak,   \* strong_count and weak_count
          S, W, owner,    \* the references, and who holds each
          pc, sc, tok,    \* per thread: position, local sc, token in use
          dtors,          \* times the destructor has run
          frees           \* times the block has been freed

counts == <<strong, weak>>
locals == <<pc, sc, tok>>
vars == <<strong, weak, S, W, owner, pc, sc, tok, dtors, frees>>

PcStates == {"idle", "retain", "upgrade", "dtor", "drop_hold", "create", "undo",
             "last_weak", "free"}

TypeOK == /\ strong \in Int /\ weak \in Int
          /\ S \in SUBSET Refs /\ W \in SUBSET Refs
          /\ owner \in [Refs -> Threads \cup {None}]
          /\ pc \in [Threads -> PcStates]
          /\ sc \in [Threads -> Int]
          /\ tok \in [Threads -> Refs \cup {None}]
          /\ dtors \in Nat /\ frees \in Nat

(***************************************************************************)
(* oo_control_block_create: one strong reference, and one weak count that  *)
(* the strong owners hold together.                                        *)
(***************************************************************************)
Init == /\ strong = 1 /\ weak = 1
        /\ \E r \in Refs, t \in Threads :
             /\ S = {r}
             /\ owner = [q \in Refs |-> IF q = r THEN t ELSE None]
        /\ W = {}
        /\ pc = [t \in Threads |-> "idle"]
        /\ sc = [t \in Threads |-> 0]
        /\ tok = [t \in Threads |-> None]
        /\ dtors = 0 /\ frees = 0

Free == Refs \ (S \cup W)

Goto(t, l) == pc' = [pc EXCEPT ![t] = l]

HoldsStrong(t, r) == pc[t] = "idle" /\ r \in S /\ owner[r] = t
HoldsWeak(t, r)   == pc[t] = "idle" /\ r \in W /\ owner[r] = t

-----------------------------------------------------------------------------
(***************************************************************************)
(* oo_control_block_retain: load strong_count, then a compare-exchange     *)
(* loop.  A weak compare-exchange may also fail without reason.            *)
(***************************************************************************)
RetainLoad(t) ==
  /\ \E r \in Refs : HoldsStrong(t, r)
  /\ strong # 0 /\ strong # MaxCount
  /\ sc' = [sc EXCEPT ![t] = strong]
  /\ Goto(t, "retain")
  /\ UNCHANGED <<counts, S, W, owner, tok, dtors, frees>>

\* Mutant: a plain store, without the comparison.
RetainStore(t, r) ==
  /\ pc[t] = "retain" /\ r \in Free
  /\ strong' = sc[t] + 1
  /\ S' = S \cup {r}
  /\ owner' = [owner EXCEPT ![r] = t]
  /\ sc' = [sc EXCEPT ![t] = 0]
  /\ Goto(t, "idle")
  /\ UNCHANGED <<weak, W, tok, dtors, frees>>

RetainCas(t, r) ==
  /\ pc[t] = "retain" /\ r \in Free
  /\ strong = sc[t]
  /\ strong' = sc[t] + 1
  /\ S' = S \cup {r}
  /\ owner' = [owner EXCEPT ![r] = t]
  /\ sc' = [sc EXCEPT ![t] = 0]
  /\ Goto(t, "idle")
  /\ UNCHANGED <<weak, W, tok, dtors, frees>>

\* Mutant: a count of zero is not refused.
UpgradeLoadUnchecked(t) ==
  /\ \E r \in Refs : HoldsWeak(t, r)
  /\ sc' = [sc EXCEPT ![t] = strong]
  /\ Goto(t, "upgrade")
  /\ UNCHANGED <<counts, S, W, owner, tok, dtors, frees>>

(***************************************************************************)
(* oo_weak_upgrade: the same loop, with a weak reference, and refused once *)
(* the count has been seen to be zero.                                     *)
(***************************************************************************)
UpgradeLoad(t) ==
  /\ \E r \in Refs : HoldsWeak(t, r)
  /\ strong # 0 /\ strong # MaxCount
  /\ sc' = [sc EXCEPT ![t] = strong]
  /\ Goto(t, "upgrade")
  /\ UNCHANGED <<counts, S, W, owner, tok, dtors, frees>>

UpgradeCas(t, r) ==
  /\ pc[t] = "upgrade" /\ r \in Free
  /\ strong = sc[t]
  /\ strong' = sc[t] + 1
  /\ S' = S \cup {r}
  /\ owner' = [owner EXCEPT ![r] = t]
  /\ sc' = [sc EXCEPT ![t] = 0]
  /\ Goto(t, "idle")
  /\ UNCHANGED <<weak, W, tok, dtors, frees>>

(***************************************************************************)
(* The compare-exchange of either loop fails: reload and look again.       *)
(***************************************************************************)
CasFail(t) ==
  /\ pc[t] \in {"retain", "upgrade"}
  /\ IF strong = 0 \/ strong = MaxCount
       THEN sc' = [sc EXCEPT ![t] = 0] /\ Goto(t, "idle")
       ELSE sc' = [sc EXCEPT ![t] = strong] /\ pc' = pc
  /\ UNCHANGED <<counts, S, W, owner, tok, dtors, frees>>

-----------------------------------------------------------------------------
(***************************************************************************)
(* oo_control_block_release: the thread that takes the count to zero runs  *)
(* the destructor, then drops the weak count of the strong owners, and     *)
(* frees the block if that was the last one.                               *)
(***************************************************************************)
Release(t, r) ==
  /\ HoldsStrong(t, r)
  /\ strong' = strong - 1
  /\ S' = S \ {r}
  /\ owner' = [owner EXCEPT ![r] = None]
  /\ Goto(t, IF strong = 1 THEN "dtor" ELSE "idle")
  /\ UNCHANGED <<weak, W, sc, tok, dtors, frees>>

Dtor(t) ==
  /\ pc[t] = "dtor"
  /\ dtors' = dtors + 1
  /\ Goto(t, "drop_hold")
  /\ UNCHANGED <<counts, S, W, owner, sc, tok, frees>>

\* Mutant: the block is freed while weak references remain.
DropHoldAndFree(t) ==
  /\ pc[t] = "drop_hold"
  /\ weak' = weak - 1
  /\ Goto(t, "free")
  /\ UNCHANGED <<strong, S, W, owner, sc, tok, dtors, frees>>

DropHold(t) ==
  /\ pc[t] = "drop_hold"
  /\ weak' = weak - 1
  /\ Goto(t, IF weak = 1 THEN "free" ELSE "idle")
  /\ UNCHANGED <<strong, S, W, owner, sc, tok, dtors, frees>>

FreeBlock(t) ==
  /\ pc[t] = "free"
  /\ frees' = frees + 1
  /\ Goto(t, "idle")
  /\ UNCHANGED <<counts, S, W, owner, sc, tok, dtors>>

-----------------------------------------------------------------------------
(***************************************************************************)
(* oo_weak_create: count first, then look at strong_count, and take the    *)
(* count back if the payload is gone.                                      *)
(***************************************************************************)
CreateAdd(t, r) ==
  /\ \E q \in Refs : HoldsStrong(t, q) \/ HoldsWeak(t, q)
  /\ r \in Free
  /\ weak' = weak + 1
  /\ W' = W \cup {r}
  /\ owner' = [owner EXCEPT ![r] = t]
  /\ tok' = [tok EXCEPT ![t] = r]
  /\ Goto(t, "create")
  /\ UNCHANGED <<strong, S, sc, dtors, frees>>

CreateLoad(t) ==
  /\ pc[t] = "create"
  /\ IF strong = 0 THEN Goto(t, "undo") /\ tok' = tok
                   ELSE Goto(t, "idle") /\ tok' = [tok EXCEPT ![t] = None]
  /\ UNCHANGED <<counts, S, W, owner, sc, dtors, frees>>

CreateUndo(t) ==
  /\ pc[t] = "undo"
  /\ weak' = weak - 1
  /\ W' = W \ {tok[t]}
  /\ owner' = [owner EXCEPT ![tok[t]] = None]
  /\ tok' = [tok EXCEPT ![t] = None]
  /\ Goto(t, IF weak = 1 THEN "free" ELSE "idle")
  /\ UNCHANGED <<strong, S, sc, dtors, frees>>

(***************************************************************************)
(* oo_weak_retain and oo_weak_release.  The release that takes the weak    *)
(* count to zero looks at strong_count before it frees the block.          *)
(***************************************************************************)
WeakRetain(t, r) ==
  /\ \E q \in Refs : HoldsWeak(t, q)
  /\ r \in Free
  /\ weak' = weak + 1
  /\ W' = W \cup {r}
  /\ owner' = [owner EXCEPT ![r] = t]
  /\ UNCHANGED <<strong, S, locals, dtors, frees>>

\* Mutant: whether this was the last weak count is not looked at.
WeakReleaseLeaks(t, r) ==
  /\ HoldsWeak(t, r)
  /\ weak' = weak - 1
  /\ W' = W \ {r}
  /\ owner' = [owner EXCEPT ![r] = None]
  /\ UNCHANGED <<strong, S, locals, dtors, frees>>

WeakRelease(t, r) ==
  /\ HoldsWeak(t, r)
  /\ weak' = weak - 1
  /\ W' = W \ {r}
  /\ owner' = [owner EXCEPT ![r] = None]
  /\ Goto(t, IF weak = 1 THEN "last_weak" ELSE "idle")
  /\ UNCHANGED <<strong, S, sc, tok, dtors, frees>>

WeakReleaseLoad(t) ==
  /\ pc[t] = "last_weak"
  /\ Goto(t, IF strong = 0 THEN "free" ELSE "idle")
  /\ UNCHANGED <<counts, S, W, owner, sc, tok, dtors, frees>>

(***************************************************************************)
(* The program hands a reference from one thread to another.               *)
(***************************************************************************)
Pass(t, u, r) ==
  /\ HoldsStrong(t, r) \/ HoldsWeak(t, r)
  /\ owner' = [owner EXCEPT ![r] = u]
  /\ UNCHANGED <<counts, S, W, locals, dtors, frees>>

-----------------------------------------------------------------------------
(***************************************************************************)
(* The steps of an operation that has begun.                               *)
(***************************************************************************)
Continue(t) ==
  \/ Dtor(t) \/ DropHold(t) \/ FreeBlock(t)
  \/ CreateLoad(t) \/ CreateUndo(t) \/ WeakReleaseLoad(t)

Next == \E t \in Threads :
          \/ RetainLoad(t) \/ UpgradeLoad(t) \/ CasFail(t)
          \/ Continue(t)
          \/ \E r \in Refs : \/ RetainCas(t, r) \/ UpgradeCas(t, r)
                             \/ Release(t, r)
                             \/ CreateAdd(t, r)
                             \/ WeakRetain(t, r) \/ WeakRelease(t, r)
                             \/ \E u \in Threads : Pass(t, u, r)

Spec == Init /\ [][Next]_vars

(***************************************************************************)
(* A thread that has begun an operation goes on with it.                   *)
(***************************************************************************)
FairSpec == Spec /\ \A t \in Threads : WF_vars(Continue(t))

-----------------------------------------------------------------------------
(***************************************************************************)
(* The threads between the two halves of the last release: they hold the   *)
(* weak count of the strong owners.                                        *)
(***************************************************************************)
Ending == {t \in Threads : pc[t] \in {"dtor", "drop_hold"}}

(***************************************************************************)
(* The counters count: strong_count is the number of strong references,    *)
(* weak_count that of weak ones plus the hold of the strong owners.        *)
(***************************************************************************)
CountsExact ==
  /\ strong = Cardinality(S)
  /\ weak = Cardinality(W) + IF S # {} \/ Ending # {} THEN 1 ELSE 0

(***************************************************************************)
(* "payload live while > 0": the destructor never runs while a thread      *)
(* holds a strong reference, an upgrade included, and runs at most once.   *)
(***************************************************************************)
PayloadLive == dtors =< 1 /\ (S # {} => dtors = 0)

(***************************************************************************)
(* The control block is freed at most once, and never while a thread holds *)
(* a reference or is inside an operation that still touches it.            *)
(***************************************************************************)
NoUseAfterFree ==
  /\ frees =< 1
  /\ frees = 1 => S = {} /\ W = {} /\ \A t \in Threads : pc[t] = "idle"

(***************************************************************************)
(* The inductive invariant: who can be where.  At most one thread ends the *)
(* payload, and then no strong reference is left; at most one thread       *)
(* closes the block, and then nothing else is left; an operation under way *)
(* holds the reference it was called with.                                 *)
(***************************************************************************)
Closing == {t \in Threads : pc[t] \in {"last_weak", "free"}}

OneEnder ==
  /\ \A t \in Ending : S = {} /\ frees = 0 /\ \A u \in Ending : u = t
  /\ \A t \in Threads : pc[t] = "dtor" => dtors = 0

OneCloser ==
  \A t \in Closing : /\ S = {} /\ W = {} /\ Ending = {} /\ frees = 0
                     /\ \A u \in Closing : u = t

OperandsHeld ==
  /\ S \cap W = {}
  /\ \A t \in Threads :
       /\ pc[t] \in {"create", "undo"} => tok[t] \in W /\ owner[tok[t]] = t
       /\ pc[t] = "retain"  => sc[t] > 0 /\ \E r \in S : owner[r] = t
       /\ pc[t] = "upgrade" => sc[t] > 0 /\ \E r \in W : owner[r] = t

IInv == /\ TypeOK /\ CountsExact /\ PayloadLive /\ NoUseAfterFree
        /\ OneEnder /\ OneCloser /\ OperandsHeld

(***************************************************************************)
(* No leak: once every reference is gone, the block is freed.              *)
(***************************************************************************)
EventuallyFreed == (S = {} /\ W = {}) ~> (frees = 1)
=============================================================================
