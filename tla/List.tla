-------------------------------- MODULE List --------------------------------
(***************************************************************************)
(* The counted lists of core/list: list values {data, len, cap} that share *)
(* payload blocks with a reference count, push and set that write in place *)
(* when the count is one and copy otherwise, and the lock-free charge of   *)
(* every heap block to the ambient quota.                                  *)
(*                                                                         *)
(* A list value is passed by value; the values a program holds are tokens  *)
(* (held), each with its owning thread, and an operation is called with a  *)
(* value its thread holds.  Elements are counted values (strings or inner  *)
(* lists): erc counts the references that lists and readers hold on them.  *)
(* Every access to a count or to the quota counter is a step of its own;   *)
(* what a thread does with a block nobody else can reach is one step.      *)
(***************************************************************************)
EXTENDS Integers, FiniteSets, FiniteSetsExt, Functions

CONSTANTS Threads, Refs, Blocks,
          Vals,       \* elements
          InitCap,    \* capacity of a first block (8)
          ALIGN,      \* header of a block, in elements
          Quota,      \* oo_list_ambient_quota
          MaxLen,     \* bound: length of a list
          MaxGot,     \* bound: element references held by readers
          MaxErc,     \* bound: count of an element when it is stored
          InArena,    \* the threads are attached to an arena with room
          Family,     \* "flat" (ilist, slist), "float" (flist), "nested" (llist)
          None        \* no block, no token, no element

ASSUME ListAssumption ==
  /\ InitCap \in Nat \ {0} /\ ALIGN \in Nat /\ Quota \in Nat
  /\ MaxLen \in Nat /\ MaxGot \in Nat /\ MaxErc \in Nat /\ InArena \in BOOLEAN
  /\ Family \in {"flat", "float", "nested"}
  /\ None \notin Threads \cup Refs \cup Blocks \cup Vals
  /\ IsFiniteSet(Threads) /\ IsFiniteSet(Refs) /\ IsFiniteSet(Blocks)

VARIABLES rc, live, size, data,   \* payload blocks
          bytes,                  \* oo_list_ambient_bytes
          held, list, owner,      \* list values of the program
          erc, got,               \* element counts; references readers hold
          pc, job,                \* the call each thread is in
          exited                  \* the process has ended in exit(1)

blockVars == <<rc, live, size, data>>
valueVars == <<held, list, owner>>
elemVars  == <<erc, got>>
vars == <<blockVars, bytes, valueVars, elemVars, pc, job, exited>>

Index == 0 .. MaxLen - 1
ListValues == [blk : Blocks \cup {None}, len : 0 .. MaxLen, cap : Nat]
Empty  == [blk |-> None, len |-> 0, cap |-> 0]   \* oo_ilist_new
NoJob  == [kind |-> "none", ref |-> None, out |-> None, l |-> Empty,
           i |-> 0, v |-> None, seen |-> 0]
PcStates == {"idle", "write", "retain", "cas", "read", "put", "alloc", "charge", "copy",
             "drop", "uncharge"}

TypeOK ==
  /\ rc \in [Blocks -> Int] /\ live \in [Blocks -> BOOLEAN] /\ size \in [Blocks -> Nat]
  /\ data \in [Blocks -> [Index -> Vals \cup {None}]]
  /\ bytes \in Int
  /\ held \in SUBSET Refs /\ list \in [Refs -> ListValues]
  /\ \A r \in held : list[r].len =< list[r].cap
  /\ owner \in [Refs -> Threads \cup {None}]
  /\ erc \in [Vals -> Int] /\ got \in [Vals -> 0 .. MaxGot]
  /\ pc \in [Threads -> PcStates] /\ exited \in BOOLEAN

Init == /\ rc = [b \in Blocks |-> 0] /\ live = [b \in Blocks |-> FALSE]
        /\ size = [b \in Blocks |-> 0]
        /\ data = [b \in Blocks |-> [i \in Index |-> None]]
        /\ bytes = 0
        /\ held = {} /\ list = [r \in Refs |-> Empty] /\ owner = [r \in Refs |-> None]
        /\ erc = [v \in Vals |-> 0] /\ got = [v \in Vals |-> 0]
        /\ pc = [t \in Threads |-> "idle"] /\ job = [t \in Threads |-> NoJob]
        /\ exited = FALSE

-----------------------------------------------------------------------------
\* Mutant: a retain never counts.
RetainsNothing == FALSE

(***************************************************************************)
(* What the three families do with the count of an arena payload: the flat *)
(* lists leave it alone, nested lists count retains only, float lists both.*)
(***************************************************************************)
RetainCounts  == InArena => Family \in {"float", "nested"}
ReleaseCounts == InArena => Family = "float"

Charge(c) == IF c = 0 THEN 0 ELSE ALIGN + c        \* oo_list_block_bytes

Owned(l) == l.blk # None /\ rc[l.blk] = 1          \* oo_list_owned

\* Mutant: the capacity is not doubled.
GrowNot(l) == IF l.cap = 0 THEN InitCap ELSE l.cap

(***************************************************************************)
(* Capacity of the block a push allocates: doubled until the element fits. *)
(***************************************************************************)
Grow(l) == LET c == IF l.cap = 0 THEN InitCap ELSE l.cap IN
           Min({n \in c .. 2 * c * (l.len + 1) : n >= l.len + 1 /\ \E k \in 0 .. MaxLen : n = c * 2^k})

Holds(t, r) == ~exited /\ pc[t] = "idle" /\ r \in held /\ owner[r] = t
Spare       == Refs \ (held \cup {job[t].out : t \in Threads})
At(t, l)    == ~exited /\ pc[t] = l
Goto(t, l)  == pc' = [pc EXCEPT ![t] = l]

\* A call with list value list[r] whose result will be the value d.
Call(t, k, r, d, i, v) ==
  /\ Holds(t, r) /\ d \in Spare
  /\ job' = [job EXCEPT ![t] = [kind |-> k, ref |-> r, out |-> d, l |-> list[r],
                                i |-> i, v |-> v, seen |-> 0]]
  /\ UNCHANGED <<blockVars, bytes, valueVars, elemVars, exited>>

\* The call returns list value l as d.
Return(t, l) ==
  LET d == job[t].out IN
  /\ held' = held \cup {d}
  /\ list' = [list EXCEPT ![d] = l]
  /\ owner' = [owner EXCEPT ![d] = t]
  /\ IF job[t].kind = "get" THEN Goto(t, "read") /\ job' = job
     ELSE Goto(t, "idle") /\ job' = [job EXCEPT ![t] = NoJob]

Result(t) == IF job[t].kind = "push" THEN [job[t].l EXCEPT !.len = @ + 1] ELSE job[t].l

-----------------------------------------------------------------------------
New(t, r) ==
  /\ At(t, "idle") /\ r \in Spare
  /\ held' = held \cup {r}
  /\ list' = [list EXCEPT ![r] = Empty]
  /\ owner' = [owner EXCEPT ![r] = t]
  /\ UNCHANGED <<blockVars, bytes, elemVars, pc, job, exited>>

(***************************************************************************)
(* push and set first look whether they may write in place.                *)
(***************************************************************************)
Push(t, r, d, v) ==
  /\ list[r].len < MaxLen /\ erc[v] < MaxErc
  /\ Call(t, "push", r, d, list[r].len, v)
  /\ Goto(t, IF list[r].len < list[r].cap /\ Owned(list[r]) THEN "write" ELSE "alloc")

Set(t, r, d, i, v) ==
  /\ i < list[r].len /\ erc[v] < MaxErc            \* out of bounds is fatal
  /\ Call(t, "set", r, d, i, v)
  /\ Goto(t, IF Owned(list[r]) THEN "write" ELSE "alloc")

(***************************************************************************)
(* In place: store and retain the element (set releases the one it         *)
(* replaces), then retain the list and return it.                          *)
(***************************************************************************)
Write(t) ==
  LET j == job[t]
      b == j.l.blk
      old == IF j.kind = "set" THEN {data[b][j.i]} ELSE {} IN
  /\ At(t, "write")
  /\ data' = [data EXCEPT ![b][j.i] = j.v]
  /\ erc' = [v \in Vals |-> erc[v] + (IF v = j.v THEN 1 ELSE 0) - (IF v \in old THEN 1 ELSE 0)]
  /\ Goto(t, "retain")
  /\ UNCHANGED <<rc, live, size, bytes, valueVars, got, job, exited>>

Retain(t, r, d) == Call(t, "retain", r, d, 0, None) /\ Goto(t, "retain")

\* get retains the list around its read.
Get(t, r, d, i) ==
  /\ i < list[r].len
  /\ Call(t, "get", r, d, i, None)
  /\ Goto(t, "retain")

(***************************************************************************)
(* oo_*list_retain: load the count, then a compare-exchange loop.  A weak  *)
(* compare-exchange may fail without reason.                               *)
(***************************************************************************)
RetainLoad(t) ==
  LET b == job[t].l.blk IN
  /\ At(t, "retain")
  /\ IF b # None /\ RetainCounts
       THEN /\ job' = [job EXCEPT ![t].seen = rc[b]]
            /\ Goto(t, "cas")
            /\ UNCHANGED valueVars
       ELSE Return(t, Result(t))
  /\ UNCHANGED <<blockVars, bytes, elemVars, exited>>

\* Mutant: a plain store, without the comparison.
RetainStore(t) ==
  LET b == job[t].l.blk IN
  /\ At(t, "cas")
  /\ rc' = [rc EXCEPT ![b] = job[t].seen + 1]
  /\ Return(t, Result(t))
  /\ UNCHANGED <<live, size, data, bytes, elemVars, exited>>

RetainCas(t) ==
  LET b == job[t].l.blk IN
  /\ At(t, "cas") /\ rc[b] = job[t].seen
  /\ rc' = [rc EXCEPT ![b] = job[t].seen + 1]
  /\ Return(t, Result(t))
  /\ UNCHANGED <<live, size, data, bytes, elemVars, exited>>

RetainRetry(t) ==
  /\ At(t, "cas")
  /\ job' = [job EXCEPT ![t].seen = rc[job[t].l.blk]]
  /\ UNCHANGED <<blockVars, bytes, valueVars, elemVars, pc, exited>>

(***************************************************************************)
(* get reads the element and retains it for the caller, then releases the  *)
(* list again.                                                             *)
(***************************************************************************)
Read(t) ==
  LET v == data[job[t].l.blk][job[t].i] IN
  /\ At(t, "read") /\ got[v] < MaxGot
  /\ erc' = [erc EXCEPT ![v] = @ + 1]
  /\ got' = [got EXCEPT ![v] = @ + 1]
  /\ Goto(t, "put")
  /\ UNCHANGED <<blockVars, bytes, valueVars, job, exited>>

ReleaseElem(v) ==
  /\ ~exited /\ got[v] > 0
  /\ erc' = [erc EXCEPT ![v] = @ - 1]
  /\ got' = [got EXCEPT ![v] = @ - 1]
  /\ UNCHANGED <<blockVars, bytes, valueVars, pc, job, exited>>

-----------------------------------------------------------------------------
(***************************************************************************)
(* oo_*list_release gives up value r.  The release that takes the count to *)
(* zero releases the elements its own value knows of, uncharges the block  *)
(* and frees it.                                                           *)
(***************************************************************************)
ReleaseValue(t, r) ==
  LET b == list[r].blk
      counts == b # None /\ ReleaseCounts IN
  /\ rc' = IF counts THEN [rc EXCEPT ![b] = @ - 1] ELSE rc
  /\ held' = held \ {r}
  /\ list' = [list EXCEPT ![r] = Empty]
  /\ owner' = [owner EXCEPT ![r] = None]
  /\ IF counts /\ rc[b] = 1
       THEN Goto(t, "drop") /\ job' = [job EXCEPT ![t] = [NoJob EXCEPT !.l = list[r]]]
       ELSE Goto(t, "idle") /\ job' = [job EXCEPT ![t] = NoJob]
  /\ UNCHANGED <<live, size, data, bytes, elemVars, exited>>

Release(t, r) == Holds(t, r) /\ ReleaseValue(t, r)

GetRelease(t) == At(t, "put") /\ ReleaseValue(t, job[t].out)

\* How often v occurs among the first n elements of d.
Count(d, n, v) == Cardinality({i \in Index : i < n /\ d[i] = v})

Drop(t) ==
  LET l == job[t].l IN
  /\ At(t, "drop")
  /\ erc' = [v \in Vals |-> erc[v] - Count(data[l.blk], l.len, v)]
  /\ Goto(t, "uncharge")
  /\ UNCHANGED <<blockVars, bytes, valueVars, got, job, exited>>

\* Mutant: the length is uncharged, not the capacity.
UnchargeLen(t) ==
  LET l == job[t].l IN
  /\ At(t, "uncharge")
  /\ bytes' = bytes - Charge(l.len)
  /\ live' = [live EXCEPT ![l.blk] = FALSE]
  /\ size' = [size EXCEPT ![l.blk] = 0]
  /\ data' = [data EXCEPT ![l.blk] = [i \in Index |-> None]]
  /\ Goto(t, "idle")
  /\ job' = [job EXCEPT ![t] = NoJob]
  /\ UNCHANGED <<rc, valueVars, elemVars, exited>>

Uncharge(t) ==
  LET l == job[t].l IN
  /\ At(t, "uncharge")
  /\ bytes' = bytes - Charge(l.cap)
  /\ live' = [live EXCEPT ![l.blk] = FALSE]
  /\ size' = [size EXCEPT ![l.blk] = 0]
  /\ data' = [data EXCEPT ![l.blk] = [i \in Index |-> None]]
  /\ Goto(t, "idle")
  /\ job' = [job EXCEPT ![t] = NoJob]
  /\ UNCHANGED <<rc, valueVars, elemVars, exited>>

-----------------------------------------------------------------------------
(***************************************************************************)
(* oo_list_alloc_payload: charge the quota with a compare-exchange loop;   *)
(* a charge above the quota ends the process.  An arena payload is not     *)
(* charged.                                                                *)
(***************************************************************************)
NewCap(t) == IF job[t].kind = "push" THEN Grow(job[t].l)
             ELSE IF job[t].l.cap = 0 THEN job[t].l.len ELSE job[t].l.cap

AllocLoad(t) ==
  /\ At(t, "alloc")
  /\ IF InArena THEN Goto(t, "copy") /\ job' = job
     ELSE Goto(t, "charge") /\ job' = [job EXCEPT ![t].seen = bytes]
  /\ UNCHANGED <<blockVars, bytes, valueVars, elemVars, exited>>

QuotaExit(t) ==
  /\ At(t, "charge") /\ job[t].seen + Charge(NewCap(t)) > Quota
  /\ exited' = TRUE
  /\ UNCHANGED <<blockVars, bytes, valueVars, elemVars, pc, job>>

QuotaCharge(t) ==
  /\ At(t, "charge") /\ job[t].seen + Charge(NewCap(t)) =< Quota
  /\ IF bytes = job[t].seen
       THEN bytes' = bytes + Charge(NewCap(t)) /\ Goto(t, "copy") /\ job' = job
       ELSE job' = [job EXCEPT ![t].seen = bytes] /\ UNCHANGED <<bytes, pc>>
  /\ UNCHANGED <<blockVars, valueVars, elemVars, exited>>

(***************************************************************************)
(* The new block: the old elements and the new one, each retained, and a   *)
(* count of one.                                                           *)
(***************************************************************************)
Copied(t) == LET j == job[t] IN
             [i \in Index |-> IF i = j.i THEN j.v
                              ELSE IF i < j.l.len THEN data[j.l.blk][i] ELSE None]

\* Mutant: only the new element is retained.
CopyUncounted(t, b) ==
  LET l == Result(t) IN
  /\ At(t, "copy") /\ ~live[b]
  /\ live' = [live EXCEPT ![b] = TRUE]
  /\ rc' = [rc EXCEPT ![b] = 1]
  /\ size' = [size EXCEPT ![b] = NewCap(t)]
  /\ data' = [data EXCEPT ![b] = Copied(t)]
  /\ erc' = [erc EXCEPT ![job[t].v] = @ + 1]
  /\ Return(t, [blk |-> b, len |-> l.len, cap |-> NewCap(t)])
  /\ UNCHANGED <<bytes, got, exited>>

Copy(t, b) ==
  LET l == Result(t) IN
  /\ At(t, "copy") /\ ~live[b]
  /\ live' = [live EXCEPT ![b] = TRUE]
  /\ rc' = [rc EXCEPT ![b] = 1]
  /\ size' = [size EXCEPT ![b] = NewCap(t)]
  /\ data' = [data EXCEPT ![b] = Copied(t)]
  /\ erc' = [v \in Vals |-> erc[v] + Count(Copied(t), l.len, v)]
  /\ Return(t, [blk |-> b, len |-> l.len, cap |-> NewCap(t)])
  /\ UNCHANGED <<bytes, got, exited>>

-----------------------------------------------------------------------------
(***************************************************************************)
(* The program hands a list value to another thread.                       *)
(***************************************************************************)
Pass(t, u, r) ==
  /\ Holds(t, r) /\ t # u
  /\ owner' = [owner EXCEPT ![r] = u]
  /\ UNCHANGED <<blockVars, bytes, held, list, elemVars, pc, job, exited>>

Exited == exited /\ UNCHANGED vars

Next == \/ \E t \in Threads :
             \/ \E r \in Refs :
                  \/ New(t, r) \/ Release(t, r)
                  \/ \E u \in Threads : Pass(t, u, r)
                  \/ \E d \in Refs : \/ Retain(t, r, d)
                                     \/ \E v \in Vals : Push(t, r, d, v)
                                     \/ \E i \in Index : \/ Get(t, r, d, i)
                                                         \/ \E v \in Vals : Set(t, r, d, i, v)
             \/ Write(t) \/ RetainLoad(t) \/ RetainCas(t) \/ RetainRetry(t)
             \/ Read(t) \/ GetRelease(t) \/ Drop(t) \/ Uncharge(t)
             \/ AllocLoad(t) \/ QuotaExit(t) \/ QuotaCharge(t)
             \/ \E b \in Blocks : Copy(t, b)
        \/ \E v \in Vals : ReleaseElem(v)
        \/ Exited

Spec == Init /\ [][Next]_vars

-----------------------------------------------------------------------------
Sharing(b) == {r \in held : list[r].blk = b}

(***************************************************************************)
(* The count of a heap block is the number of list values that share it,   *)
(* and no value refers to a freed block, whatever retains and releases of  *)
(* the sharing threads interleave.                                         *)
(***************************************************************************)
RefsExact ==
  /\ \A b \in Blocks : live[b] => rc[b] = Cardinality(Sharing(b))
  /\ \A r \in held : list[r].blk # None => live[list[r].blk]

(***************************************************************************)
(* "Exclusively owned": when push or set writes in place, no list value    *)
(* but the one it was called with shares the block.                        *)
(***************************************************************************)
OwnedIsExclusive ==
  \A t \in Threads : pc[t] = "write" => Sharing(job[t].l.blk) = {job[t].ref}

(***************************************************************************)
(* "COW base list untouched": the elements a program sees through a list   *)
(* value never change while it holds it, except by a set on that value.    *)
(***************************************************************************)
View(r) == [i \in {k \in Index : k < list[r].len} |-> data[list[r].blk][i]]

ValuesStay ==
  [][\A r \in held \cap held' :
       \/ View(r)' = View(r)
       \/ \E t \in Threads : pc[t] = "write" /\ job[t].kind = "set" /\ job[t].ref = r]_vars

(***************************************************************************)
(* No element is released too early: its count covers every place in a     *)
(* block where some list value still shows it, and every reader's          *)
(* reference.                                                              *)
(***************************************************************************)
Shown(b) == Max({0} \cup {list[r].len : r \in Sharing(b)})

ElemsHeld ==
  \A v \in Vals :
    erc[v] >= got[v] + SumFunction([b \in Blocks |-> Count(data[b], Shown(b), v)])

(***************************************************************************)
(* "No drift": the ambient counter is the charge of the heap blocks that   *)
(* exist or are about to, and never passes the quota.                      *)
(***************************************************************************)
BlockCharges == [b \in Blocks |-> IF live[b] /\ ~InArena THEN Charge(size[b]) ELSE 0]
CallCharges  == [t \in Threads |-> IF pc[t] = "copy" /\ ~InArena THEN Charge(NewCap(t)) ELSE 0]

BytesExact ==
  /\ bytes = SumFunction(BlockCharges) + SumFunction(CallCharges)
  /\ bytes =< Quota

(***************************************************************************)
(* What two threads sharing lists can rely on: exact counts, elements that *)
(* are not released under a list, and a quota counter without drift, for   *)
(* every interleaving of push, set, get, retain and release.               *)
(***************************************************************************)
ListSound == TypeOK /\ RefsExact /\ ElemsHeld /\ BytesExact
=============================================================================
