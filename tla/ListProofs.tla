----------------------------- MODULE ListProofs -----------------------------
(***************************************************************************)
(* The counted lists of core/list on the heap, for any number of threads,  *)
(* list values, blocks and elements.                                       *)
(***************************************************************************)
EXTENDS List, SetFacts, TLAPS

Kinds == {"none", "push", "set", "retain", "get"}
Jobs == [kind : Kinds, ref : Refs \cup {None}, out : Refs \cup {None}, l : ListValues,
         i : Nat, v : Vals \cup {None}, seen : Int]

\* A call that has not returned its list value yet, and the two parts of a last release.
Asking == {"write", "retain", "cas", "alloc", "charge", "copy"}
Ending == {"drop", "uncharge"}

\* t writes, or has written, in place.
InPlace(t) == pc[t] = "write" \/ (pc[t] \in {"retain", "cas"} /\ job[t].kind \in {"push", "set"})

(* What a call knows while it runs: it still has the list value it was     *)
(* called with, and in place it is the only one with the block.            *)
AskLocal(t) ==
  LET j == job[t] IN
  pc[t] \in Asking =>
    /\ j.ref \in held /\ owner[j.ref] = t /\ list[j.ref] = j.l
    /\ j.out \in Refs \ held
    /\ j.kind \in (IF pc[t] \in {"retain", "cas"} THEN Kinds \ {"none"} ELSE {"push", "set"})
    /\ j.kind = "push" => j.i = j.l.len /\ j.l.len < MaxLen /\ j.v \in Vals
    /\ j.kind \in {"set", "get"} => j.i < j.l.len
    /\ j.kind = "set" => j.v \in Vals
    /\ pc[t] = "cas" => j.l.blk # None
    /\ InPlace(t) => j.l.blk # None /\ rc[j.l.blk] = 1 /\ (j.kind = "push" => j.l.len < j.l.cap)
    /\ InPlace(t) /\ pc[t] # "write" => data[j.l.blk][j.i] \in Vals

GetLocal(t) ==
  LET j == job[t] IN
  pc[t] \in {"read", "put"} =>
    j.kind = "get" /\ j.out \in held /\ owner[j.out] = t /\ list[j.out] = j.l /\ j.i < j.l.len

EndLocal(t) ==
  LET l == job[t].l IN
  pc[t] \in Ending => l.blk \in Blocks /\ live[l.blk] /\ rc[l.blk] = 0 /\ l.cap = size[l.blk]

\* No two calls will return as the same value or give up the same block.
CallsApart ==
  \A t, u \in Threads : t # u =>
    /\ pc[t] \in Asking /\ pc[u] \in Asking => job[t].out # job[u].out
    /\ pc[t] \in Ending /\ pc[u] \in Ending => job[t].l.blk # job[u].l.blk

\* A list value: the empty one, or one that fits its block and shows elements.
ValueOK(l) ==
  /\ l.blk = None => l.len = 0 /\ l.cap = 0
  /\ l.blk # None => /\ live[l.blk] /\ l.cap = size[l.blk]
                     /\ \A i \in Index : i < l.len => data[l.blk][i] \in Vals
ValuesOK == \A r \in held : ValueOK(list[r])

(* The elements of a block that are counted: what a value shows, what a    *)
(* push has stored and not yet returned, what the last release has yet to  *)
(* give back.                                                              *)
Covers(n) ==
  /\ n \in [Blocks -> 0 .. MaxLen]
  /\ \A r \in held : list[r].blk # None => list[r].len =< n[list[r].blk]
  /\ \A t \in Threads :
       /\ pc[t] \in {"retain", "cas"} /\ job[t].kind = "push" => job[t].l.len + 1 =< n[job[t].l.blk]
       /\ pc[t] = "drop" => job[t].l.len =< n[job[t].l.blk]
Counts(n, v) == [b \in Blocks |-> Count(data[b], n[b], v)]
Counted(n) == \A v \in Vals : erc[v] >= got[v] + SumFunction(Counts(n, v))
ElemsKept == \E n \in [Blocks -> 0 .. MaxLen] : Covers(n) /\ Counted(n)

LTypeOK == TypeOK /\ job \in [Threads -> Jobs]

LLocal == \A t \in Threads : AskLocal(t) /\ GetLocal(t) /\ EndLocal(t)

\* The invariant of the lists.
LIInv == LTypeOK /\ LLocal /\ CallsApart /\ ValuesOK /\ RefsExact /\ ElemsKept /\ BytesExact
-----------------------------------------------------------------------------
(* Arithmetic and counting.                                                *)

\* The capacity a push asks for has room for one more element.
LEMMA GrowFits ==
  ASSUME NEW l \in ListValues, l.len =< l.cap, l.len < MaxLen
  PROVE  Grow(l) \in Nat /\ Grow(l) >= l.len + 1
<1> DEFINE c == IF l.cap = 0 THEN InitCap ELSE l.cap
<1> DEFINE S == {n \in c .. 2 * c * (l.len + 1) : n >= l.len + 1 /\ \E k \in 0 .. MaxLen : n = c * 2^k}
<1>1. c \in Nat /\ c >= 1 /\ l.len \in Nat /\ MaxLen \in Nat /\ MaxLen >= 1 /\ 2 * c >= l.len + 1
  BY ListAssumption DEF ListValues
<1> HIDE DEF c
<1>2. S \in SUBSET Nat
  BY <1>1
<1>3. 2^0 = 1 /\ 2^1 = 2
  OBVIOUS
<1>4. c * 2^0 = c /\ c * 2^1 = 2 * c
  BY <1>1, <1>3
<1>5. 2 * c =< 2 * c * (l.len + 1)
  <2>1. \A x, y \in Nat : 2 * x * (y + 1) = 2 * x + 2 * (x * y) /\ x * y >= 0
    OBVIOUS
  <2> QED BY <1>1, <2>1
<1>6. 2 * c \in S
  <2>1. 1 \in 0 .. MaxLen /\ 2 * c \in c .. 2 * c * (l.len + 1)
    BY <1>1, <1>5
  <2>2. \E k \in 0 .. MaxLen : 2 * c = c * 2^k
    BY <1>4, <2>1
  <2> QED BY <1>1, <2>1, <2>2
<1>7. Min(S) \in S
  BY <1>2, <1>6, MinProperties
<1>8. Grow(l) = Min(S)
  BY DEF Grow, c
<1> QED BY <1>1, <1>7, <1>8

\* How often v is among the first n elements: natural, monotone in n, zero for none.
LEMMA CountFacts ==
  ASSUME NEW d, NEW n \in Nat, NEW v
  PROVE  /\ Count(d, n, v) \in Nat
         /\ \A m \in Nat : n =< m => Count(d, n, v) =< Count(d, m, v)
         /\ Count(d, 0, v) = 0
         /\ \A e, m : (\A i \in Index : i < m /\ e[i] = v => i < n /\ d[i] = v) => Count(e, m, v) =< Count(d, n, v)
<1> DEFINE A(e, m) == {i \in Index : i < m /\ e[i] = v}
<1>1. IsFiniteSet(Index)
  BY FS_Interval, ListAssumption DEF Index
<1>2. \A e, m : IsFiniteSet(A(e, m)) /\ Cardinality(A(e, m)) \in Nat
  BY <1>1, FS_Subset, FS_CardinalityType
<1>3. \A e, m : A(e, m) \subseteq A(d, n) => Cardinality(A(e, m)) =< Cardinality(A(d, n))
  BY <1>2, FS_Subset
<1>4. \A m \in Nat : n =< m => A(d, n) \subseteq A(d, m)
  BY DEF Index
<1>5. \A m \in Nat : n =< m => Cardinality(A(d, n)) =< Cardinality(A(d, m))
  BY <1>2, <1>4, FS_Subset
<1>6. A(d, 0) = {}
  BY ListAssumption DEF Index
<1> QED BY <1>2, <1>3, <1>5, <1>6, FS_EmptySet DEF Count

\* A set next to a finite one, by an element more or less.
LEMMA CardNear ==
  ASSUME NEW X, IsFiniteSet(X), NEW Y, NEW i
  PROVE  /\ Y \subseteq X => Cardinality(Y) =< Cardinality(X)
         /\ Y \subseteq X \cup {i} => Cardinality(Y) =< Cardinality(X) + 1
         /\ i \in X /\ Y \subseteq X \ {i} => Cardinality(Y) =< Cardinality(X) - 1
<1>1. Y \subseteq X => Cardinality(Y) =< Cardinality(X)
  BY FS_Subset
<1>2. ASSUME Y \subseteq X \cup {i} PROVE Cardinality(Y) =< Cardinality(X) + 1
  <2>1. IsFiniteSet(X \cup {i}) /\ Cardinality(X) \in Nat /\ Cardinality(X \cup {i}) =< Cardinality(X) + 1
    <3>1. IsFiniteSet(X \cup {i}) /\ (Cardinality(X \cup {i}) = Cardinality(X) \/ Cardinality(X \cup {i}) = Cardinality(X) + 1)
      BY FS_AddElement
    <3> QED BY <3>1, FS_CardinalityType
  <2>2. Cardinality(Y) =< Cardinality(X \cup {i}) /\ Cardinality(Y) \in Nat /\ Cardinality(X \cup {i}) \in Nat
    BY <1>2, <2>1, FS_Subset, FS_CardinalityType
  <2> QED BY <2>1, <2>2
<1>3. ASSUME i \in X, Y \subseteq X \ {i} PROVE Cardinality(Y) =< Cardinality(X) - 1
  <2>1. IsFiniteSet(X \ {i}) /\ Cardinality(X \ {i}) = Cardinality(X) - 1
    BY <1>3, FS_RemoveElement
  <2>2. Cardinality(Y) =< Cardinality(X \ {i})
    BY <1>3, <2>1, FS_Subset
  <2> QED BY <2>1, <2>2
<1> QED BY <1>1, <1>2, <1>3

\* One element is stored: the count of the stored grows by one at most, that of the old one falls.
LEMMA CountStore ==
  ASSUME NEW d \in [Index -> Vals \cup {None}], NEW i \in Index, NEW x \in Vals, NEW v \in Vals,
         NEW n \in Nat, NEW e, e = [d EXCEPT ![i] = x]
  PROVE  /\ i =< n => Count(e, i + 1, v) =< Count(d, n, v) + (IF v = x THEN 1 ELSE 0)
         /\ i < n => Count(e, n, v) =< Count(d, n, v) + (IF v = x THEN 1 ELSE 0) - (IF v = d[i] THEN 1 ELSE 0)
<1> DEFINE D == {k \in Index : k < n /\ d[k] = v}
<1>1. IsFiniteSet(Index) /\ Index \subseteq Nat
  BY FS_Interval, ListAssumption DEF Index
<1>2. IsFiniteSet(D) /\ Cardinality(D) \in Nat /\ Count(d, n, v) = Cardinality(D)
  BY <1>1, FS_Subset, FS_CardinalityType DEF Count
<1>3. \A k \in Index : e[k] = IF k = i THEN x ELSE d[k]
  OBVIOUS
<1>4. ASSUME i =< n PROVE Count(e, i + 1, v) =< Count(d, n, v) + (IF v = x THEN 1 ELSE 0)
  <2> DEFINE E == {k \in Index : k < i + 1 /\ e[k] = v}
  <2>1. E \subseteq D \cup {i} /\ (v # x => E \subseteq D)
    <3>1. \A k \in E : k \in Nat /\ (k = i \/ k < i) /\ e[k] = v /\ k \in Index
      BY <1>1
    <3>2. \A k \in E : k # i => k < n /\ d[k] = v
      BY <1>1, <1>3, <1>4, <3>1
    <3>3. v # x => i \notin E
      BY <1>3
    <3> HIDE DEF E
    <3> QED BY <3>1, <3>2, <3>3
  <2>2. Count(e, i + 1, v) = Cardinality(E)
    BY DEF Count
  <2> HIDE DEF D, E
  <2>3. Cardinality(E) =< Cardinality(D) + 1 /\ (v # x => Cardinality(E) =< Cardinality(D))
    BY <1>2, <2>1, CardNear
  <2>4. IsFiniteSet(D \cup {i})
    BY <1>2, FS_AddElement
  <2>5. Cardinality(E) \in Nat
    BY <2>1, <2>4, FS_Subset, FS_CardinalityType
  <2> QED BY <1>2, <2>2, <2>3, <2>5
<1>5. ASSUME i < n
      PROVE  Count(e, n, v) =< Count(d, n, v) + (IF v = x THEN 1 ELSE 0) - (IF v = d[i] THEN 1 ELSE 0)
  <2> DEFINE E == {k \in Index : k < n /\ e[k] = v}
  <2>1. /\ E \subseteq D \cup {i} /\ (v # x => E \subseteq D) /\ (v = d[i] => E \subseteq D)
        /\ (v = d[i] => i \in D) /\ (v # x /\ v = d[i] => E \subseteq D \ {i})
    BY <1>1, <1>3, <1>5
  <2>2. Count(e, n, v) = Cardinality(E)
    BY DEF Count
  <2> HIDE DEF D, E
  <2>3. /\ Cardinality(E) =< Cardinality(D) + 1
        /\ (v # x \/ v = d[i] => Cardinality(E) =< Cardinality(D))
        /\ (v # x /\ v = d[i] => Cardinality(E) =< Cardinality(D) - 1)
    BY <1>2, <2>1, CardNear
  <2>4. IsFiniteSet(D \cup {i})
    BY <1>2, FS_AddElement
  <2>5. Cardinality(E) \in Nat
    BY <2>1, <2>4, FS_Subset, FS_CardinalityType
  <2> QED BY <1>2, <2>2, <2>3, <2>5
<1> QED BY <1>4, <1>5
-----------------------------------------------------------------------------
(* What the invariant says about a block.                                  *)

\* The values that share a live block.
LEMMA SharingFacts ==
  ASSUME LIInv, NEW b \in Blocks, live[b]
  PROVE  /\ IsFiniteSet(Sharing(b)) /\ rc[b] = Cardinality(Sharing(b)) /\ rc[b] \in Nat
         /\ rc[b] = 0 => Sharing(b) = {}
         /\ rc[b] = 1 => \A r, q \in Sharing(b) : r = q
         /\ Sharing(b) # {} => rc[b] >= 1
<1>1. Sharing(b) \subseteq Refs /\ rc[b] = Cardinality(Sharing(b))
  BY DEF LIInv, LTypeOK, TypeOK, RefsExact, Sharing
<1>2. IsFiniteSet(Sharing(b)) /\ Cardinality(Sharing(b)) \in Nat
  BY <1>1, FS_Subset, FS_CardinalityType, ListAssumption
<1>3. Cardinality(Sharing(b)) = 0 <=> Sharing(b) = {}
  BY <1>2, FS_EmptySet
<1>4. ASSUME Cardinality(Sharing(b)) = 1, NEW r \in Sharing(b), NEW q \in Sharing(b) PROVE r = q
  <2>1. IsFiniteSet(Sharing(b) \ {r}) /\ Cardinality(Sharing(b) \ {r}) = 0
    BY <1>2, <1>4, FS_RemoveElement
  <2>2. Sharing(b) \ {r} = {}
    BY <2>1, FS_EmptySet
  <2> QED BY <2>2
<1> QED BY <1>1, <1>2, <1>3, <1>4

(* A call in place has its block for itself; the block of a last release   *)
(* is nobody's.                                                            *)
LEMMA BlockFacts ==
  ASSUME LIInv
  PROVE  /\ \A t \in Threads : pc[t] \in Asking /\ job[t].l.blk # None => job[t].l.blk \in Blocks /\ live[job[t].l.blk]
         /\ \A t \in Threads : InPlace(t) => \A r \in held : list[r].blk = job[t].l.blk => r = job[t].ref
         /\ \A t, u \in Threads : InPlace(t) /\ pc[u] \in Asking /\ job[u].l.blk = job[t].l.blk => t = u
         /\ \A t \in Threads : pc[t] \in Ending => \A r \in held : list[r].blk # job[t].l.blk
         /\ \A t, u \in Threads : pc[t] \in Ending /\ pc[u] \in Asking => job[t].l.blk # job[u].l.blk
<1>1. \A t \in Threads : /\ AskLocal(t) /\ EndLocal(t) /\ (InPlace(t) => pc[t] \in Asking)
                         /\ job[t].l.blk \in Blocks \cup {None}
  BY DEF LIInv, LLocal, LTypeOK, Jobs, ListValues, InPlace, Asking
<1>2. \A r \in held : list[r].blk # None => list[r].blk \in Blocks /\ live[list[r].blk] /\ r \in Sharing(list[r].blk)
  BY DEF LIInv, LTypeOK, TypeOK, ListValues, RefsExact, Sharing
<1>3. \A t \in Threads : pc[t] \in Asking => job[t].ref \in held /\ owner[job[t].ref] = t /\ list[job[t].ref] = job[t].l
  BY <1>1 DEF AskLocal
<1>4. ASSUME NEW t \in Threads, InPlace(t), NEW r \in held, list[r].blk = job[t].l.blk PROVE r = job[t].ref
  <2>1. job[t].l.blk # None /\ rc[job[t].l.blk] = 1
    BY <1>1, <1>4 DEF AskLocal
  <2>2. job[t].ref \in held /\ list[job[t].ref].blk = job[t].l.blk
    BY <1>1, <1>3, <1>4
  <2> QED BY <1>2, <1>4, <2>1, <2>2, SharingFacts
<1>5. ASSUME NEW t \in Threads, pc[t] \in Ending, NEW r \in held PROVE list[r].blk # job[t].l.blk
  <2>1. job[t].l.blk \in Blocks /\ live[job[t].l.blk] /\ rc[job[t].l.blk] = 0
    BY <1>1, <1>5 DEF EndLocal
  <2>2. Sharing(job[t].l.blk) = {}
    BY <2>1, SharingFacts
  <2> QED BY <2>2 DEF Sharing
<1>6. \A t \in Threads : pc[t] \in Asking /\ job[t].l.blk # None => job[t].l.blk \in Blocks /\ live[job[t].l.blk]
  BY <1>2, <1>3
<1>7. \A t, u \in Threads : InPlace(t) /\ pc[u] \in Asking /\ job[u].l.blk = job[t].l.blk => t = u
  BY <1>1, <1>3, <1>4
<1>8. \A t, u \in Threads : pc[t] \in Ending /\ pc[u] \in Asking => job[t].l.blk # job[u].l.blk
  BY <1>3, <1>5
<1> QED BY <1>4, <1>5, <1>6, <1>7, <1>8

\* What a call that allocates asks for.
LEMMA NewCapFits ==
  ASSUME LIInv, NEW t \in Threads, pc[t] \in {"alloc", "charge", "copy"}
  PROVE  /\ NewCap(t) \in Nat /\ Result(t).len \in 0 .. MaxLen /\ Result(t).len =< NewCap(t)
         /\ job[t].kind = "push" => Result(t).len = job[t].l.len + 1
         /\ job[t].kind = "set" => Result(t).len = job[t].l.len
<1> DEFINE j == job[t]
<1>1. AskLocal(t) /\ j \in Jobs /\ j.l \in ListValues
  BY DEF LIInv, LLocal, LTypeOK, Jobs
<1>2. j.kind \in {"push", "set"} /\ j.ref \in held /\ list[j.ref] = j.l /\ (j.kind = "push" => j.l.len < MaxLen)
  BY <1>1 DEF AskLocal, Asking
<1>3. j.l.len =< j.l.cap /\ j.l.len \in 0 .. MaxLen /\ j.l.cap \in Nat /\ MaxLen \in Nat
  BY <1>1, <1>2, ListAssumption DEF LIInv, LTypeOK, TypeOK, ListValues
<1>4. CASE j.kind = "push"
  <2>1. Grow(j.l) \in Nat /\ Grow(j.l) >= j.l.len + 1
    BY <1>1, <1>2, <1>3, <1>4, GrowFits
  <2>2. Result(t).len = j.l.len + 1 /\ NewCap(t) = Grow(j.l)
    BY <1>1, <1>4 DEF Result, NewCap, ListValues
  <2> HIDE DEF j
  <2> QED BY <1>2, <1>3, <1>4, <2>1, <2>2 DEF j
<1>5. CASE j.kind = "set"
  BY <1>3, <1>5 DEF Result, NewCap
<1> QED BY <1>2, <1>4, <1>5
-----------------------------------------------------------------------------
(* The steps, by what they do.                                             *)

\* push, set, retain and get have been called.
Called(t, j, q) ==
  /\ pc[t] = "idle" /\ pc' = [pc EXCEPT ![t] = q] /\ job' = [job EXCEPT ![t] = j]
  /\ j.ref \in held /\ owner[j.ref] = t /\ j.l = list[j.ref] /\ j.out \in Spare
  /\ q \in {"write", "retain", "alloc"}
  /\ j.kind \in (IF q = "retain" THEN {"retain", "get"} ELSE {"push", "set"})
  /\ j.kind = "push" => j.i = j.l.len /\ j.l.len < MaxLen /\ j.v \in Vals
  /\ j.kind \in {"set", "get"} => j.i < j.l.len
  /\ j.kind = "set" => j.v \in Vals
  /\ q = "write" => j.l.blk # None /\ rc[j.l.blk] = 1 /\ (j.kind = "push" => j.l.len < j.l.cap)
  /\ UNCHANGED <<blockVars, bytes, valueVars, elemVars, exited>>

\* A count or the quota counter has been loaded.
Loaded(t, q, s) ==
  /\ <<pc[t], q>> \in {<<"retain", "cas">>, <<"cas", "cas">>, <<"alloc", "charge">>, <<"charge", "charge">>}
  /\ pc' = [pc EXCEPT ![t] = q] /\ job' = [job EXCEPT ![t].seen = s]
  /\ q = "cas" => job[t].l.blk # None
  /\ UNCHANGED <<blockVars, bytes, valueVars, elemVars, exited>>

\* The empty list value has been retained.
ReturnedEmpty(t) ==
  /\ pc[t] = "retain" /\ job[t].l.blk = None /\ Return(t, Result(t))
  /\ UNCHANGED <<blockVars, bytes, elemVars, exited>>

Released(t, r) ==
  /\ pc[t] = "idle" \/ (pc[t] = "put" /\ r = job[t].out)
  /\ r \in held /\ owner[r] = t /\ ReleaseValue(t, r)

Charged(t) ==
  /\ pc[t] = "charge" /\ bytes + Charge(NewCap(t)) =< Quota
  /\ bytes' = bytes + Charge(NewCap(t)) /\ Goto(t, "copy")
  /\ UNCHANGED <<blockVars, valueVars, elemVars, job, exited>>

\* Nothing but the end of the process, if that.
Idle == UNCHANGED <<blockVars, bytes, valueVars, elemVars, pc, job>> /\ exited' \in BOOLEAN

\* What starting a call does, by the kind of call.
LEMMA CallCases ==
  ASSUME LIInv, NEW t \in Threads, NEW r \in Refs, NEW d \in Refs, NEW i, NEW v,
         \/ Push(t, r, d, v) /\ v \in Vals
         \/ Set(t, r, d, i, v) /\ i \in Index /\ v \in Vals
         \/ Retain(t, r, d)
         \/ Get(t, r, d, i) /\ i \in Index
  PROVE  \E j \in Jobs, q \in PcStates : Called(t, j, q)
<1> DEFINE K(k, x, w) == [kind |-> k, ref |-> r, out |-> d, l |-> list[r], i |-> x, v |-> w, seen |-> 0]
<1>1. list[r] \in ListValues /\ list[r].len \in Nat /\ Index \subseteq Nat
  BY ListAssumption DEF LIInv, LTypeOK, TypeOK, ListValues, Index
<1>2. CASE Push(t, r, d, v) /\ v \in Vals
  <2>1. K("push", list[r].len, v) \in Jobs
    BY <1>1, <1>2 DEF Jobs, Kinds
  <2>2. \E q \in PcStates : Called(t, K("push", list[r].len, v), q)
    BY <1>2 DEF Push, Call, Called, Holds, Goto, PcStates, Owned
  <2> QED BY <2>1, <2>2
<1>3. CASE Set(t, r, d, i, v) /\ i \in Index /\ v \in Vals
  <2>1. K("set", i, v) \in Jobs
    BY <1>1, <1>3 DEF Jobs, Kinds
  <2>2. \E q \in PcStates : Called(t, K("set", i, v), q)
    BY <1>3 DEF Set, Call, Called, Holds, Goto, PcStates, Owned
  <2> QED BY <2>1, <2>2
<1>4. CASE Retain(t, r, d)
  <2>1. K("retain", 0, None) \in Jobs
    BY <1>1 DEF Jobs, Kinds
  <2>2. \E q \in PcStates : Called(t, K("retain", 0, None), q)
    BY <1>4 DEF Retain, Call, Called, Holds, Goto, PcStates
  <2> QED BY <2>1, <2>2
<1>5. CASE Get(t, r, d, i) /\ i \in Index
  <2>1. K("get", i, None) \in Jobs
    BY <1>1, <1>5 DEF Jobs, Kinds
  <2>2. \E q \in PcStates : Called(t, K("get", i, None), q)
    BY <1>5 DEF Get, Call, Called, Holds, Goto, PcStates
  <2> QED BY <2>1, <2>2
<1> QED BY <1>2, <1>3, <1>4, <1>5

Step ==
  \/ Idle
  \/ \E t \in Threads :
       \/ \E j \in Jobs, q \in PcStates : Called(t, j, q)
       \/ \E q \in PcStates, s \in Int : Loaded(t, q, s)
       \/ \E r \in Refs : New(t, r) \/ Released(t, r) \/ \E u \in Threads : Pass(t, u, r)
       \/ Write(t) \/ ReturnedEmpty(t) \/ RetainCas(t) \/ Read(t) \/ Drop(t) \/ Uncharge(t) \/ Charged(t)
       \/ \E b \in Blocks : Copy(t, b)
  \/ \E v \in Vals : ReleaseElem(v)

\* Every step on the heap is one of the kinds of Step.
LEMMA StepCases ==
  ASSUME LIInv, ~InArena, [Next]_vars
  PROVE  Step
<1>1. CASE UNCHANGED vars \/ Exited
  BY <1>1 DEF Step, Idle, vars, Exited, LIInv, LTypeOK, TypeOK
<1>2. ASSUME NEW t \in Threads, NEW r \in Refs, New(t, r) \/ Release(t, r) \/ \E u \in Threads : Pass(t, u, r) PROVE Step
  BY <1>2 DEF Step, Release, Released, Holds
<1>3. ASSUME NEW t \in Threads, NEW r \in Refs, NEW d \in Refs,
             \/ Retain(t, r, d) \/ \E v \in Vals : Push(t, r, d, v)
             \/ \E i \in Index : Get(t, r, d, i) \/ \E v \in Vals : Set(t, r, d, i, v)
      PROVE  Step
  <2>1. \E j \in Jobs, q \in PcStates : Called(t, j, q)
    <3>1. CASE Retain(t, r, d)
      BY <3>1, CallCases
    <3>2. CASE \E v \in Vals : Push(t, r, d, v)
      BY <3>2, CallCases
    <3>3. CASE \E i \in Index : Get(t, r, d, i)
      BY <3>3, CallCases
    <3>4. CASE \E i \in Index : \E v \in Vals : Set(t, r, d, i, v)
      BY <3>4, CallCases
    <3> QED BY <1>3, <3>1, <3>2, <3>3, <3>4
  <2> QED BY <2>1 DEF Step
<1>4. ASSUME NEW t \in Threads, RetainLoad(t) PROVE Step
  <2>1. CASE job[t].l.blk # None
    <3>1. rc[job[t].l.blk] \in Int
      BY <2>1 DEF LIInv, LTypeOK, TypeOK, Jobs, ListValues
    <3>2. Loaded(t, "cas", rc[job[t].l.blk])
      BY <1>4, <2>1 DEF RetainLoad, Loaded, RetainCounts, At, Goto
    <3> QED BY <3>1, <3>2 DEF Step, PcStates
  <2>2. CASE job[t].l.blk = None
    BY <1>4, <2>2 DEF RetainLoad, ReturnedEmpty, At, Step
  <2> QED BY <2>1, <2>2
<1>5. ASSUME NEW t \in Threads, RetainRetry(t) PROVE Step
  <2>1. job[t].l.blk # None /\ pc[t] = "cas"
    BY <1>5 DEF LIInv, LLocal, AskLocal, Asking, RetainRetry, At
  <2>2. rc[job[t].l.blk] \in Int
    BY <2>1 DEF LIInv, LTypeOK, TypeOK, Jobs, ListValues
  <2>3. pc = [pc EXCEPT ![t] = "cas"]
    BY <2>1 DEF LIInv, LTypeOK, TypeOK
  <2>4. Loaded(t, "cas", rc[job[t].l.blk])
    BY <1>5, <2>1, <2>3 DEF RetainRetry, Loaded
  <2> QED BY <2>2, <2>4 DEF Step, PcStates
<1>6. ASSUME NEW t \in Threads, AllocLoad(t) PROVE Step
  <2>1. Loaded(t, "charge", bytes) /\ bytes \in Int
    BY <1>6 DEF AllocLoad, Loaded, At, Goto, LIInv, LTypeOK, TypeOK
  <2> QED BY <2>1 DEF Step, PcStates
<1>7. ASSUME NEW t \in Threads, QuotaExit(t) PROVE Step
  BY <1>7 DEF QuotaExit, Step, Idle
<1>8. ASSUME NEW t \in Threads, QuotaCharge(t) PROVE Step
  <2>1. CASE bytes = job[t].seen
    BY <1>8, <2>1 DEF QuotaCharge, Charged, At, Step
  <2>2. CASE bytes # job[t].seen
    <3>1. pc = [pc EXCEPT ![t] = "charge"] /\ bytes \in Int
      BY <1>8 DEF LIInv, LTypeOK, TypeOK, QuotaCharge, At
    <3>2. Loaded(t, "charge", bytes)
      BY <1>8, <2>2, <3>1 DEF QuotaCharge, Loaded, At
    <3> QED BY <3>1, <3>2 DEF Step, PcStates
  <2> QED BY <2>1, <2>2
<1>9. ASSUME NEW t \in Threads, GetRelease(t) PROVE Step
  <2>1. job[t].out \in held /\ owner[job[t].out] = t /\ job[t].out \in Refs
    BY <1>9 DEF LIInv, LLocal, GetLocal, GetRelease, At, LTypeOK, TypeOK
  <2> QED BY <1>9, <2>1 DEF GetRelease, At, Released, Step
<1>10. ASSUME NEW t \in Threads,
              \/ Write(t) \/ RetainCas(t) \/ Read(t) \/ Drop(t) \/ Uncharge(t) \/ \E b \in Blocks : Copy(t, b)
       PROVE  Step
  BY <1>10 DEF Step
<1>11. ASSUME NEW v \in Vals, ReleaseElem(v) PROVE Step
  BY <1>11 DEF Step
<1> QED BY <1>1, <1>2, <1>3, <1>4, <1>5, <1>6, <1>7, <1>8, <1>9, <1>10, <1>11 DEF Next
-----------------------------------------------------------------------------
\* The initial state satisfies the invariant.
LEMMA ListInit == Init => LIInv
<1> SUFFICES ASSUME Init PROVE LIInv
  OBVIOUS
<1>1. LTypeOK
  <2>1. Empty \in ListValues /\ NoJob \in Jobs /\ MaxGot \in Nat
    BY ListAssumption DEF ListValues, Empty, NoJob, Jobs, Kinds
  <2>2. TypeOK
    <3>1. /\ rc \in [Blocks -> Int] /\ live \in [Blocks -> BOOLEAN] /\ size \in [Blocks -> Nat]
          /\ data \in [Blocks -> [Index -> Vals \cup {None}]]
      BY DEF Init
    <3>2. /\ held \in SUBSET Refs /\ list \in [Refs -> ListValues] /\ held = {}
          /\ owner \in [Refs -> Threads \cup {None}]
      BY <2>1 DEF Init
    <3>3. erc \in [Vals -> Int] /\ got \in [Vals -> 0 .. MaxGot]
      BY <2>1 DEF Init
    <3>4. pc \in [Threads -> PcStates] /\ bytes \in Int
      BY DEF Init, PcStates
    <3>5. exited \in BOOLEAN
      BY Zenon DEF Init
    <3> QED BY <3>1, <3>2, <3>3, <3>4, <3>5 DEF TypeOK
  <2> QED BY <2>1, <2>2 DEF Init, LTypeOK
<1>2. LLocal /\ CallsApart
  BY DEF Init, LLocal, CallsApart, AskLocal, GetLocal, EndLocal, Asking, Ending
<1>3. ValuesOK /\ RefsExact
  BY DEF Init, ValuesOK, RefsExact
<1>4. ElemsKept
  <2> DEFINE n == [b \in Blocks |-> 0]
  <2>1. n \in [Blocks -> 0 .. MaxLen] /\ Covers(n)
    BY ListAssumption DEF Init, Covers
  <2>2. ASSUME NEW v \in Vals PROVE erc[v] >= got[v] + SumFunction(Counts(n, v))
    <3>1. \A b \in Blocks : Count(data[b], 0, v) = 0
      BY CountFacts
    <3>2. Counts(n, v) \in [Blocks -> Nat] /\ \A b \in Blocks : Counts(n, v)[b] = 0
      BY <3>1 DEF Counts
    <3>3. SumFunction(Counts(n, v)) = 0
      BY <3>2, SumOfNaturals, ListAssumption
    <3>4. erc[v] = 0 /\ got[v] = 0
      BY DEF Init
    <3> QED BY <3>3, <3>4
  <2> HIDE DEF n
  <2>3. Counted(n)
    BY <2>2 DEF Counted
  <2> QED BY <2>1, <2>3 DEF ElemsKept
<1>5. BytesExact
  <2>1. BlockCharges \in [Blocks -> Nat] /\ \A b \in Blocks : BlockCharges[b] = 0
    BY DEF Init, BlockCharges
  <2>2. CallCharges \in [Threads -> Nat] /\ \A t \in Threads : CallCharges[t] = 0
    BY DEF Init, CallCharges
  <2>3. SumFunction(BlockCharges) = 0 /\ SumFunction(CallCharges) = 0
    BY <2>1, <2>2, SumOfNaturals, ListAssumption
  <2> QED BY <2>3, ListAssumption DEF Init, BytesExact
<1> QED BY <1>1, <1>2, <1>3, <1>4, <1>5 DEF LIInv

(* Types.                                                                  *)
\* A call returns: one more list value.
LEMMA ReturnType ==
  ASSUME LIInv, NEW t \in Threads, NEW l \in ListValues, l.len =< l.cap, pc[t] \in Asking, Return(t, l)
  PROVE  /\ held' \in SUBSET Refs /\ list' \in [Refs -> ListValues] /\ owner' \in [Refs -> Threads \cup {None}]
         /\ \A r \in held' : list'[r].len =< list'[r].cap
         /\ pc' \in [Threads -> PcStates] /\ job' \in [Threads -> Jobs]
<1>1. job[t].out \in Refs
  BY DEF LIInv, LLocal, AskLocal
<1>2. NoJob \in Jobs
  BY ListAssumption DEF NoJob, Jobs, Kinds, ListValues, Empty
<1> QED BY <1>1, <1>2 DEF Return, Goto, LIInv, LTypeOK, TypeOK, PcStates

\* What get reads is an element.
LEMMA ReadValue ==
  ASSUME LIInv, NEW t \in Threads, pc[t] = "read"
  PROVE  data[job[t].l.blk][job[t].i] \in Vals
<1>1. /\ job[t].out \in held /\ list[job[t].out] = job[t].l /\ job[t].i < job[t].l.len
      /\ job[t].l \in ListValues /\ job[t].i \in Nat
  BY DEF LIInv, LLocal, GetLocal, LTypeOK, Jobs
<1>2. ValueOK(job[t].l)
  BY <1>1 DEF LIInv, ValuesOK
<1>3. job[t].i \in Index
  BY <1>1, ListAssumption DEF Index, ListValues
<1> QED BY <1>1, <1>2, <1>3 DEF ValueOK

\* Every step keeps the types.
LEMMA TypeStep ==
  ASSUME LIInv, ~InArena, Step
  PROVE  LTypeOK'
<1>0. LTypeOK /\ NoJob \in Jobs /\ Empty \in ListValues /\ MaxLen \in Nat /\ \A t \in Threads : job[t] \in Jobs
  BY ListAssumption DEF LIInv, LTypeOK, NoJob, Jobs, Kinds, ListValues, Empty
<1> USE DEF LTypeOK, TypeOK, PcStates, Goto, blockVars, valueVars, elemVars
<1>1. CASE Idle
  BY <1>0, <1>1 DEF Idle
<1>2. ASSUME NEW t \in Threads, NEW j \in Jobs, NEW q \in PcStates, Called(t, j, q) PROVE LTypeOK'
  BY <1>0, <1>2 DEF Called
<1>3. ASSUME NEW t \in Threads, NEW q \in PcStates, NEW s \in Int, Loaded(t, q, s) PROVE LTypeOK'
  <2>1. [job[t] EXCEPT !.seen = s] \in Jobs
    BY <1>0 DEF Jobs
  <2> QED BY <1>0, <1>3, <2>1 DEF Loaded
<1>4. ASSUME NEW t \in Threads, NEW r \in Refs, New(t, r) PROVE LTypeOK'
  BY <1>0, <1>4 DEF New, Empty
<1>5. ASSUME NEW t \in Threads, NEW r \in Refs, Released(t, r) PROVE LTypeOK'
  <2>1. list[r] \in ListValues /\ (list[r].blk # None => list[r].blk \in Blocks)
    BY <1>0 DEF ListValues
  <2>2. [NoJob EXCEPT !.l = list[r]] \in Jobs
    BY <1>0, <2>1 DEF Jobs, NoJob
  <2>3. rc' \in [Blocks -> Int]
    BY <1>0, <1>5, <2>1 DEF Released, ReleaseValue
  <2>4. pc' \in [Threads -> PcStates] /\ job' \in [Threads -> Jobs]
    BY <1>0, <1>5, <2>2 DEF Released, ReleaseValue
  <2>5. /\ held' \in SUBSET Refs /\ list' \in [Refs -> ListValues] /\ owner' \in [Refs -> Threads \cup {None}]
        /\ \A q \in held' : list'[q].len =< list'[q].cap
    BY <1>0, <1>5 DEF Released, ReleaseValue
  <2> QED BY <1>0, <1>5, <2>3, <2>4, <2>5 DEF Released, ReleaseValue
<1>6. ASSUME NEW t \in Threads, NEW u \in Threads, NEW r \in Refs, Pass(t, u, r) PROVE LTypeOK'
  BY <1>0, <1>6 DEF Pass
<1>7. ASSUME NEW t \in Threads, Write(t) PROVE LTypeOK'
  <2>1. job[t].v \in Vals /\ job[t].l.blk \in Blocks /\ job[t].i \in Index
    <3>1. AskLocal(t) /\ pc[t] = "write"
      BY <1>7 DEF LIInv, LLocal, Write, At
    <3> QED BY <1>0, <3>1 DEF AskLocal, Asking, InPlace, Jobs, ListValues, Index
  <2>2. data' \in [Blocks -> [Index -> Vals \cup {None}]]
    BY <1>0, <1>7, <2>1 DEF Write
  <2>3. erc' \in [Vals -> Int]
    BY <1>0, <1>7 DEF Write
  <2> QED BY <1>0, <1>7, <2>2, <2>3 DEF Write
<1>8. ASSUME NEW t \in Threads, ReturnedEmpty(t) \/ RetainCas(t) PROVE LTypeOK'
  <2>1. AskLocal(t) /\ pc[t] \in {"retain", "cas"} /\ Return(t, Result(t))
    BY <1>8 DEF LIInv, LLocal, ReturnedEmpty, RetainCas, At
  <2>2. /\ job[t].l \in ListValues /\ job[t].ref \in held /\ list[job[t].ref] = job[t].l
        /\ job[t].kind = "push" => job[t].l.len < job[t].l.cap /\ job[t].l.len < MaxLen
    BY <1>0, <2>1 DEF AskLocal, Asking, InPlace, Jobs
  <2>3. Result(t) \in ListValues /\ Result(t).len =< Result(t).cap
    <3>1. CASE job[t].kind = "push"
      <4>1. Result(t) = [job[t].l EXCEPT !.len = job[t].l.len + 1]
        BY <3>1 DEF Result
      <4>2. job[t].l.len + 1 \in 0 .. MaxLen /\ job[t].l.len + 1 =< job[t].l.cap
        BY <1>0, <2>2, <3>1 DEF ListValues
      <4> QED BY <2>2, <4>1, <4>2 DEF ListValues
    <3>2. CASE job[t].kind # "push"
      BY <1>0, <2>2, <3>2 DEF Result
    <3> QED BY <3>1, <3>2
  <2>4. /\ held' \in SUBSET Refs /\ list' \in [Refs -> ListValues] /\ owner' \in [Refs -> Threads \cup {None}]
        /\ \A r \in held' : list'[r].len =< list'[r].cap
        /\ pc' \in [Threads -> PcStates] /\ job' \in [Threads -> Jobs]
    BY <2>1, <2>3, ReturnType DEF Asking
  <2>5. rc' \in [Blocks -> Int]
    BY <1>0, <1>8 DEF ReturnedEmpty, RetainCas, Jobs
  <2> QED BY <1>0, <1>8, <2>4, <2>5 DEF ReturnedEmpty, RetainCas
<1>9. ASSUME NEW t \in Threads, Read(t) PROVE LTypeOK'
  <2>1. data[job[t].l.blk][job[t].i] \in Vals
    BY <1>9, ReadValue DEF Read, At
  <2>2. got' \in [Vals -> 0 .. MaxGot] /\ erc' \in [Vals -> Int]
    BY <1>0, <1>9, <2>1, ListAssumption DEF Read
  <2> QED BY <1>0, <1>9, <2>2 DEF Read
<1>10. ASSUME NEW t \in Threads, Drop(t) PROVE LTypeOK'
  <2>1. \A v \in Vals : Count(data[job[t].l.blk], job[t].l.len, v) \in Nat
    BY <1>0, CountFacts DEF Jobs, ListValues
  <2> QED BY <1>0, <1>10, <2>1 DEF Drop
<1>11. ASSUME NEW t \in Threads, Uncharge(t) PROVE LTypeOK'
  <2>1. Charge(job[t].l.cap) \in Int
    BY <1>0, ListAssumption DEF Charge, Jobs, ListValues
  <2>2. live' \in [Blocks -> BOOLEAN] /\ size' \in [Blocks -> Nat] /\ data' \in [Blocks -> [Index -> Vals \cup {None}]]
    BY <1>0, <1>11 DEF Uncharge
  <2>3. bytes' \in Int /\ pc' \in [Threads -> PcStates] /\ job' \in [Threads -> Jobs]
    BY <1>0, <1>11, <2>1 DEF Uncharge
  <2> QED BY <1>0, <1>11, <2>2, <2>3 DEF Uncharge
<1>12. ASSUME NEW t \in Threads, Charged(t) PROVE LTypeOK'
  <2>1. Charge(NewCap(t)) \in Int
    BY <1>12, NewCapFits, ListAssumption DEF Charge, Charged
  <2> QED BY <1>0, <1>12, <2>1 DEF Charged
<1>13. ASSUME NEW t \in Threads, NEW b \in Blocks, Copy(t, b) PROVE LTypeOK'
  <2> DEFINE l == [blk |-> b, len |-> Result(t).len, cap |-> NewCap(t)]
  <2>1. AskLocal(t) /\ pc[t] = "copy" /\ Return(t, l)
    BY <1>13 DEF LIInv, LLocal, Copy, At
  <2>2. l \in ListValues /\ l.len =< l.cap
    BY <2>1, NewCapFits DEF ListValues
  <2> HIDE DEF l
  <2>3. /\ held' \in SUBSET Refs /\ list' \in [Refs -> ListValues] /\ owner' \in [Refs -> Threads \cup {None}]
        /\ \A r \in held' : list'[r].len =< list'[r].cap
        /\ pc' \in [Threads -> PcStates] /\ job' \in [Threads -> Jobs]
    BY <2>1, <2>2, ReturnType DEF Asking
  <2>4. Copied(t) \in [Index -> Vals \cup {None}]
    <3>1. job[t].v \in Vals \cup {None} /\ (job[t].l.len > 0 => job[t].l.blk \in Blocks)
      <4>1. ValueOK(job[t].l) /\ job[t].l \in ListValues
        BY <1>0, <2>1 DEF AskLocal, Asking, LIInv, ValuesOK, Jobs
      <4> QED BY <1>0, <4>1 DEF ValueOK, ListValues, Jobs
    <3>2. \A i \in Index : i < job[t].l.len => job[t].l.len > 0
      BY <1>0 DEF Index, Jobs, ListValues
    <3> QED BY <1>0, <3>1, <3>2 DEF Copied
  <2>5. erc' \in [Vals -> Int]
    <3>1. \A v \in Vals : Count(Copied(t), Result(t).len, v) \in Nat
      <4>1. Result(t).len \in Nat
        BY <1>0, <2>1, NewCapFits
      <4> QED BY <4>1, CountFacts
    <3> QED BY <1>0, <1>13, <3>1 DEF Copy
  <2>6. rc' \in [Blocks -> Int] /\ live' \in [Blocks -> BOOLEAN] /\ size' \in [Blocks -> Nat]
    BY <1>0, <1>13, <2>1, NewCapFits DEF Copy
  <2>7. data' \in [Blocks -> [Index -> Vals \cup {None}]]
    BY <1>0, <1>13, <2>4 DEF Copy
  <2> QED BY <1>0, <1>13, <2>3, <2>5, <2>6, <2>7 DEF Copy
<1>14. ASSUME NEW v \in Vals, ReleaseElem(v) PROVE LTypeOK'
  <2>1. got' \in [Vals -> 0 .. MaxGot] /\ erc' \in [Vals -> Int]
    BY <1>0, <1>14, ListAssumption DEF ReleaseElem
  <2> QED BY <1>0, <1>14, <2>1 DEF ReleaseElem
<1> QED BY <1>1, <1>2, <1>3, <1>4, <1>5, <1>6, <1>7, <1>8, <1>9, <1>10, <1>11, <1>12, <1>13, <1>14 DEF Step
-----------------------------------------------------------------------------
(* What each call knows.                                                   *)
LEMMA LocalStep ==
  ASSUME LIInv, ~InArena, Step, NEW u \in Threads
  PROVE  AskLocal(u)' /\ GetLocal(u)' /\ EndLocal(u)'
<1>0. /\ pc \in [Threads -> PcStates] /\ job \in [Threads -> Jobs] /\ held \subseteq Refs
      /\ list \in [Refs -> ListValues] /\ owner \in [Refs -> Threads \cup {None}] /\ rc \in [Blocks -> Int]
      /\ data \in [Blocks -> [Index -> Vals \cup {None}]] /\ live \in [Blocks -> BOOLEAN]
      /\ size \in [Blocks -> Nat] /\ None \notin Blocks
  BY ListAssumption DEF LIInv, LTypeOK, TypeOK
<1>a. AskLocal(u) /\ GetLocal(u) /\ EndLocal(u) /\ job[u].l.blk \in Blocks \cup {None}
  BY <1>0 DEF LIInv, LLocal, Jobs, ListValues
<1> USE DEF Goto, blockVars, valueVars, elemVars
<1>1. CASE Idle
  BY <1>a, <1>1 DEF Idle, AskLocal, GetLocal, EndLocal, InPlace
<1>2. ASSUME NEW t \in Threads, NEW j \in Jobs, NEW q \in PcStates, Called(t, j, q)
      PROVE  AskLocal(u)' /\ GetLocal(u)' /\ EndLocal(u)'
  <2>1. CASE u = t
    <3>1. pc'[u] = q /\ job'[u] = j
      BY <1>0, <1>2, <2>1 DEF Called
    <3>2. GetLocal(u)' /\ EndLocal(u)'
      BY <1>2, <3>1 DEF Called, GetLocal, EndLocal, Ending
    <3>3. j.out \in Refs \ held
      BY <1>2 DEF Called, Spare
    <3>4. AskLocal(u)'
      BY <1>2, <2>1, <3>1, <3>3 DEF Called, AskLocal, Asking, InPlace, Kinds
    <3> QED BY <3>2, <3>4
  <2>2. CASE u # t
    <3>1. pc'[u] = pc[u] /\ job'[u] = job[u]
      BY <1>0, <1>2, <2>2 DEF Called
    <3> QED BY <1>a, <1>2, <3>1 DEF Called, AskLocal, GetLocal, EndLocal, InPlace
  <2> QED BY <2>1, <2>2
<1>3. ASSUME NEW t \in Threads, NEW q \in PcStates, NEW s \in Int, Loaded(t, q, s)
      PROVE  AskLocal(u)' /\ GetLocal(u)' /\ EndLocal(u)'
  <2>1. CASE u = t
    <3>1. /\ pc'[u] = q
          /\ job'[u].kind = job[u].kind /\ job'[u].ref = job[u].ref /\ job'[u].out = job[u].out
          /\ job'[u].l = job[u].l /\ job'[u].i = job[u].i /\ job'[u].v = job[u].v
      BY <1>0, <1>3, <2>1 DEF Loaded, Jobs
    <3>2. GetLocal(u)' /\ EndLocal(u)'
      BY <1>3, <3>1 DEF Loaded, GetLocal, EndLocal, Ending
    <3>3. pc[u] \in Asking /\ (InPlace(u)' => InPlace(u)) /\ (q \in {"retain", "cas"} <=> pc[u] \in {"retain", "cas"})
      BY <1>3, <2>1, <3>1 DEF Loaded, Asking, InPlace
    <3>4. pc[u] # "write"
      BY <1>3, <2>1 DEF Loaded
    <3>5. AskLocal(u)'
      BY <1>a, <1>3, <2>1, <3>1, <3>3, <3>4 DEF Loaded, AskLocal
    <3> QED BY <3>2, <3>5
  <2>2. CASE u # t
    <3>1. pc'[u] = pc[u] /\ job'[u] = job[u]
      BY <1>0, <1>3, <2>2 DEF Loaded
    <3> QED BY <1>a, <1>3, <3>1 DEF Loaded, AskLocal, GetLocal, EndLocal, InPlace
  <2> QED BY <2>1, <2>2
<1>4. ASSUME NEW t \in Threads, NEW r \in Refs, New(t, r)
      PROVE  AskLocal(u)' /\ GetLocal(u)' /\ EndLocal(u)'
  <2>1. r \notin held /\ r # job[u].out
    BY <1>4 DEF New, Spare
  <2>2. EndLocal(u)'
    BY <1>a, <1>4 DEF New, EndLocal
  <2>3. \A x \in held : x \in held' /\ owner'[x] = owner[x] /\ list'[x] = list[x]
    BY <1>0, <1>4, <2>1 DEF New
  <2>4. AskLocal(u)'
    BY <1>a, <1>4, <2>1, <2>3 DEF New, AskLocal, InPlace
  <2>5. GetLocal(u)'
    BY <1>a, <1>4, <2>1, <2>3 DEF New, GetLocal
  <2> QED BY <2>2, <2>4, <2>5
<1>6. ASSUME NEW t \in Threads, NEW w \in Threads, NEW r \in Refs, Pass(t, w, r)
      PROVE  AskLocal(u)' /\ GetLocal(u)' /\ EndLocal(u)'
  <2>1. pc[u] \in Asking => job[u].ref # r
    BY <1>a, <1>6 DEF AskLocal, Asking, Pass, Holds
  <2>2. pc[u] \in {"read", "put"} => job[u].out # r
    BY <1>a, <1>6 DEF GetLocal, Pass, Holds
  <2> QED BY <1>0, <1>a, <1>6, <2>1, <2>2 DEF Pass, AskLocal, GetLocal, EndLocal, InPlace
<1>9. ASSUME NEW t \in Threads, Read(t) PROVE AskLocal(u)' /\ GetLocal(u)' /\ EndLocal(u)'
  <2>1. pc'[u] = (IF u = t THEN "put" ELSE pc[u]) /\ job' = job /\ pc[t] = "read"
    BY <1>0, <1>9 DEF Read, At
  <2> QED BY <1>a, <1>9, <2>1 DEF Read, AskLocal, GetLocal, EndLocal, InPlace, Asking, Ending
<1>10. ASSUME NEW t \in Threads, Drop(t) PROVE AskLocal(u)' /\ GetLocal(u)' /\ EndLocal(u)'
  <2>1. pc'[u] = (IF u = t THEN "uncharge" ELSE pc[u]) /\ job' = job /\ pc[t] = "drop"
    BY <1>0, <1>10 DEF Drop, At
  <2> QED BY <1>a, <1>10, <2>1 DEF Drop, AskLocal, GetLocal, EndLocal, InPlace, Asking, Ending
<1>12. ASSUME NEW t \in Threads, Charged(t) PROVE AskLocal(u)' /\ GetLocal(u)' /\ EndLocal(u)'
  <2>1. pc'[u] = (IF u = t THEN "copy" ELSE pc[u]) /\ job' = job /\ pc[t] = "charge"
    BY <1>0, <1>12 DEF Charged
  <2> QED BY <1>a, <1>12, <2>1 DEF Charged, AskLocal, GetLocal, EndLocal, InPlace, Asking, Ending
<1>14. ASSUME NEW v \in Vals, ReleaseElem(v) PROVE AskLocal(u)' /\ GetLocal(u)' /\ EndLocal(u)'
  BY <1>a, <1>14 DEF ReleaseElem, AskLocal, GetLocal, EndLocal, InPlace
<1>7. ASSUME NEW t \in Threads, Write(t) PROVE AskLocal(u)' /\ GetLocal(u)' /\ EndLocal(u)'
  <2>0. pc[t] = "write" /\ pc'[u] = (IF u = t THEN "retain" ELSE pc[u]) /\ job' = job
    BY <1>0, <1>7 DEF Write, At
  <2>1. AskLocal(t) /\ job[t].v \in Vals /\ job[t].l.blk \in Blocks /\ job[t].i \in Index /\ job[t].kind \in {"push", "set"}
    <3>1. AskLocal(t)
      BY DEF LIInv, LLocal
    <3> QED BY <1>0, <2>0, <3>1, ListAssumption DEF AskLocal, Asking, InPlace, Jobs, ListValues, Index
  <2>2. \A b \in Blocks : \A i \in Index : data'[b][i] = IF b = job[t].l.blk /\ i = job[t].i THEN job[t].v ELSE data[b][i]
    BY <1>0, <1>7, <2>1 DEF Write
  <2>3. GetLocal(u)' /\ EndLocal(u)'
    BY <1>a, <1>7, <2>0 DEF Write, GetLocal, EndLocal, Ending
  <2>4. InPlace(u)' => InPlace(u)
    BY <2>0, <1>7 DEF InPlace
  <2>5. /\ pc'[u] \in Asking /\ InPlace(u)' /\ pc'[u] # "write" => data'[job[u].l.blk][job[u].i] \in Vals
    <3> SUFFICES ASSUME pc'[u] \in Asking, InPlace(u)', pc'[u] # "write" PROVE data'[job[u].l.blk][job[u].i] \in Vals
      OBVIOUS
    <3>1. pc[u] \in Asking
      BY <2>0 DEF Asking
    <3>2. job[u].l.blk \in Blocks /\ job[u].i \in Index
      <4>1. job[u].kind \in {"push", "set"}
        BY <2>0, <2>1 DEF InPlace
      <4>2. job[u] \in Jobs /\ job[u].l.blk # None
        BY <1>0, <1>a, <2>4, <3>1 DEF AskLocal
      <4> QED BY <1>a, <3>1, <4>1, <4>2, ListAssumption DEF AskLocal, Jobs, ListValues, Index
    <3>3. u # t => data[job[u].l.blk][job[u].i] \in Vals
      BY <1>a, <2>0, <2>4, <3>1 DEF AskLocal
    <3> QED BY <2>1, <2>2, <3>2, <3>3
  <2>6. AskLocal(u)'
    BY <1>a, <1>7, <2>0, <2>1, <2>4, <2>5 DEF Write, AskLocal, Asking, Kinds
  <2> QED BY <2>3, <2>6
<1>b. ASSUME NEW t \in Threads, pc[t] \in Asking, NEW l, Return(t, l)
      PROVE  /\ \A x \in held : x \in held' /\ owner'[x] = owner[x] /\ list'[x] = list[x]
             /\ u # t => pc'[u] = pc[u] /\ job'[u] = job[u] /\ (pc[u] \in Asking => job[u].out \notin held')
             /\ u = t => \/ pc'[u] = "idle"
                         \/ /\ pc'[u] = "read" /\ job'[u] = job[u] /\ job[u].kind = "get"
                            /\ job[u].out \in held' /\ owner'[job[u].out] = u /\ list'[job[u].out] = l
  <2>1. job[t].out \in Refs \ held
    BY <1>b DEF LIInv, LLocal, AskLocal
  <2>2. u # t /\ pc[u] \in Asking => job[u].out # job[t].out /\ job[u].out \notin held
    BY <1>a, <1>b DEF LIInv, CallsApart, AskLocal
  <2> QED BY <1>0, <1>b, <2>1, <2>2 DEF Return
<1>8. ASSUME NEW t \in Threads, ReturnedEmpty(t) \/ RetainCas(t) PROVE AskLocal(u)' /\ GetLocal(u)' /\ EndLocal(u)'
  <2>1. /\ pc[t] \in {"retain", "cas"} /\ pc[t] \in Asking /\ Return(t, Result(t)) /\ AskLocal(t)
        /\ data' = data /\ live' = live /\ size' = size
    BY <1>8 DEF ReturnedEmpty, RetainCas, At, Asking, LIInv, LLocal
  <2>2. \A b \in Blocks : rc'[b] = rc[b] \/ (b = job[t].l.blk /\ pc[t] = "cas")
    BY <1>0, <1>8 DEF ReturnedEmpty, RetainCas, At
  <2>3. /\ \A x \in held : x \in held' /\ owner'[x] = owner[x] /\ list'[x] = list[x]
        /\ u # t => pc'[u] = pc[u] /\ job'[u] = job[u] /\ (pc[u] \in Asking => job[u].out \notin held')
        /\ u = t => \/ pc'[u] = "idle"
                    \/ /\ pc'[u] = "read" /\ job'[u] = job[u] /\ job[u].kind = "get"
                       /\ job[u].out \in held' /\ owner'[job[u].out] = u /\ list'[job[u].out] = Result(t)
    BY <1>b, <2>1
  <2>4. CASE u = t
    <3>1. job[u].kind = "get" => job[u].i < job[u].l.len /\ Result(t) = job[u].l
      BY <2>1, <2>4 DEF AskLocal, Result
    <3> QED BY <2>3, <2>4, <3>1 DEF AskLocal, GetLocal, EndLocal, Asking, Ending
  <2>5. CASE u # t
    <3>1. GetLocal(u)'
      BY <1>a, <2>3, <2>5 DEF GetLocal
    <3>2. EndLocal(u)'
      <4>1. pc[u] \in Ending => job[u].l.blk # job[t].l.blk
        BY <2>1, BlockFacts
      <4> QED BY <1>a, <2>1, <2>2, <2>3, <2>5, <4>1 DEF EndLocal
    <3>3. AskLocal(u)'
      <4>1. InPlace(u)' <=> InPlace(u)
        BY <2>3, <2>5 DEF InPlace
      <4>2. InPlace(u) => job[u].l.blk # job[t].l.blk
        BY <2>1, <2>5, BlockFacts
      <4>3. pc[u] \in Asking /\ InPlace(u) => rc'[job[u].l.blk] = 1
        BY <1>a, <2>2, <4>2 DEF AskLocal
      <4> QED BY <1>a, <2>1, <2>3, <2>5, <4>1, <4>3 DEF AskLocal
    <3> QED BY <3>1, <3>2, <3>3
  <2> QED BY <2>4, <2>5
<1>13. ASSUME NEW t \in Threads, NEW b \in Blocks, Copy(t, b) PROVE AskLocal(u)' /\ GetLocal(u)' /\ EndLocal(u)'
  <2> DEFINE l == [blk |-> b, len |-> Result(t).len, cap |-> NewCap(t)]
  <2>1. /\ pc[t] = "copy" /\ pc[t] \in Asking /\ Return(t, l) /\ AskLocal(t) /\ ~live[b]
        /\ live' = [live EXCEPT ![b] = TRUE] /\ rc' = [rc EXCEPT ![b] = 1]
        /\ size' = [size EXCEPT ![b] = NewCap(t)] /\ data' = [data EXCEPT ![b] = Copied(t)]
    BY <1>13 DEF Copy, At, Asking, LIInv, LLocal
  <2> HIDE DEF l
  <2>3. /\ \A x \in held : x \in held' /\ owner'[x] = owner[x] /\ list'[x] = list[x]
        /\ u # t => pc'[u] = pc[u] /\ job'[u] = job[u] /\ (pc[u] \in Asking => job[u].out \notin held')
        /\ u = t => \/ pc'[u] = "idle"
                    \/ /\ pc'[u] = "read" /\ job'[u] = job[u] /\ job[u].kind = "get"
                       /\ job[u].out \in held' /\ owner'[job[u].out] = u /\ list'[job[u].out] = l
    BY <1>b, <2>1
  <2>4. CASE u = t
    <3>1. job[u].kind # "get"
      BY <2>1, <2>4 DEF AskLocal
    <3> QED BY <2>3, <2>4, <3>1 DEF AskLocal, GetLocal, EndLocal, Asking, Ending
  <2>5. CASE u # t
    <3>1. GetLocal(u)'
      BY <1>a, <2>3, <2>5 DEF GetLocal
    <3>2. EndLocal(u)'
      <4>1. pc[u] \in Ending => job[u].l.blk # b
        BY <1>a, <2>1 DEF EndLocal
      <4> QED BY <1>0, <1>a, <2>1, <2>3, <2>5, <4>1 DEF EndLocal
    <3>3. AskLocal(u)'
      <4>1. InPlace(u)' <=> InPlace(u)
        BY <2>3, <2>5 DEF InPlace
      <4>2. pc[u] \in Asking => job[u].l.blk # b
        BY <1>0, <1>a, <2>1, BlockFacts
      <4>3. pc[u] \in Asking /\ job[u].l.blk # None => rc'[job[u].l.blk] = rc[job[u].l.blk] /\ data'[job[u].l.blk] = data[job[u].l.blk]
        BY <1>0, <1>a, <2>1, <4>2
      <4> QED BY <1>a, <2>3, <2>5, <4>1, <4>3 DEF AskLocal
    <3> QED BY <3>1, <3>2, <3>3
  <2> QED BY <2>4, <2>5
<1>11. ASSUME NEW t \in Threads, Uncharge(t) PROVE AskLocal(u)' /\ GetLocal(u)' /\ EndLocal(u)'
  <2> DEFINE b == job[t].l.blk
  <2>1. /\ pc[t] = "uncharge" /\ pc[t] \in Ending /\ UNCHANGED <<held, list, owner, rc>>
        /\ pc'[u] = (IF u = t THEN "idle" ELSE pc[u]) /\ (u # t => job'[u] = job[u])
        /\ \A x \in Blocks : x # b => live'[x] = live[x] /\ size'[x] = size[x] /\ data'[x] = data[x]
    BY <1>0, <1>11 DEF Uncharge, At, Ending
  <2> HIDE DEF b
  <2>2. CASE u = t
    BY <2>1, <2>2 DEF AskLocal, GetLocal, EndLocal, Asking, Ending
  <2>3. CASE u # t
    <3>1. GetLocal(u)'
      BY <1>a, <2>1, <2>3 DEF GetLocal
    <3>2. EndLocal(u)'
      <4>1. pc[u] \in Ending => job[u].l.blk # b
        BY <2>1, <2>3 DEF LIInv, CallsApart, b
      <4> QED BY <1>a, <2>1, <2>3, <4>1 DEF EndLocal
    <3>3. AskLocal(u)'
      <4>1. InPlace(u)' <=> InPlace(u)
        BY <2>1, <2>3 DEF InPlace
      <4>2. pc[u] \in Asking => job[u].l.blk # b
        BY <2>1, BlockFacts DEF b
      <4>3. pc[u] \in Asking /\ job[u].l.blk # None => data'[job[u].l.blk] = data[job[u].l.blk]
        BY <1>a, <2>1, <4>2
      <4> QED BY <1>a, <2>1, <2>3, <4>1, <4>3 DEF AskLocal
    <3> QED BY <3>1, <3>2, <3>3
  <2> QED BY <2>2, <2>3
<1>5. ASSUME NEW t \in Threads, NEW r \in Refs, Released(t, r) PROVE AskLocal(u)' /\ GetLocal(u)' /\ EndLocal(u)'
  <2> DEFINE b == list[r].blk
  <2>1. /\ pc[t] \notin Asking /\ pc[t] # "read" /\ pc[t] \notin Ending /\ r \in held /\ owner[r] = t
        /\ UNCHANGED <<live, size, data>> /\ b \in Blocks \cup {None}
    BY <1>0, <1>5 DEF Released, ReleaseValue, Asking, Ending, ListValues
  <2>2. /\ rc' = IF b # None THEN [rc EXCEPT ![b] = @ - 1] ELSE rc
        /\ \A x \in held : x # r => x \in held' /\ owner'[x] = owner[x] /\ list'[x] = list[x]
        /\ \A x \in held' : x \in held
        /\ u # t => pc'[u] = pc[u] /\ job'[u] = job[u]
        /\ pc'[t] = "idle" \/ (pc'[t] = "drop" /\ b # None /\ rc[b] = 1 /\ job'[t].l = list[r])
    BY <1>0, <1>5 DEF Released, ReleaseValue, ReleaseCounts, NoJob
  <2>3. b # None => live[b] /\ size[b] = list[r].cap
    BY <2>1 DEF LIInv, ValuesOK, ValueOK
  <2>4. CASE u = t
    <3>1. AskLocal(u)' /\ GetLocal(u)'
      BY <2>2, <2>4 DEF AskLocal, GetLocal, Asking
    <3>2. EndLocal(u)'
      BY <1>0, <2>1, <2>2, <2>3, <2>4 DEF EndLocal, Ending
    <3> QED BY <3>1, <3>2
  <2>5. CASE u # t
    <3>1. GetLocal(u)'
      <4>1. pc[u] \in {"read", "put"} => job[u].out # r
        BY <1>a, <2>1, <2>5 DEF GetLocal
      <4> QED BY <1>a, <2>2, <2>5, <4>1 DEF GetLocal
    <3>2. EndLocal(u)'
      <4>1. pc[u] \in Ending => job[u].l.blk # b
        BY <2>1, BlockFacts
      <4> HIDE DEF b
      <4> QED BY <1>0, <1>a, <2>1, <2>2, <2>5, <4>1 DEF EndLocal
    <3>3. AskLocal(u)'
      <4>1. InPlace(u)' <=> InPlace(u)
        BY <2>2, <2>5 DEF InPlace
      <4>2. pc[u] \in Asking => job[u].ref # r
        BY <1>a, <2>1, <2>5 DEF AskLocal
      <4>3. InPlace(u) => pc[u] \in Asking
        BY DEF InPlace, Asking
      <4>4. InPlace(u) => job[u].l.blk # b
        BY <2>1, <4>2, <4>3, BlockFacts
      <4>5. pc[u] \in Asking /\ InPlace(u) => rc'[job[u].l.blk] = 1
        BY <1>0, <1>a, <2>2, <4>4 DEF AskLocal
      <4>6. pc[u] \in Asking => job[u].out \notin held'
        BY <1>a, <2>2 DEF AskLocal
      <4> HIDE DEF b
      <4> QED BY <1>a, <2>1, <2>2, <2>5, <4>1, <4>2, <4>5, <4>6 DEF AskLocal
    <3> QED BY <3>1, <3>2, <3>3
  <2> QED BY <2>4, <2>5
<1> QED BY <1>1, <1>2, <1>3, <1>4, <1>5, <1>6, <1>7, <1>8, <1>9, <1>10, <1>11, <1>12, <1>13, <1>14 DEF Step

\* Two calls stay apart.
LEMMA ApartStep ==
  ASSUME LIInv, ~InArena, Step
  PROVE  CallsApart'
<1>0. /\ pc \in [Threads -> PcStates] /\ job \in [Threads -> Jobs] /\ CallsApart
      /\ list \in [Refs -> ListValues] /\ rc \in [Blocks -> Int] /\ held \subseteq Refs
  BY DEF LIInv, LTypeOK, TypeOK
<1> USE DEF Goto
\* A step of t that neither asks for a new value nor takes a block.
<1>a. ASSUME NEW t \in Threads, \A u \in Threads : u # t => pc'[u] = pc[u] /\ job'[u] = job[u],
             pc'[t] \in Asking => pc[t] \in Asking /\ job'[t].out = job[t].out,
             pc'[t] \in Ending => pc[t] \in Ending /\ job'[t].l = job[t].l
      PROVE  CallsApart'
  BY <1>0, <1>a DEF CallsApart
<1>1. CASE Idle
  BY <1>0, <1>1 DEF Idle, CallsApart
<1>2. ASSUME NEW t \in Threads, NEW j \in Jobs, NEW q \in PcStates, Called(t, j, q) PROVE CallsApart'
  <2>1. \A u \in Threads : u # t => pc'[u] = pc[u] /\ job'[u] = job[u] /\ job[u].out # j.out
    BY <1>0, <1>2 DEF Called, Spare
  <2>2. pc'[t] \notin Ending /\ job'[t].out = j.out
    BY <1>0, <1>2 DEF Called, Ending
  <2> QED BY <1>0, <2>1, <2>2 DEF CallsApart
<1>3. ASSUME NEW t \in Threads, NEW q \in PcStates, NEW s \in Int, Loaded(t, q, s) PROVE CallsApart'
  <2>1. \A u \in Threads : u # t => pc'[u] = pc[u] /\ job'[u] = job[u]
    BY <1>0, <1>3 DEF Loaded
  <2>2. pc[t] \in Asking /\ job'[t].out = job[t].out /\ pc'[t] \notin Ending
    BY <1>0, <1>3 DEF Loaded, Asking, Ending, Jobs
  <2> QED BY <1>a, <2>1, <2>2
<1>4. ASSUME NEW t \in Threads, NEW r \in Refs, New(t, r) \/ \E u \in Threads : Pass(t, u, r) PROVE CallsApart'
  BY <1>0, <1>4 DEF New, Pass, CallsApart
<1>5. ASSUME NEW t \in Threads, NEW r \in Refs, Released(t, r) PROVE CallsApart'
  <2>1. /\ \A u \in Threads : u # t => pc'[u] = pc[u] /\ job'[u] = job[u]
        /\ pc'[t] \in {"idle", "drop"} /\ (pc'[t] = "drop" => job'[t].l = list[r])
    BY <1>0, <1>5 DEF Released, ReleaseValue, NoJob
  <2>2. \A u \in Threads : pc[u] \in Ending => job[u].l.blk # list[r].blk
    BY <1>5, BlockFacts DEF Released
  <2> QED BY <1>0, <2>1, <2>2 DEF CallsApart, Asking, Ending
<1>6. ASSUME NEW t \in Threads, Write(t) \/ Read(t) \/ Drop(t) \/ Charged(t) PROVE CallsApart'
  <2>1. \A u \in Threads : (u # t => pc'[u] = pc[u]) /\ job'[u] = job[u]
    BY <1>0, <1>6 DEF Write, Read, Drop, Charged
  <2>2. (pc'[t] \in Asking => pc[t] \in Asking) /\ (pc'[t] \in Ending => pc[t] \in Ending)
    BY <1>0, <1>6 DEF Write, Read, Drop, Charged, Asking, Ending, At
  <2> QED BY <1>a, <2>1, <2>2
<1>7. ASSUME NEW t \in Threads, NEW l, Return(t, l) PROVE CallsApart'
  <2>1. \A u \in Threads : u # t => pc'[u] = pc[u] /\ job'[u] = job[u]
    BY <1>0, <1>7 DEF Return
  <2>2. pc'[t] \in {"idle", "read"}
    BY <1>0, <1>7 DEF Return
  <2> QED BY <1>a, <2>1, <2>2 DEF Asking, Ending
<1>8. ASSUME NEW t \in Threads, ReturnedEmpty(t) \/ RetainCas(t) \/ \E b \in Blocks : Copy(t, b) PROVE CallsApart'
  BY <1>7, <1>8 DEF ReturnedEmpty, RetainCas, Copy
<1>11. ASSUME NEW t \in Threads, Uncharge(t) PROVE CallsApart'
  <2>1. (\A u \in Threads : u # t => pc'[u] = pc[u] /\ job'[u] = job[u]) /\ pc'[t] = "idle"
    BY <1>0, <1>11 DEF Uncharge
  <2> QED BY <1>a, <2>1 DEF Asking, Ending
<1>14. ASSUME NEW v \in Vals, ReleaseElem(v) PROVE CallsApart'
  BY <1>0, <1>14 DEF ReleaseElem, CallsApart
<1> QED BY <1>1, <1>2, <1>3, <1>4, <1>5, <1>6, <1>8, <1>11, <1>14 DEF Step
-----------------------------------------------------------------------------
(* What the list values show.                                              *)

(* A step that leaves the blocks of the values it keeps alone, and makes   *)
(* at most one value anew.                                                 *)
LEMMA ValuesFrame ==
  ASSUME LIInv, NEW d,
         \A r \in held' : r # d => r \in held /\ list'[r] = list[r],
         d \in held' => ValueOK(list[d])',
         \A r \in held : list[r].blk # None =>
           live'[list[r].blk] = live[list[r].blk] /\ size'[list[r].blk] = size[list[r].blk] /\ data'[list[r].blk] = data[list[r].blk]
  PROVE  ValuesOK'
BY DEF LIInv, ValuesOK, ValueOK

\* Every step keeps the values held inside live blocks.
LEMMA ValuesStep ==
  ASSUME LIInv, ~InArena, Step
  PROVE  ValuesOK'
<1>0. /\ job \in [Threads -> Jobs] /\ list \in [Refs -> ListValues] /\ held \subseteq Refs /\ ValuesOK
      /\ data \in [Blocks -> [Index -> Vals \cup {None}]] /\ live \in [Blocks -> BOOLEAN]
      /\ size \in [Blocks -> Nat] /\ None \notin Refs
      /\ \A r \in held : ValueOK(list[r]) /\ (list[r].blk # None => list[r].blk \in Blocks /\ live[list[r].blk])
  <2>1. None \notin Refs /\ \A r \in Refs : list[r].blk # None => list[r].blk \in Blocks
    BY ListAssumption DEF LIInv, LTypeOK, TypeOK, ListValues
  <2> QED BY <2>1 DEF LIInv, LTypeOK, TypeOK, ValuesOK, ValueOK
<1> USE DEF blockVars, valueVars
<1>1. ASSUME UNCHANGED <<live, size, data, held, list>> PROVE ValuesOK'
  BY <1>0, <1>1 DEF ValuesOK, ValueOK
<1>2. ASSUME NEW t \in Threads,
             \/ \E j \in Jobs, q \in PcStates : Called(t, j, q)
             \/ \E q \in PcStates, s \in Int : Loaded(t, q, s)
             \/ Read(t) \/ Drop(t) \/ Charged(t)
             \/ \E r \in Refs, u \in Threads : Pass(t, u, r)
      PROVE  ValuesOK'
  BY <1>1, <1>2 DEF Called, Loaded, Read, Drop, Charged, Pass
<1>3. CASE Idle \/ \E v \in Vals : ReleaseElem(v)
  BY <1>1, <1>3 DEF Idle, ReleaseElem
<1>4. ASSUME NEW t \in Threads, NEW r \in Refs, New(t, r) PROVE ValuesOK'
  <2>1. \A q \in held' : q # r => q \in held /\ list'[q] = list[q]
    BY <1>0, <1>4 DEF New
  <2>2. ValueOK(list[r])'
    BY <1>0, <1>4 DEF New, ValueOK, Empty
  <2> QED BY <1>4, <2>1, <2>2, ValuesFrame DEF New
<1>5. ASSUME NEW t \in Threads, NEW r \in Refs, Released(t, r) PROVE ValuesOK'
  <2>1. \A q \in held' : q \in held /\ list'[q] = list[q]
    BY <1>0, <1>5 DEF Released, ReleaseValue
  <2>2. None \notin held'
    BY <1>0, <2>1
  <2> QED BY <1>5, <2>1, <2>2, ValuesFrame DEF Released, ReleaseValue
<1>7. ASSUME NEW t \in Threads, Write(t) PROVE ValuesOK'
  <2>1. job[t].v \in Vals /\ job[t].l.blk \in Blocks /\ job[t].i \in Index
    <3>1. AskLocal(t) /\ pc[t] = "write"
      BY <1>7 DEF LIInv, LLocal, Write, At
    <3> QED BY <1>0, <3>1, ListAssumption DEF AskLocal, Asking, InPlace, Jobs, ListValues, Index
  <2>2. \A b \in Blocks : \A i \in Index : data'[b][i] = IF b = job[t].l.blk /\ i = job[t].i THEN job[t].v ELSE data[b][i]
    BY <1>0, <1>7, <2>1 DEF Write
  <2>3. UNCHANGED <<held, list, live, size>>
    BY <1>7 DEF Write
  <2> QED BY <1>0, <2>1, <2>2, <2>3 DEF ValuesOK, ValueOK
<1>8. ASSUME NEW t \in Threads, ReturnedEmpty(t) \/ RetainCas(t) PROVE ValuesOK'
  <2>1. /\ pc[t] \in {"retain", "cas"} /\ pc[t] \in Asking /\ Return(t, Result(t)) /\ AskLocal(t)
        /\ data' = data /\ live' = live /\ size' = size
    BY <1>8 DEF ReturnedEmpty, RetainCas, At, Asking, LIInv, LLocal
  <2>d. PICK d \in Refs : d = job[t].out
    BY <2>1 DEF AskLocal
  <2>2. d \in Refs /\ held' = held \cup {d} /\ list' = [list EXCEPT ![d] = Result(t)]
    BY <2>1, <2>d DEF Return
  <2>3. ValueOK(job[t].l) /\ job[t].l \in ListValues
    BY <1>0, <2>1 DEF AskLocal, Jobs
  <2>4. ValueOK(Result(t))
    <3>1. CASE job[t].kind = "push"
      <4>1. /\ job[t].l.blk # None /\ data[job[t].l.blk][job[t].i] \in Vals /\ job[t].i = job[t].l.len
        BY <2>1, <3>1 DEF AskLocal, InPlace
      <4>2. Result(t).blk = job[t].l.blk /\ Result(t).len = job[t].l.len + 1 /\ Result(t).cap = job[t].l.cap
        BY <2>3, <3>1 DEF Result, ListValues
      <4>3. \A i \in Index : i < job[t].l.len + 1 => i < job[t].l.len \/ i = job[t].l.len
        BY <2>3, ListAssumption DEF Index, ListValues
      <4> QED BY <2>3, <4>1, <4>2, <4>3 DEF ValueOK
    <3>2. CASE job[t].kind # "push"
      BY <2>3, <3>2 DEF Result
    <3> QED BY <3>1, <3>2
  <2>5. ValueOK(list[d])'
    BY <1>0, <2>1, <2>2, <2>4 DEF ValueOK
  <2>6. \A q \in held' : q # d => q \in held /\ list'[q] = list[q]
    BY <1>0, <2>2
  <2> QED BY <2>1, <2>5, <2>6, ValuesFrame
<1>11. ASSUME NEW t \in Threads, Uncharge(t) PROVE ValuesOK'
  <2>1. \A r \in held : list[r].blk # job[t].l.blk
    BY <1>11, BlockFacts DEF Uncharge, At, Ending
  <2>2. \A r \in held : list[r].blk # None =>
           live'[list[r].blk] = live[list[r].blk] /\ size'[list[r].blk] = size[list[r].blk] /\ data'[list[r].blk] = data[list[r].blk]
    BY <1>0, <1>11, <2>1 DEF Uncharge
  <2>3. UNCHANGED <<held, list>> /\ None \notin held'
    BY <1>0, <1>11 DEF Uncharge
  <2> QED BY <2>2, <2>3, ValuesFrame
<1>13. ASSUME NEW t \in Threads, NEW b \in Blocks, Copy(t, b) PROVE ValuesOK'
  <2> DEFINE l == [blk |-> b, len |-> Result(t).len, cap |-> NewCap(t)]
  <2>1. /\ pc[t] = "copy" /\ pc[t] \in Asking /\ Return(t, l) /\ AskLocal(t) /\ ~live[b]
        /\ live' = [live EXCEPT ![b] = TRUE]
        /\ size' = [size EXCEPT ![b] = NewCap(t)] /\ data' = [data EXCEPT ![b] = Copied(t)]
    BY <1>13 DEF Copy, At, Asking, LIInv, LLocal
  <2>d. PICK d \in Refs : d = job[t].out
    BY <2>1 DEF AskLocal
  <2>2. d \in Refs /\ held' = held \cup {d} /\ list' = [list EXCEPT ![d] = l]
    BY <2>1, <2>d DEF Return
  <2>3. list'[d] = l /\ live'[b] /\ size'[b] = NewCap(t) /\ data'[b] = Copied(t)
    BY <1>0, <2>1, <2>2
  <2>4. \A i \in Index : i < Result(t).len => Copied(t)[i] \in Vals
    <3>1. ValueOK(job[t].l) /\ job[t].l \in ListValues
      BY <1>0, <2>1 DEF AskLocal, Jobs
    <3>2. job[t].kind \in {"push", "set"} /\ job[t].v \in Vals /\ (job[t].kind = "push" => job[t].i = job[t].l.len)
      BY <2>1 DEF AskLocal
    <3>3. Result(t).len = IF job[t].kind = "push" THEN job[t].l.len + 1 ELSE job[t].l.len
      BY <2>1, <3>2, NewCapFits
    <3>4. \A i \in Index : i < Result(t).len => i = job[t].i \/ i < job[t].l.len
      BY <3>1, <3>2, <3>3, ListAssumption DEF Index, ListValues
    <3>5. \A i \in Index : i < job[t].l.len => data[job[t].l.blk][i] \in Vals
      BY <3>1, ListAssumption DEF ValueOK, ListValues, Index
    <3> QED BY <3>2, <3>4, <3>5 DEF Copied
  <2>5. ValueOK(list[d])'
    BY <2>3, <2>4, ListAssumption DEF ValueOK
  <2>6. \A q \in held' : q # d => q \in held /\ list'[q] = list[q]
    BY <1>0, <2>2
  <2>7. \A r \in held : list[r].blk # None =>
           live'[list[r].blk] = live[list[r].blk] /\ size'[list[r].blk] = size[list[r].blk] /\ data'[list[r].blk] = data[list[r].blk]
    BY <1>0, <2>1
  <2> QED BY <2>5, <2>6, <2>7, ValuesFrame
<1> QED BY <1>2, <1>3, <1>4, <1>5, <1>7, <1>8, <1>11, <1>13 DEF Step
-----------------------------------------------------------------------------
(* The counts of the blocks.                                               *)
LEMMA RefsStep ==
  ASSUME LIInv, ~InArena, Step, ValuesOK'
  PROVE  RefsExact'
<1>0. /\ job \in [Threads -> Jobs] /\ list \in [Refs -> ListValues] /\ held \subseteq Refs
      /\ live \in [Blocks -> BOOLEAN] /\ rc \in [Blocks -> Int]
      /\ \A r \in held : list[r].blk # None => list[r].blk \in Blocks /\ live[list[r].blk]
      /\ None \notin Blocks
  BY ListAssumption DEF LIInv, LTypeOK, TypeOK, ListValues, RefsExact
<1> SUFFICES ASSUME NEW b \in Blocks, live'[b] PROVE rc'[b] = Cardinality(Sharing(b)')
  <2>1. \A r \in held' : list'[r].blk # None => live'[list'[r].blk]
    BY DEF ValuesOK, ValueOK
  <2>2. (\A b \in Blocks : live'[b] => rc'[b] = Cardinality(Sharing(b)'))
    OBVIOUS
  <2> QED BY <2>1, <2>2 DEF RefsExact
<1> USE DEF blockVars, valueVars
<1>a. ASSUME live[b], Sharing(b)' = Sharing(b), rc'[b] = rc[b] PROVE rc'[b] = Cardinality(Sharing(b)')
  BY <1>a, SharingFacts
<1>1. ASSUME UNCHANGED <<live, rc, held, list>> PROVE rc'[b] = Cardinality(Sharing(b)')
  <2>1. Sharing(b)' = Sharing(b)
    BY <1>1 DEF Sharing
  <2> QED BY <1>a, <1>1, <2>1
<1>2. ASSUME NEW t \in Threads,
             \/ \E j \in Jobs, q \in PcStates : Called(t, j, q)
             \/ \E q \in PcStates, s \in Int : Loaded(t, q, s)
             \/ Write(t) \/ Read(t) \/ Drop(t) \/ Charged(t)
             \/ \E r \in Refs, u \in Threads : Pass(t, u, r)
      PROVE  rc'[b] = Cardinality(Sharing(b)')
  BY <1>1, <1>2 DEF Called, Loaded, Write, Read, Drop, Charged, Pass
<1>3. CASE Idle \/ \E v \in Vals : ReleaseElem(v)
  BY <1>1, <1>3 DEF Idle, ReleaseElem
<1>b. ASSUME NEW d \in Refs, d \notin held, NEW l, held' = held \cup {d}, list' = [list EXCEPT ![d] = l]
      PROVE  Sharing(b)' = IF l.blk = b THEN Sharing(b) \cup {d} ELSE Sharing(b)
  BY <1>0, <1>b DEF Sharing
<1>4. ASSUME NEW t \in Threads, NEW r \in Refs, New(t, r) PROVE rc'[b] = Cardinality(Sharing(b)')
  <2>1. Sharing(b)' = Sharing(b)
    <3>1. r \notin held /\ Empty.blk # b
      BY <1>0, <1>4 DEF New, Spare, Empty
    <3> QED BY <1>b, <1>4, <3>1 DEF New
  <2> QED BY <1>a, <1>4, <2>1 DEF New
<1>5. ASSUME NEW t \in Threads, NEW r \in Refs, Released(t, r) PROVE rc'[b] = Cardinality(Sharing(b)')
  <2>1. live[b] /\ r \in held
    BY <1>5 DEF Released, ReleaseValue
  <2>2. CASE list[r].blk = b
    <3>1. Sharing(b)' = Sharing(b) \ {r} /\ r \in Sharing(b)
      BY <1>0, <1>5, <2>1, <2>2 DEF Sharing, Released, ReleaseValue
    <3>2. Cardinality(Sharing(b) \ {r}) = Cardinality(Sharing(b)) - 1
      BY <2>1, <3>1, SharingFacts, FS_RemoveElement
    <3>3. rc'[b] = rc[b] - 1
      BY <1>0, <1>5, <2>2 DEF Released, ReleaseValue, ReleaseCounts
    <3> QED BY <2>1, <3>1, <3>2, <3>3, SharingFacts
  <2>3. CASE list[r].blk # b
    <3>1. Sharing(b)' = Sharing(b)
      BY <1>0, <1>5, <2>1, <2>3 DEF Sharing, Released, ReleaseValue
    <3>2. rc'[b] = rc[b]
      BY <1>0, <1>5, <2>3 DEF Released, ReleaseValue
    <3> QED BY <1>a, <2>1, <3>1, <3>2
  <2> QED BY <2>2, <2>3
<1>8. ASSUME NEW t \in Threads, ReturnedEmpty(t) \/ RetainCas(t) PROVE rc'[b] = Cardinality(Sharing(b)')
  <2>1. /\ pc[t] \in {"retain", "cas"} /\ pc[t] \in Asking /\ Return(t, Result(t)) /\ AskLocal(t) /\ live[b]
    BY <1>8 DEF ReturnedEmpty, RetainCas, At, Asking, LIInv, LLocal
  <2>d. PICK d \in Refs \ held : d = job[t].out
    BY <2>1 DEF AskLocal
  <2>2. held' = held \cup {d} /\ list' = [list EXCEPT ![d] = Result(t)] /\ Result(t).blk = job[t].l.blk
    BY <1>0, <2>1, <2>d DEF Return, Result, Jobs, ListValues
  <2>3. Sharing(b)' = IF job[t].l.blk = b THEN Sharing(b) \cup {d} ELSE Sharing(b)
    BY <1>b, <2>2
  <2>4. CASE job[t].l.blk = b
    <3>1. rc'[b] = rc[b] + 1
      BY <1>0, <1>8, <2>4 DEF ReturnedEmpty, RetainCas
    <3>2. Cardinality(Sharing(b) \cup {d}) = Cardinality(Sharing(b)) + 1
      <4>1. d \notin Sharing(b)
        BY DEF Sharing
      <4> QED BY <2>1, <4>1, SharingFacts, FS_AddElement
    <3> QED BY <2>1, <2>3, <2>4, <3>1, <3>2, SharingFacts
  <2>5. CASE job[t].l.blk # b
    BY <1>0, <1>8, <1>a, <2>1, <2>3, <2>5 DEF ReturnedEmpty, RetainCas
  <2> QED BY <2>4, <2>5
<1>11. ASSUME NEW t \in Threads, Uncharge(t) PROVE rc'[b] = Cardinality(Sharing(b)')
  <2>1. live[b] /\ Sharing(b)' = Sharing(b) /\ rc' = rc
    BY <1>0, <1>11 DEF Uncharge, Sharing
  <2> QED BY <1>a, <2>1
<1>13. ASSUME NEW t \in Threads, NEW c \in Blocks, Copy(t, c) PROVE rc'[b] = Cardinality(Sharing(b)')
  <2> DEFINE l == [blk |-> c, len |-> Result(t).len, cap |-> NewCap(t)]
  <2>1. /\ pc[t] = "copy" /\ pc[t] \in Asking /\ Return(t, l) /\ AskLocal(t) /\ ~live[c]
        /\ live' = [live EXCEPT ![c] = TRUE] /\ rc' = [rc EXCEPT ![c] = 1]
    BY <1>13 DEF Copy, At, Asking, LIInv, LLocal
  <2>d. PICK d \in Refs \ held : d = job[t].out
    BY <2>1 DEF AskLocal
  <2>2. held' = held \cup {d} /\ list' = [list EXCEPT ![d] = l] /\ l.blk = c
    BY <2>1, <2>d DEF Return
  <2> HIDE DEF l
  <2>3. Sharing(b)' = IF c = b THEN Sharing(b) \cup {d} ELSE Sharing(b)
    BY <1>b, <2>2
  <2>4. CASE c = b
    <3>1. Sharing(b) = {}
      BY <1>0, <2>1, <2>4 DEF Sharing
    <3>2. Sharing(b)' = {d}
      BY <2>3, <2>4, <3>1
    <3>3. rc'[b] = 1
      BY <1>0, <2>1, <2>4
    <3> QED BY <3>2, <3>3, FS_Singleton
  <2>5. CASE c # b
    BY <1>0, <1>a, <2>1, <2>3, <2>5
  <2> QED BY <2>4, <2>5
<1> QED BY <1>2, <1>3, <1>4, <1>5, <1>8, <1>11, <1>13 DEF Step
-----------------------------------------------------------------------------
(* The quota counter.                                                      *)
LEMMA SumMove ==
  ASSUME NEW S, IsFiniteSet(S), NEW f \in [S -> Nat], NEW a \in S, NEW c \in Nat,
         NEW g, g = [f EXCEPT ![a] = c]
  PROVE  SumFunction(g) = SumFunction(f) - f[a] + c
<1>1. f \in [S -> Int] /\ c \in Int
  OBVIOUS
<1> QED BY <1>1, SumChange

\* A block whose charge changes moves the sum over blocks by the difference.
LEMMA BlocksMove ==
  ASSUME BlockCharges \in [Blocks -> Nat], NEW b \in Blocks, NEW c \in Nat,
         BlockCharges' = [BlockCharges EXCEPT ![b] = c]
  PROVE  SumFunction(BlockCharges') = SumFunction(BlockCharges) - BlockCharges[b] + c
<1>1. IsFiniteSet(Blocks)
  BY ListAssumption
<1> QED BY <1>1, SumMove

\* A call whose charge changes moves the sum over calls by the difference.
LEMMA CallsMove ==
  ASSUME CallCharges \in [Threads -> Nat], NEW t \in Threads, NEW c \in Nat,
         CallCharges' = [CallCharges EXCEPT ![t] = c]
  PROVE  SumFunction(CallCharges') = SumFunction(CallCharges) - CallCharges[t] + c
<1>1. IsFiniteSet(Threads)
  BY ListAssumption
<1> QED BY <1>1, SumMove

\* The same for any count per block.
LEMMA CountsMove ==
  ASSUME NEW f \in [Blocks -> Nat], NEW b \in Blocks, NEW c \in Nat, NEW g, g = [f EXCEPT ![b] = c]
  PROVE  SumFunction(g) = SumFunction(f) - f[b] + c
<1>1. IsFiniteSet(Blocks)
  BY ListAssumption
<1> QED BY <1>1, SumMove

\* Charges and their sums are natural.
LEMMA ChargeTypes ==
  ASSUME LIInv
  PROVE  /\ BlockCharges \in [Blocks -> Nat] /\ CallCharges \in [Threads -> Nat]
         /\ SumFunction(BlockCharges) \in Nat /\ SumFunction(CallCharges) \in Nat
         /\ \A c \in Nat : Charge(c) \in Nat
<1>1. \A c \in Nat : Charge(c) \in Nat
  BY ListAssumption DEF Charge
<1>2. BlockCharges \in [Blocks -> Nat]
  BY <1>1 DEF LIInv, LTypeOK, TypeOK, BlockCharges
<1>3. \A t \in Threads : pc[t] = "copy" => NewCap(t) \in Nat
  BY NewCapFits
<1>4. CallCharges \in [Threads -> Nat]
  BY <1>1, <1>3 DEF CallCharges
<1> QED BY <1>1, <1>2, <1>4, SumOfNaturals, ListAssumption

\* A call that allocates nothing.
LEMMA CallsSame ==
  ASSUME NEW t \in Threads, pc[t] # "copy", pc'[t] # "copy",
         \A u \in Threads : u # t => pc'[u] = pc[u] /\ job'[u] = job[u]
  PROVE  CallCharges' = CallCharges
<1>1. \A u \in Threads : u # t => NewCap(u)' = NewCap(u)
  BY DEF NewCap
<1> QED BY <1>1 DEF CallCharges

\* Every step keeps the ambient counter equal to what is charged.
LEMMA BytesStep ==
  ASSUME LIInv, ~InArena, Step
  PROVE  BytesExact'
<1>0. /\ job \in [Threads -> Jobs] /\ pc \in [Threads -> PcStates] /\ bytes \in Int
      /\ live \in [Blocks -> BOOLEAN] /\ size \in [Blocks -> Nat] /\ BytesExact
      /\ Quota \in Nat /\ IsFiniteSet(Blocks) /\ IsFiniteSet(Threads)
  BY ListAssumption DEF LIInv, LTypeOK, TypeOK
<1> USE DEF Goto, blockVars, valueVars, elemVars
<1>1. ASSUME bytes' = bytes, BlockCharges' = BlockCharges, CallCharges' = CallCharges PROVE BytesExact'
  BY <1>0, <1>1 DEF BytesExact
<1>2. ASSUME NEW t \in Threads, NEW j \in Jobs, NEW q \in PcStates, Called(t, j, q) PROVE BytesExact'
  <2>1. /\ \A u \in Threads : u # t => pc'[u] = pc[u] /\ job'[u] = job[u]
        /\ pc[t] # "copy" /\ pc'[t] # "copy"
    BY <1>0, <1>2 DEF Called
  <2>2. CallCharges' = CallCharges
    BY <2>1, CallsSame
  <2> QED BY <1>1, <1>2, <2>2 DEF Called, BlockCharges
<1>3. ASSUME NEW t \in Threads, NEW q \in PcStates, NEW s \in Int, Loaded(t, q, s) PROVE BytesExact'
  <2>1. /\ \A u \in Threads : u # t => pc'[u] = pc[u] /\ job'[u] = job[u]
        /\ pc[t] # "copy" /\ pc'[t] # "copy"
    BY <1>0, <1>3 DEF Loaded
  <2>2. CallCharges' = CallCharges
    BY <2>1, CallsSame
  <2> QED BY <1>1, <1>3, <2>2 DEF Loaded, BlockCharges
<1>4. ASSUME \/ Idle \/ \E v \in Vals : ReleaseElem(v)
             \/ \E t \in Threads, r \in Refs : New(t, r) \/ \E u \in Threads : Pass(t, u, r)
      PROVE  BytesExact'
  <2>1. UNCHANGED <<pc, job, bytes, live, size>>
    BY <1>4 DEF Idle, ReleaseElem, New, Pass
  <2>2. \A u \in Threads : NewCap(u)' = NewCap(u)
    BY <2>1 DEF NewCap
  <2>3. BlockCharges' = BlockCharges /\ CallCharges' = CallCharges
    BY <2>1, <2>2 DEF BlockCharges, CallCharges
  <2> QED BY <1>1, <2>1, <2>3
<1>5. ASSUME NEW t \in Threads,
             \/ \E r \in Refs : Released(t, r)
             \/ Write(t) \/ Read(t) \/ Drop(t) \/ ReturnedEmpty(t) \/ RetainCas(t)
      PROVE  BytesExact'
  <2>1. /\ \A u \in Threads : u # t => pc'[u] = pc[u] /\ job'[u] = job[u]
        /\ pc[t] # "copy" /\ pc'[t] # "copy" /\ bytes' = bytes /\ live' = live /\ size' = size
    BY <1>0, <1>5 DEF Released, ReleaseValue, Write, Read, Drop, ReturnedEmpty, RetainCas, Return, At
  <2>2. CallCharges' = CallCharges /\ BlockCharges' = BlockCharges
    BY <2>1, CallsSame DEF BlockCharges
  <2> QED BY <1>1, <2>1, <2>2
<1>11. ASSUME NEW t \in Threads, Uncharge(t) PROVE BytesExact'
  <2>c. PICK b \in Blocks : b = job[t].l.blk /\ live[b] /\ job[t].l.cap = size[b]
    BY <1>11 DEF LIInv, LLocal, EndLocal, Ending, Uncharge, At
  <2>1. /\ \A u \in Threads : u # t => pc'[u] = pc[u] /\ job'[u] = job[u]
        /\ pc[t] # "copy" /\ pc'[t] # "copy"
    BY <1>0, <1>11 DEF Uncharge, At
  <2>2. CallCharges' = CallCharges
    BY <2>1, CallsSame
  <2>3. live' = [live EXCEPT ![b] = FALSE] /\ bytes' = bytes - Charge(size[b]) /\ size' = [size EXCEPT ![b] = 0]
    BY <1>11, <2>c DEF Uncharge
  <2>4. BlockCharges' = [BlockCharges EXCEPT ![b] = 0]
    BY <1>0, <2>3 DEF BlockCharges
  <2>5. BlockCharges[b] = Charge(size[b]) /\ BlockCharges \in [Blocks -> Int] /\ Charge(size[b]) \in Nat
    BY <1>0, <2>c, ChargeTypes DEF BlockCharges
  <2>6. SumFunction(BlockCharges') = SumFunction(BlockCharges) - BlockCharges[b] + 0
    BY <1>0, <2>4, ChargeTypes, BlocksMove
  <2> QED BY <1>0, <2>2, <2>3, <2>5, <2>6, ChargeTypes DEF BytesExact
<1>12. ASSUME NEW t \in Threads, Charged(t) PROVE BytesExact'
  <2>1. NewCap(t) \in Nat /\ Charge(NewCap(t)) \in Nat
    BY <1>12, NewCapFits, ChargeTypes DEF Charged
  <2>2. \A u \in Threads : NewCap(u)' = NewCap(u)
    BY <1>12 DEF NewCap, Charged
  <2>3. CallCharges' = [CallCharges EXCEPT ![t] = Charge(NewCap(t))] /\ CallCharges[t] = 0
    BY <1>0, <1>12, <2>2 DEF CallCharges, Charged
  <2>4. SumFunction(CallCharges') = SumFunction(CallCharges) - CallCharges[t] + Charge(NewCap(t))
    BY <1>0, <2>1, <2>3, ChargeTypes, CallsMove
  <2>5. BlockCharges' = BlockCharges
    BY <1>12 DEF Charged, BlockCharges
  <2> QED BY <1>0, <1>12, <2>1, <2>3, <2>4, <2>5, ChargeTypes DEF BytesExact, Charged
<1>13. ASSUME NEW t \in Threads, NEW b \in Blocks, Copy(t, b) PROVE BytesExact'
  <2>1. /\ pc[t] = "copy" /\ ~live[b] /\ bytes' = bytes
        /\ live' = [live EXCEPT ![b] = TRUE] /\ size' = [size EXCEPT ![b] = NewCap(t)]
        /\ \A u \in Threads : u # t => pc'[u] = pc[u] /\ job'[u] = job[u]
        /\ pc'[t] \in {"idle", "read"}
    BY <1>0, <1>13 DEF Copy, Return, At
  <2>2. NewCap(t) \in Nat /\ Charge(NewCap(t)) \in Nat
    BY <2>1, NewCapFits, ChargeTypes
  <2>3. PICK c \in Nat : c = Charge(NewCap(t))
    BY <2>2
  <2>4. BlockCharges' = [BlockCharges EXCEPT ![b] = c] /\ BlockCharges[b] = 0
    BY <1>0, <2>1, <2>2, <2>3 DEF BlockCharges
  <2>5. SumFunction(BlockCharges') = SumFunction(BlockCharges) - BlockCharges[b] + c
    BY <1>0, <2>4, ChargeTypes, BlocksMove
  <2>6. CallCharges' = [CallCharges EXCEPT ![t] = 0] /\ CallCharges[t] = c
    <3>1. \A u \in Threads : u # t => NewCap(u)' = NewCap(u)
      BY <2>1 DEF NewCap
    <3> QED BY <1>0, <2>1, <2>3, <3>1 DEF CallCharges
  <2>7. SumFunction(CallCharges') = SumFunction(CallCharges) - CallCharges[t] + 0
    BY <1>0, <2>6, ChargeTypes, CallsMove
  <2> QED BY <1>0, <2>1, <2>3, <2>4, <2>5, <2>6, <2>7, ChargeTypes DEF BytesExact
<1> QED BY <1>2, <1>3, <1>4, <1>5, <1>11, <1>12, <1>13 DEF Step
-----------------------------------------------------------------------------
(* The counts of the elements.                                             *)

\* The sum changes at one block.
LEMMA CountedChange ==
  ASSUME LIInv, LTypeOK', NEW n \in [Blocks -> 0 .. MaxLen], Counted(n),
         NEW b \in Blocks, NEW m \in 0 .. MaxLen, NEW e, data' = [data EXCEPT ![b] = e],
         \A v \in Vals : erc'[v] - got'[v] >= erc[v] - got[v] + Count(e, m, v) - Count(data[b], n[b], v),
         NEW k, k = [n EXCEPT ![b] = m]
  PROVE  Counted(k)' /\ k \in [Blocks -> 0 .. MaxLen]
<1>1. k \in [Blocks -> 0 .. MaxLen] /\ m \in Nat /\ (\A c \in Blocks : n[c] \in Nat)
  BY ListAssumption
<1> SUFFICES ASSUME NEW v \in Vals PROVE erc'[v] >= got'[v] + SumFunction(Counts(k, v)')
  BY <1>1 DEF Counted
<1>2. Counts(n, v) \in [Blocks -> Nat] /\ Counts(n, v)[b] = Count(data[b], n[b], v)
  BY <1>1, CountFacts DEF Counts
<1>3. Count(e, m, v) \in Nat
  BY <1>1, CountFacts
<1>4. Counts(k, v)' = [Counts(n, v) EXCEPT ![b] = Count(e, m, v)]
  BY DEF Counts, LIInv, LTypeOK, TypeOK
<1>5. SumFunction(Counts(k, v)') = SumFunction(Counts(n, v)) - Counts(n, v)[b] + Count(e, m, v)
  <2>1. PICK f \in [Blocks -> Nat] : f = Counts(n, v)
    BY <1>2, Zenon
  <2>2. PICK c \in Nat : c = Count(e, m, v)
    BY <1>3, Zenon
  <2>3. PICK g : g = Counts(k, v)'
    OBVIOUS
  <2>4. g = [f EXCEPT ![b] = c]
    BY <1>4, <2>1, <2>2, <2>3, Zenon
  <2>5. SumFunction(g) = SumFunction(f) - f[b] + c
    BY <2>4, CountsMove
  <2> QED BY <2>1, <2>2, <2>3, <2>5, Zenon
<1>6. SumFunction(Counts(n, v)) \in Nat
  BY <1>2, SumOfNaturals, ListAssumption
<1>7. erc[v] >= got[v] + SumFunction(Counts(n, v))
  BY DEF Counted
<1>8. erc[v] \in Int /\ got[v] \in Int /\ erc'[v] \in Int /\ got'[v] \in Int
  BY DEF LIInv, LTypeOK, TypeOK
<1>9. erc'[v] - got'[v] >= erc[v] - got[v] + Count(e, m, v) - Count(data[b], n[b], v)
  OBVIOUS
<1>10. Count(data[b], n[b], v) \in Nat
  BY <1>1, CountFacts
<1> QED BY <1>2, <1>3, <1>5, <1>6, <1>7, <1>8, <1>9, <1>10

\* The sums stay, and the counts move with the readers' references.
LEMMA CountedSame ==
  ASSUME LIInv, LTypeOK', NEW n \in [Blocks -> 0 .. MaxLen], Counted(n), data' = data,
         \A v \in Vals : erc'[v] - got'[v] >= erc[v] - got[v]
  PROVE  Counted(n)'
<1> SUFFICES ASSUME NEW v \in Vals PROVE erc'[v] >= got'[v] + SumFunction(Counts(n, v)')
  BY DEF Counted
<1>1. Counts(n, v)' = Counts(n, v)
  BY DEF Counts
<1>2. Counts(n, v) \in [Blocks -> Nat]
  <2>1. \A c \in Blocks : n[c] \in Nat
    BY ListAssumption
  <2> QED BY <2>1, CountFacts DEF Counts
<1>3. SumFunction(Counts(n, v)) \in Nat
  BY <1>2, SumOfNaturals, ListAssumption
<1>4. erc[v] >= got[v] + SumFunction(Counts(n, v))
  BY DEF Counted
<1>5. erc[v] \in Int /\ got[v] \in Int /\ erc'[v] \in Int /\ got'[v] \in Int
  BY DEF LIInv, LTypeOK, TypeOK
<1> QED BY <1>1, <1>3, <1>4, <1>5

\* Every step keeps the elements that a held value shows alive.
LEMMA KeptStep ==
  ASSUME LIInv, ~InArena, Step, LTypeOK'
  PROVE  ElemsKept'
<1>0. /\ pc \in [Threads -> PcStates] /\ job \in [Threads -> Jobs] /\ list \in [Refs -> ListValues] /\ held \subseteq Refs
      /\ data \in [Blocks -> [Index -> Vals \cup {None}]] /\ live \in [Blocks -> BOOLEAN]
      /\ erc \in [Vals -> Int] /\ got \in [Vals -> Int] /\ None \notin Blocks /\ MaxLen \in Nat
  BY ListAssumption DEF LIInv, LTypeOK, TypeOK
<1>n. PICK n \in [Blocks -> 0 .. MaxLen] : Covers(n) /\ Counted(n)
  BY DEF LIInv, ElemsKept
<1>v. /\ \A r \in held : list[r].blk # None => list[r].blk \in Blocks /\ live[list[r].blk]
      /\ \A t \in Threads : pc[t] \in Asking => job[t].ref \in held /\ list[job[t].ref] = job[t].l
      /\ \A t \in Threads : pc[t] \in {"retain", "cas"} /\ job[t].kind = "push" => InPlace(t) /\ job[t].l.blk \in Blocks
      /\ \A t \in Threads : pc[t] = "drop" => pc[t] \in Ending /\ job[t].l.blk \in Blocks /\ live[job[t].l.blk]
  <2>1. \A r \in held : list[r].blk # None => list[r].blk \in Blocks /\ live[list[r].blk]
    BY <1>0 DEF LIInv, ValuesOK, ValueOK, ListValues
  <2>2. \A t \in Threads : AskLocal(t) /\ EndLocal(t) /\ job[t].l.blk \in Blocks \cup {None}
    BY <1>0 DEF LIInv, LLocal, Jobs, ListValues
  <2> QED BY <2>1, <2>2 DEF AskLocal, EndLocal, Asking, Ending, InPlace
<1> USE DEF Goto, blockVars, valueVars, elemVars
\* The calls of the other threads are the same, and t neither pushes in place nor drops.
<1>a. ASSUME NEW t \in Threads, \A u \in Threads : u # t => pc'[u] = pc[u] /\ job'[u] = job[u],
             pc'[t] \in {"retain", "cas"} => job'[t].kind # "push", pc'[t] # "drop",
             \A r \in held' : r \in held /\ list'[r] = list[r]
      PROVE  Covers(n)'
  BY <1>n, <1>a DEF Covers
<1>b. ASSUME Covers(n)', data' = data, \A v \in Vals : erc'[v] - got'[v] >= erc[v] - got[v] PROVE ElemsKept'
  <2>1. Counted(n)'
    BY <1>b, <1>n, CountedSame
  <2> QED BY <1>b, <2>1 DEF ElemsKept
<1>c. ASSUME erc' = erc, got' = got PROVE \A v \in Vals : erc'[v] - got'[v] >= erc[v] - got[v]
  BY <1>0, <1>c
<1>1. CASE Idle
  <2>1. Covers(n)'
    BY <1>n, <1>1 DEF Idle, Covers
  <2> QED BY <1>b, <1>c, <1>1, <2>1 DEF Idle
<1>2. ASSUME NEW t \in Threads, NEW j \in Jobs, NEW q \in PcStates, Called(t, j, q) PROVE ElemsKept'
  <2>1. /\ \A u \in Threads : u # t => pc'[u] = pc[u] /\ job'[u] = job[u]
        /\ pc'[t] # "drop" /\ (pc'[t] \in {"retain", "cas"} => job'[t].kind # "push")
        /\ \A r \in held' : r \in held /\ list'[r] = list[r]
    BY <1>0, <1>2 DEF Called
  <2>2. Covers(n)'
    BY <1>a, <2>1
  <2> QED BY <1>b, <1>c, <1>2, <2>2 DEF Called
<1>3. ASSUME NEW t \in Threads, NEW q \in PcStates, NEW s \in Int, Loaded(t, q, s) PROVE ElemsKept'
  <2>1. /\ \A u \in Threads : u # t => pc'[u] = pc[u] /\ job'[u] = job[u]
        /\ pc'[t] # "drop" /\ (pc'[t] \in {"retain", "cas"} => pc[t] \in {"retain", "cas"})
        /\ job'[t].kind = job[t].kind /\ job'[t].l = job[t].l
        /\ UNCHANGED <<held, list>>
    BY <1>0, <1>3 DEF Loaded, Jobs
  <2>2. Covers(n)'
    BY <1>n, <2>1 DEF Covers
  <2> QED BY <1>b, <1>c, <1>3, <2>2 DEF Loaded
<1>4. ASSUME NEW t \in Threads, NEW r \in Refs, New(t, r) PROVE ElemsKept'
  <2>1. \A x \in held' : (x \in held /\ list'[x] = list[x]) \/ list'[x].blk = None
    BY <1>0, <1>4 DEF New, Empty
  <2>2. Covers(n)'
    BY <1>n, <1>4, <2>1 DEF New, Covers
  <2> QED BY <1>b, <1>c, <1>4, <2>2 DEF New
<1>6. ASSUME NEW t \in Threads, NEW u \in Threads, NEW r \in Refs, Pass(t, u, r) PROVE ElemsKept'
  <2>1. Covers(n)'
    BY <1>n, <1>6 DEF Pass, Covers
  <2> QED BY <1>b, <1>c, <1>6, <2>1 DEF Pass
<1>5. ASSUME NEW t \in Threads, NEW r \in Refs, Released(t, r) PROVE ElemsKept'
  <2>1. /\ \A u \in Threads : u # t => pc'[u] = pc[u] /\ job'[u] = job[u]
        /\ \A x \in held' : x \in held /\ list'[x] = list[x]
        /\ pc'[t] \in {"idle", "drop"}
        /\ pc'[t] = "drop" => r \in held /\ list[r].blk # None /\ job'[t].l = list[r]
    BY <1>0, <1>5 DEF Released, ReleaseValue, NoJob
  <2>2. Covers(n)'
    BY <1>n, <2>1 DEF Covers
  <2> QED BY <1>b, <1>c, <1>5, <2>2 DEF Released, ReleaseValue
<1>9. ASSUME NEW t \in Threads, Read(t) PROVE ElemsKept'
  <2>1. data[job[t].l.blk][job[t].i] \in Vals
    BY <1>9, ReadValue DEF Read, At
  <2>2. \A v \in Vals : erc'[v] - got'[v] >= erc[v] - got[v]
    BY <1>0, <1>9, <2>1 DEF Read
  <2>3. /\ \A u \in Threads : u # t => pc'[u] = pc[u] /\ job'[u] = job[u]
        /\ pc'[t] = "put" /\ UNCHANGED <<held, list>>
    BY <1>0, <1>9 DEF Read
  <2>4. Covers(n)'
    BY <1>a, <2>3
  <2> QED BY <1>b, <1>9, <2>2, <2>4 DEF Read
<1>14. ASSUME NEW w \in Vals, ReleaseElem(w) PROVE ElemsKept'
  <2>1. \A v \in Vals : erc'[v] - got'[v] >= erc[v] - got[v]
    BY <1>0, <1>14 DEF ReleaseElem
  <2>2. Covers(n)'
    BY <1>n, <1>14 DEF ReleaseElem, Covers
  <2> QED BY <1>b, <1>14, <2>1, <2>2 DEF ReleaseElem
<1>12. ASSUME NEW t \in Threads, Charged(t) PROVE ElemsKept'
  <2>1. /\ \A u \in Threads : u # t => pc'[u] = pc[u] /\ job'[u] = job[u]
        /\ pc'[t] = "copy" /\ UNCHANGED <<held, list>>
    BY <1>0, <1>12 DEF Charged
  <2>2. Covers(n)'
    BY <1>a, <2>1
  <2> QED BY <1>b, <1>c, <1>12, <2>2 DEF Charged
<1>8. ASSUME NEW t \in Threads, ReturnedEmpty(t) \/ RetainCas(t) PROVE ElemsKept'
  <2>1. /\ pc[t] \in {"retain", "cas"} /\ pc[t] \in Asking /\ Return(t, Result(t)) /\ AskLocal(t) /\ data' = data /\ erc' = erc /\ got' = got
    BY <1>8 DEF ReturnedEmpty, RetainCas, At, Asking, LIInv, LLocal
  <2>d. PICK d \in Refs \ held : d = job[t].out
    BY <2>1 DEF AskLocal
  <2>2. held' = held \cup {d} /\ list' = [list EXCEPT ![d] = Result(t)]
    BY <2>1, <2>d DEF Return
  <2>3. Result(t).blk = job[t].l.blk /\ (job[t].l.blk # None => Result(t).len =< n[job[t].l.blk])
    <3>1. CASE job[t].kind = "push"
      BY <1>0, <1>n, <2>1, <3>1 DEF Result, Covers, Jobs, ListValues
    <3>2. CASE job[t].kind # "push"
      BY <1>n, <1>v, <2>1, <3>2 DEF Result, Covers
    <3> QED BY <3>1, <3>2
  <2>4. /\ \A x \in held' : (x \in held /\ list'[x] = list[x]) \/ list'[x] = Result(t)
        /\ \A u \in Threads : u # t => pc'[u] = pc[u] /\ job'[u] = job[u]
        /\ pc'[t] \in {"idle", "read"}
    BY <1>0, <2>1, <2>2 DEF Return
  <2>5. Covers(n)'
    BY <1>n, <2>3, <2>4 DEF Covers
  <2> QED BY <1>b, <1>c, <2>1, <2>5
\* The count of elements changes at block b.
<1>d. ASSUME NEW b \in Blocks, NEW m \in 0 .. MaxLen, NEW e, data' = [data EXCEPT ![b] = e],
             \A v \in Vals : erc'[v] - got'[v] >= erc[v] - got[v] + Count(e, m, v) - Count(data[b], n[b], v),
             NEW k, k = [n EXCEPT ![b] = m], Covers(k)'
      PROVE  ElemsKept'
  <2>1. Counted(k)' /\ k \in [Blocks -> 0 .. MaxLen]
    BY <1>d, <1>n, CountedChange
  <2> QED BY <1>d, <2>1 DEF ElemsKept
<1>7. ASSUME NEW t \in Threads, Write(t) PROVE ElemsKept'
  <2>1. /\ pc[t] = "write" /\ InPlace(t) /\ pc[t] \in Asking /\ AskLocal(t) /\ job' = job /\ UNCHANGED <<held, list, got>>
        /\ \A u \in Threads : pc'[u] = IF u = t THEN "retain" ELSE pc[u]
    BY <1>0, <1>7 DEF Write, At, InPlace, Asking, LIInv, LLocal
  <2>2. PICK b \in Blocks : b = job[t].l.blk
    BY <1>0, <2>1 DEF AskLocal, Jobs, ListValues
  <2>3. PICK i \in Index : i = job[t].i
    BY <1>0, <2>1, ListAssumption DEF AskLocal, Jobs, ListValues, Index
  <2>4. PICK x \in Vals : x = job[t].v
    BY <2>1 DEF AskLocal
  <2>e. PICK e : e = [data[b] EXCEPT ![i] = x]
    OBVIOUS
  <2>5. data' = [data EXCEPT ![b] = e] /\ data[b] \in [Index -> Vals \cup {None}] /\ n[b] \in Nat /\ i \in Nat
    BY <1>0, <1>7, <2>2, <2>3, <2>4, <2>e DEF Write, Index
  <2>6. job[t].l.len =< n[b] /\ job[t].ref \in held /\ list[job[t].ref] = job[t].l
    BY <1>0, <1>n, <1>v, <2>1, <2>2 DEF Covers
  <2>7. /\ \A r \in held : list[r].blk = b => r = job[t].ref
        /\ \A u \in Threads : InPlace(u) /\ job[u].l.blk = b => u = t
        /\ \A u \in Threads : pc[u] = "drop" => job[u].l.blk # b
    <3>1. \A u \in Threads : InPlace(u) => pc[u] \in Asking
      BY DEF InPlace, Asking
    <3>2. \A u \in Threads : pc[u] = "drop" => pc[u] \in Ending
      BY DEF Ending
    <3> QED BY <2>1, <2>2, <3>1, <3>2, BlockFacts
  <2>8. CASE job[t].kind = "push"
    <3>1. i = job[t].l.len /\ i + 1 \in 0 .. MaxLen
      BY <1>0, <2>1, <2>3, <2>8 DEF AskLocal, Index
    <3>2. PICK m \in 0 .. MaxLen : m = i + 1
      BY <3>1
    <3>3. PICK k : k = [n EXCEPT ![b] = m]
      OBVIOUS
    <3>4. k \in [Blocks -> 0 .. MaxLen] /\ k[b] = i + 1 /\ \A c \in Blocks : c # b => k[c] = n[c]
      BY <3>2, <3>3
    <3>5. ASSUME NEW v \in Vals PROVE erc'[v] - got'[v] >= erc[v] - got[v] + Count(e, m, v) - Count(data[b], n[b], v)
      <4>1. Count(e, i + 1, v) =< Count(data[b], n[b], v) + (IF v = x THEN 1 ELSE 0)
        BY <2>5, <2>6, <2>e, <3>1, CountStore
      <4>2. erc'[v] = erc[v] + (IF v = x THEN 1 ELSE 0)
        <5>1. erc'[v] = erc[v] + (IF v = job[t].v THEN 1 ELSE 0) - (IF v \in {} THEN 1 ELSE 0)
          BY <1>7, <2>8 DEF Write
        <5> QED BY <1>0, <2>4, <5>1
      <4>3. Count(e, m, v) \in Nat /\ Count(data[b], n[b], v) \in Nat /\ erc[v] \in Int /\ got[v] \in Int /\ m = i + 1
        <5>1. m \in Nat /\ n[b] \in Nat
          BY <1>0, <2>5
        <5> QED BY <1>0, <3>2, <5>1, CountFacts
      <4> QED BY <2>1, <4>1, <4>2, <4>3
    <3>6. Covers(k)'
      <4>1. \A r \in held' : list'[r].blk # None => list'[r].len =< k[list'[r].blk]
        <5>1. \A r \in held : list[r].blk # None /\ list[r].blk # b => list[r].len =< k[list[r].blk]
          BY <1>n, <1>v, <3>4 DEF Covers
        <5>2. \A r \in held : list[r].blk = b => list[r].len =< k[b]
          BY <2>5, <2>6, <2>7, <3>1, <3>4
        <5> QED BY <2>1, <5>1, <5>2
      <4>2. ASSUME NEW u \in Threads PROVE
              /\ pc'[u] \in {"retain", "cas"} /\ job'[u].kind = "push" => job'[u].l.len + 1 =< k[job'[u].l.blk]
              /\ pc'[u] = "drop" => job'[u].l.len =< k[job'[u].l.blk]
        <5>1. CASE u = t
          BY <2>1, <2>2, <3>1, <3>4, <5>1
        <5>2. CASE u # t
          BY <1>n, <1>v, <2>1, <2>7, <3>4, <5>2 DEF Covers
        <5> QED BY <5>1, <5>2
      <4> QED BY <3>4, <4>1, <4>2 DEF Covers
    <3> QED BY <1>d, <2>5, <3>3, <3>5, <3>6
  <2>9. CASE job[t].kind = "set"
    <3>1. i < n[b]
      BY <1>0, <2>1, <2>3, <2>5, <2>6, <2>9 DEF AskLocal, Jobs, ListValues
    <3>2. n[b] \in 0 .. MaxLen /\ n = [n EXCEPT ![b] = n[b]]
      OBVIOUS
    <3>3. ASSUME NEW v \in Vals PROVE erc'[v] - got'[v] >= erc[v] - got[v] + Count(e, n[b], v) - Count(data[b], n[b], v)
      <4>1. Count(e, n[b], v) =< Count(data[b], n[b], v) + (IF v = x THEN 1 ELSE 0) - (IF v = data[b][i] THEN 1 ELSE 0)
        BY <2>5, <2>e, <3>1, CountStore
      <4>2. erc'[v] = erc[v] + (IF v = x THEN 1 ELSE 0) - (IF v = data[b][i] THEN 1 ELSE 0)
        BY <1>7, <2>2, <2>3, <2>4, <2>9 DEF Write
      <4>3. Count(e, n[b], v) \in Nat /\ Count(data[b], n[b], v) \in Nat /\ erc[v] \in Int /\ got[v] \in Int
        BY <1>0, <2>5, CountFacts
      <4> QED BY <2>1, <4>1, <4>2, <4>3
    <3>4. Covers(n)'
      BY <1>n, <2>1, <2>9 DEF Covers
    <3> QED BY <1>d, <2>5, <3>2, <3>3, <3>4
  <2> QED BY <2>1, <2>8, <2>9 DEF AskLocal
<1>10. ASSUME NEW t \in Threads, Drop(t) PROVE ElemsKept'
  <2>1. /\ pc[t] = "drop" /\ pc[t] \in Ending /\ job' = job /\ UNCHANGED <<held, list, got, data>>
        /\ \A u \in Threads : pc'[u] = IF u = t THEN "uncharge" ELSE pc[u]
    BY <1>0, <1>10 DEF Drop, At, Ending
  <2>2. PICK b \in Blocks : b = job[t].l.blk
    BY <1>v, <2>1
  <2>3. PICK k : k = [n EXCEPT ![b] = 0]
    OBVIOUS
  <2>4. k \in [Blocks -> 0 .. MaxLen] /\ \A c \in Blocks : c # b => k[c] = n[c]
    BY <1>0, <2>3
  <2>5. /\ \A r \in held : list[r].blk # b
        /\ \A u \in Threads : InPlace(u) => job[u].l.blk # b
        /\ \A u \in Threads : pc[u] = "drop" /\ u # t => job[u].l.blk # b
    <3>1. \A u \in Threads : InPlace(u) => pc[u] \in Asking
      BY DEF InPlace, Asking
    <3>2. \A u \in Threads : pc[u] = "drop" => pc[u] \in Ending
      BY DEF Ending
    <3> QED BY <2>1, <2>2, <3>1, <3>2, BlockFacts DEF LIInv, CallsApart
  <2>6. Covers(k)'
    <3>1. \A r \in held' : list'[r].blk # None => list'[r].len =< k[list'[r].blk]
      BY <1>n, <1>v, <2>1, <2>4, <2>5 DEF Covers
    <3>2. \A u \in Threads :
            /\ pc'[u] \in {"retain", "cas"} /\ job'[u].kind = "push" => job'[u].l.len + 1 =< k[job'[u].l.blk]
            /\ pc'[u] = "drop" => job'[u].l.len =< k[job'[u].l.blk]
      BY <1>n, <1>v, <2>1, <2>4, <2>5 DEF Covers
    <3> QED BY <2>4, <3>1, <3>2 DEF Covers
  <2>7. ASSUME NEW v \in Vals PROVE erc'[v] - got'[v] >= erc[v] - got[v] + Count(data[b], 0, v) - Count(data[b], n[b], v)
    <3>1. erc'[v] = erc[v] - Count(data[b], job[t].l.len, v)
      BY <1>10, <2>2 DEF Drop
    <3>2. job[t].l.len \in Nat /\ job[t].l.len =< n[b] /\ n[b] \in Nat
      BY <1>0, <1>n, <2>1, <2>2 DEF Covers, Jobs, ListValues
    <3>3. /\ Count(data[b], job[t].l.len, v) =< Count(data[b], n[b], v) /\ Count(data[b], 0, v) = 0
          /\ Count(data[b], job[t].l.len, v) \in Nat /\ Count(data[b], n[b], v) \in Nat
      BY <3>2, CountFacts
    <3>4. erc[v] \in Int /\ got[v] \in Int /\ got'[v] = got[v]
      BY <1>0, <2>1
    <3> QED BY <3>1, <3>3, <3>4
  <2>8. data' = [data EXCEPT ![b] = data[b]] /\ 0 \in 0 .. MaxLen
    BY <1>0, <2>1
  <2> QED BY <1>d, <2>3, <2>6, <2>7, <2>8
<1>11. ASSUME NEW t \in Threads, Uncharge(t) PROVE ElemsKept'
  <2>1. /\ pc[t] = "uncharge" /\ pc[t] \in Ending /\ UNCHANGED <<held, list, erc, got>> /\ EndLocal(t)
        /\ \A u \in Threads : u # t => pc'[u] = pc[u] /\ job'[u] = job[u]
        /\ pc'[t] = "idle"
    BY <1>0, <1>11 DEF Uncharge, At, Ending, LIInv, LLocal
  <2>2. PICK b \in Blocks : b = job[t].l.blk
    BY <2>1 DEF EndLocal
  <2>3. PICK k : k = [n EXCEPT ![b] = 0]
    OBVIOUS
  <2>4. k \in [Blocks -> 0 .. MaxLen] /\ \A c \in Blocks : c # b => k[c] = n[c]
    BY <1>0, <2>3
  <2>5. /\ \A r \in held : list[r].blk # b
        /\ \A u \in Threads : InPlace(u) => job[u].l.blk # b
        /\ \A u \in Threads : pc[u] = "drop" /\ u # t => job[u].l.blk # b
    <3>1. \A u \in Threads : InPlace(u) => pc[u] \in Asking
      BY DEF InPlace, Asking
    <3>2. \A u \in Threads : pc[u] = "drop" => pc[u] \in Ending
      BY DEF Ending
    <3> QED BY <2>1, <2>2, <3>1, <3>2, BlockFacts DEF LIInv, CallsApart
  <2>6. Covers(k)'
    <3>1. \A r \in held' : list'[r].blk # None => list'[r].len =< k[list'[r].blk]
      BY <1>n, <1>v, <2>1, <2>4, <2>5 DEF Covers
    <3>2. \A u \in Threads :
            /\ pc'[u] \in {"retain", "cas"} /\ job'[u].kind = "push" => job'[u].l.len + 1 =< k[job'[u].l.blk]
            /\ pc'[u] = "drop" => job'[u].l.len =< k[job'[u].l.blk]
      BY <1>n, <1>v, <2>1, <2>4, <2>5 DEF Covers
    <3> QED BY <2>4, <3>1, <3>2 DEF Covers
  <2>e. PICK e : e = [i \in Index |-> None]
    OBVIOUS
  <2>7. ASSUME NEW v \in Vals PROVE erc'[v] - got'[v] >= erc[v] - got[v] + Count(e, 0, v) - Count(data[b], n[b], v)
    <3>1. n[b] \in Nat
      BY <1>0
    <3>2. Count(e, 0, v) = 0 /\ Count(data[b], n[b], v) \in Nat
      BY <3>1, CountFacts
    <3>3. erc[v] \in Int /\ got[v] \in Int /\ got'[v] = got[v] /\ erc'[v] = erc[v]
      BY <1>0, <2>1
    <3> QED BY <3>2, <3>3
  <2>8. data' = [data EXCEPT ![b] = e] /\ 0 \in 0 .. MaxLen
    BY <1>0, <1>11, <2>2, <2>e DEF Uncharge
  <2> QED BY <1>d, <2>3, <2>6, <2>7, <2>8
<1>13. ASSUME NEW t \in Threads, NEW b \in Blocks, Copy(t, b) PROVE ElemsKept'
  <2>1. /\ pc[t] = "copy" /\ pc[t] \in Asking /\ ~live[b] /\ AskLocal(t) /\ got' = got
        /\ Return(t, [blk |-> b, len |-> Result(t).len, cap |-> NewCap(t)])
    BY <1>13 DEF Copy, At, Asking, LIInv, LLocal
  <2>d. PICK d \in Refs \ held : d = job[t].out
    BY <2>1 DEF AskLocal
  <2>m. PICK m \in 0 .. MaxLen : m = Result(t).len
    BY <2>1, NewCapFits
  <2>3. PICK k : k = [n EXCEPT ![b] = m]
    OBVIOUS
  <2>4. k \in [Blocks -> 0 .. MaxLen] /\ k[b] = m /\ \A c \in Blocks : c # b => k[c] = n[c]
    BY <1>0, <2>3
  <2>5. /\ \A x \in held' : (x \in held /\ list'[x] = list[x]) \/ (list'[x].blk = b /\ list'[x].len = m)
        /\ \A u \in Threads : u # t => pc'[u] = pc[u] /\ job'[u] = job[u]
        /\ pc'[t] \in {"idle", "read"}
    BY <1>0, <2>1, <2>d, <2>m DEF Return
  <2>6. Covers(k)'
    <3>1. \A r \in held : list[r].blk # b
      BY <1>0, <1>v, <2>1
    <3>2. \A u \in Threads : /\ pc[u] = "drop" => job[u].l.blk # b
                             /\ InPlace(u) => job[u].l.blk # b
      <4>1. \A u \in Threads : InPlace(u) => pc[u] \in Asking
        BY DEF InPlace, Asking
      <4> QED BY <1>v, <2>1, <3>1, <4>1
    <3>3. \A r \in held' : list'[r].blk # None => list'[r].len =< k[list'[r].blk]
      BY <1>0, <1>n, <1>v, <2>4, <2>5, <3>1 DEF Covers
    <3>4. \A u \in Threads :
            /\ pc'[u] \in {"retain", "cas"} /\ job'[u].kind = "push" => job'[u].l.len + 1 =< k[job'[u].l.blk]
            /\ pc'[u] = "drop" => job'[u].l.len =< k[job'[u].l.blk]
      BY <1>n, <1>v, <2>4, <2>5, <3>2 DEF Covers
    <3> QED BY <2>4, <3>3, <3>4 DEF Covers
  <2>e. PICK e : e = Copied(t)
    OBVIOUS
  <2>7. ASSUME NEW v \in Vals PROVE erc'[v] - got'[v] >= erc[v] - got[v] + Count(e, m, v) - Count(data[b], n[b], v)
    <3>1. n[b] \in Nat /\ m \in Nat
      BY <1>0
    <3>2. Count(e, m, v) \in Nat /\ Count(data[b], n[b], v) \in Nat
      BY <3>1, CountFacts
    <3>3. erc[v] \in Int /\ got[v] \in Int /\ got'[v] = got[v]
      BY <1>0, <2>1
    <3>4. erc'[v] = erc[v] + Count(e, m, v)
      BY <1>13, <2>m, <2>e DEF Copy
    <3> QED BY <3>2, <3>3, <3>4
  <2>8. data' = [data EXCEPT ![b] = e]
    BY <1>13, <2>e DEF Copy
  <2> QED BY <1>d, <2>3, <2>6, <2>7, <2>8
<1> QED BY <1>1, <1>2, <1>3, <1>4, <1>5, <1>6, <1>7, <1>8, <1>9, <1>10, <1>11, <1>12, <1>13, <1>14 DEF Step
-----------------------------------------------------------------------------
\* Every step keeps the invariant.
LEMMA ListStep ==
  ASSUME LIInv, ~InArena, [Next]_vars
  PROVE  LIInv'
<1>1. Step
  BY StepCases
<1>2. LTypeOK'
  BY <1>1, TypeStep
<1>3. LLocal'
  BY <1>1, LocalStep DEF LLocal
<1>4. CallsApart' /\ ValuesOK'
  BY <1>1, ApartStep, ValuesStep
<1>5. RefsExact' /\ BytesExact' /\ ElemsKept'
  BY <1>1, <1>2, <1>4, RefsStep, BytesStep, KeptStep
<1> QED BY <1>2, <1>3, <1>4, <1>5 DEF LIInv

\* What the values show is among what is counted.
LEMMA KeptHeld ==
  ASSUME LIInv
  PROVE  ElemsHeld
<1>1. PICK n \in [Blocks -> 0 .. MaxLen] : Covers(n) /\ Counted(n)
  BY DEF LIInv, ElemsKept
<1>2. ASSUME NEW b \in Blocks PROVE Shown(b) \in Nat /\ Shown(b) =< n[b]
  <2> DEFINE T == {0} \cup {list[r].len : r \in Sharing(b)}
  <2>1. n[b] \in Nat
    BY ListAssumption
  <2>2. \A r \in Sharing(b) : list[r].len \in Nat /\ list[r].len =< n[b]
    <3>1. \A r \in held : list[r] \in ListValues /\ b # None
      BY <1>2, ListAssumption DEF LIInv, LTypeOK, TypeOK
    <3> QED BY <1>1, <3>1, ListAssumption DEF Sharing, Covers, ListValues
  <2>3. T \in SUBSET Nat /\ T # {} /\ \A y \in T : y =< n[b]
    BY <2>1, <2>2
  <2>4. Shown(b) = Max(T)
    BY DEF Shown
  <2> HIDE DEF T
  <2>5. Max(T) \in T
    BY <2>1, <2>3, MaxProperties
  <2> QED BY <2>3, <2>4, <2>5
<1>3. ASSUME NEW v \in Vals
      PROVE  erc[v] >= got[v] + SumFunction([b \in Blocks |-> Count(data[b], Shown(b), v)])
  <2>1. PICK f : f = [b \in Blocks |-> Count(data[b], Shown(b), v)]
    OBVIOUS
  <2>2. PICK g : g = [b \in Blocks |-> Count(data[b], n[b], v)]
    OBVIOUS
  <2>3. \A b \in Blocks : n[b] \in Nat
    BY ListAssumption
  <2>4. \A b \in Blocks : /\ Count(data[b], Shown(b), v) \in Nat /\ Count(data[b], n[b], v) \in Nat
                          /\ Count(data[b], Shown(b), v) =< Count(data[b], n[b], v)
    BY <1>2, <2>3, CountFacts
  <2>5. f \in [Blocks -> Nat] /\ g \in [Blocks -> Nat] /\ \A b \in Blocks : f[b] =< g[b]
    BY <2>1, <2>2, <2>4
  <2>6. IsFiniteSet(Blocks)
    BY ListAssumption
  <2>7. SumFunction(f) =< SumFunction(g) /\ SumFunction(f) \in Nat /\ SumFunction(g) \in Nat
    BY <2>5, <2>6, SumMonotone, SumOfNaturals
  <2>8. erc[v] >= got[v] + SumFunction(g)
    BY <1>1, <2>2 DEF Counted, Counts
  <2>9. erc[v] \in Int /\ got[v] \in Int
    BY DEF LIInv, LTypeOK, TypeOK
  <2>10. erc[v] >= got[v] + SumFunction(f)
    BY <2>7, <2>8, <2>9
  <2> QED BY <2>1, <2>10, Zenon
<1> QED BY <1>3 DEF ElemsHeld

(***************************************************************************)
(* Counted lists on the heap (core/list without an arena), for any number  *)
(* of threads and lists: the count of a block is the number of list values *)
(* that share it, no value refers to a freed block, no element is released *)
(* while a value shows it, and the quota counter is the charge of the      *)
(* blocks there are.                                                       *)
(***************************************************************************)
THEOREM ListCorrect == ASSUME ~InArena PROVE Spec => []ListSound
<1>1. Init => LIInv
  BY ListInit
<1>2. LIInv /\ [Next]_vars => LIInv'
  BY ListStep
<1>3. LIInv => ListSound
  BY KeptHeld DEF LIInv, LTypeOK, ListSound
<1> QED BY <1>1, <1>2, <1>3, PTL DEF Spec

(***************************************************************************)
(* "Exclusively owned" is exclusive: a push or set that writes in place    *)
(* has the only list value with the block.                                 *)
(***************************************************************************)
THEOREM OwnedCorrect == ASSUME ~InArena PROVE Spec => []OwnedIsExclusive
<1>1. Init => LIInv
  BY ListInit
<1>2. LIInv /\ [Next]_vars => LIInv'
  BY ListStep
<1>3. LIInv => OwnedIsExclusive
  <2> SUFFICES ASSUME LIInv, NEW t \in Threads, pc[t] = "write" PROVE Sharing(job[t].l.blk) = {job[t].ref}
    BY DEF OwnedIsExclusive
  <2>1. InPlace(t) /\ pc[t] \in Asking
    BY DEF InPlace, Asking
  <2>2. job[t].ref \in held /\ list[job[t].ref] = job[t].l
    BY <2>1 DEF LIInv, LLocal, AskLocal
  <2> QED BY <2>1, <2>2, BlockFacts DEF Sharing
<1> QED BY <1>1, <1>2, <1>3, PTL DEF Spec

\* A value that is held before and after a step shows the same.
LEMMA ViewStep ==
  ASSUME LIInv, ~InArena, Step, NEW r \in held, r \in held',
         \A t \in Threads : ~ (pc[t] = "write" /\ job[t].kind = "set" /\ job[t].ref = r)
  PROVE  View(r)' = View(r)
<1>0. /\ list \in [Refs -> ListValues] /\ data \in [Blocks -> [Index -> Vals \cup {None}]] /\ job \in [Threads -> Jobs]
      /\ r \in Refs /\ None \notin Blocks /\ (list[r].blk = None => list[r].len = 0)
      /\ (list[r].blk # None => list[r].blk \in Blocks /\ live[list[r].blk])
  <2>1. r \in Refs /\ list[r] \in ListValues /\ ValueOK(list[r])
    BY DEF LIInv, LTypeOK, TypeOK, ValuesOK
  <2> QED BY <2>1, ListAssumption DEF LIInv, LTypeOK, TypeOK, ValueOK, ListValues
<1> DEFINE b == list[r].blk
<1>a. ASSUME list'[r] = list[r], b # None => \A i \in Index : i < list[r].len => data'[b][i] = data[b][i] PROVE View(r)' = View(r)
  <2>1. \A i \in Index : i < list[r].len => data'[b][i] = data[b][i]
    BY <1>0, <1>a DEF Index
  <2> QED BY <1>a, <2>1 DEF View
<1> USE DEF blockVars, valueVars, elemVars
<1>1. CASE list' = list /\ data' = data
  BY <1>a, <1>1
<1>2. CASE \/ Idle \/ \E v \in Vals : ReleaseElem(v)
           \/ \E t \in Threads : \/ \E j \in Jobs, q \in PcStates : Called(t, j, q)
                                 \/ \E q \in PcStates, s \in Int : Loaded(t, q, s)
                                 \/ \E q \in Refs, u \in Threads : Pass(t, u, q)
                                 \/ Read(t) \/ Drop(t) \/ Charged(t)
  <2>1. list' = list /\ data' = data
    BY <1>2 DEF Idle, ReleaseElem, Called, Loaded, Pass, Read, Drop, Charged
  <2> QED BY <1>1, <2>1
<1>3. ASSUME NEW t \in Threads, NEW q \in Refs, New(t, q) \/ Released(t, q) PROVE View(r)' = View(r)
  BY <1>0, <1>a, <1>3 DEF New, Spare, Released, ReleaseValue
<1>b. ASSUME NEW t \in Threads, NEW l, pc[t] \in Asking, Return(t, l) PROVE list'[r] = list[r]
  <2>1. job[t].out \notin held
    BY <1>b DEF LIInv, LLocal, AskLocal
  <2> QED BY <1>0, <1>b, <2>1 DEF Return
<1>8. ASSUME NEW t \in Threads, ReturnedEmpty(t) \/ RetainCas(t) PROVE View(r)' = View(r)
  <2>1. pc[t] \in Asking /\ Return(t, Result(t)) /\ data' = data
    BY <1>8 DEF ReturnedEmpty, RetainCas, At, Asking
  <2> QED BY <1>a, <1>b, <2>1
<1>13. ASSUME NEW t \in Threads, NEW c \in Blocks, Copy(t, c) PROVE View(r)' = View(r)
  <2>1. /\ pc[t] \in Asking /\ Return(t, [blk |-> c, len |-> Result(t).len, cap |-> NewCap(t)])
        /\ ~live[c] /\ data' = [data EXCEPT ![c] = Copied(t)]
    BY <1>13 DEF Copy, At, Asking
  <2>2. list'[r] = list[r]
    BY <1>b, <2>1
  <2> QED BY <1>0, <1>a, <2>1, <2>2
<1>11. ASSUME NEW t \in Threads, Uncharge(t) PROVE View(r)' = View(r)
  <2>1. b # job[t].l.blk
    BY <1>11, BlockFacts DEF Uncharge, At, Ending
  <2> QED BY <1>0, <1>a, <1>11, <2>1 DEF Uncharge
<1>7. ASSUME NEW t \in Threads, Write(t) PROVE View(r)' = View(r)
  <2>1. InPlace(t) /\ pc[t] = "write" /\ AskLocal(t) /\ pc[t] \in Asking /\ list' = list
    BY <1>7 DEF Write, At, InPlace, Asking, LIInv, LLocal
  <2>2. CASE b # job[t].l.blk
    BY <1>0, <1>a, <1>7, <2>1, <2>2 DEF Write
  <2>3. CASE b = job[t].l.blk
    <3>1. r = job[t].ref
      BY <2>1, <2>3, BlockFacts
    <3>2. job[t].kind = "push" /\ job[t].i = list[r].len /\ list[r].len \in Nat
      BY <1>0, <2>1, <3>1 DEF AskLocal, ListValues
    <3>3. \A i \in Index : i < list[r].len => i # job[t].i
      BY <3>2, ListAssumption DEF Index
    <3>4. \A i \in Index : i < list[r].len => data'[b][i] = data[b][i]
      <4>1. b # None => \A i \in Index : i # job[t].i => data'[b][i] = data[b][i]
        BY <1>0, <1>7, <2>3 DEF Write
      <4>2. b # None
        BY <2>1, <2>3 DEF AskLocal
      <4> QED BY <3>3, <4>1, <4>2
    <3> QED BY <1>a, <2>1, <3>4
  <2> QED BY <2>2, <2>3
<1> QED BY <1>2, <1>3, <1>7, <1>8, <1>11, <1>13 DEF Step

(***************************************************************************)
(* "COW base list untouched", on the heap: what a program sees through a   *)
(* list value changes by a set on that value only.                         *)
(***************************************************************************)
THEOREM ValuesStayCorrect == ASSUME ~InArena PROVE Spec => ValuesStay
<1> DEFINE A == \A r \in held \cap held' :
       \/ View(r)' = View(r)
       \/ \E t \in Threads : pc[t] = "write" /\ job[t].kind = "set" /\ job[t].ref = r
<1>1. Init => LIInv
  BY ListInit
<1>2. LIInv /\ [Next]_vars => LIInv'
  BY ListStep
<1>3. LIInv /\ [Next]_vars => [A]_vars
  <2> SUFFICES ASSUME LIInv, [Next]_vars, NEW r \in held \cap held',
                      ~ \E t \in Threads : pc[t] = "write" /\ job[t].kind = "set" /\ job[t].ref = r
               PROVE  View(r)' = View(r)
    OBVIOUS
  <2>1. Step
    BY StepCases
  <2> QED BY <2>1, ViewStep
<1> QED BY <1>1, <1>2, <1>3, PTL DEF Spec, ValuesStay
=============================================================================
