---------------------------- MODULE ArenaProofs ----------------------------
(***************************************************************************)
(* Proofs about bump arenas: whatever allocations, frees in any order,     *)
(* checkpoints, rollbacks, resets and destroys interleave, the headers a   *)
(* free walks over are the ones allocation wrote, frames in use are apart  *)
(* and in memory that is mapped, and the last free empties the arena.      *)
(***************************************************************************)
EXTENDS Arena, SetFacts, FiniteSetTheorems, SequenceTheorems, TLAPS

Headers == [kind : {"frame", "zero", "garbage"}, prev : Offsets \cup {None}, dead : BOOLEAN]
Entries == [id : Slots, off : Nat, gen : Nat, top : Offsets \cup {None}, intact : BOOLEAN]
Frames  == {f \in [slot : Slots, cur : Offsets, end : Nat] : f.cur < f.end}

\* The entries of the checkpoint stack, and those a thread carries to or from it.
Carrying(t) == pc[t] \in {"push", "restore"}
Taken == {ck[i] : i \in DOMAIN ck} \cup {loc[t] : t \in {u \in Threads : Carrying(u)}}

\* The types of the arenas and of what is held in and on them: they imply TypeOK.
ArraysOK ==
  /\ live \in [Slots -> BOOLEAN] /\ base \in [Slots -> Regions \cup {None}]
  /\ cap \in [Slots -> Caps \cup {0}] /\ off \in [Slots -> Nat]
  /\ gen \in [Slots -> 0 .. MaxGen] /\ top \in [Slots -> Offsets \cup {None}]
  /\ hdr \in [Slots -> [Offsets -> Headers]] /\ raw \in [Slots -> 0 .. MaxOff]
  /\ crossed \in [Slots -> BOOLEAN] /\ wiped \in [Slots -> BOOLEAN]

HeldOK ==
  /\ frames \subseteq Frames /\ mapped \subseteq Regions
  /\ active \in [Threads -> Slots \cup {None}]
  /\ ck \in Seq(Entries) /\ Len(ck) =< CK_MAX
  /\ pc \in [Threads -> {"idle", "push", "restore", "madvise", "munmap"}]
  /\ DOMAIN loc = Threads
  /\ \A t \in Threads : Carrying(t) => loc[t] \in Entries

ArTypeOK == ArraysOK /\ HeldOK

\* No entry is of a creation to come, and an intact one of an empty arena has no top.  A frame
\* in use is in a live arena.
EntriesTrue == \A k \in Taken : k.gen =< gen[k.id] /\ (k.intact /\ k.off = 0 => k.top = None)
FramesLive  == \A f \in frames : live[f.slot]

\* A region is mapped while an arena or an unmapping thread has it, and only one has.
MapsApart ==
  /\ LiveMapped
  /\ \A t \in Threads : pc[t] = "munmap" =>
       /\ loc[t] \in mapped
       /\ \A s \in Slots : live[s] => base[s] # loc[t]
       /\ \A u \in Threads : pc[u] = "munmap" /\ loc[u] = loc[t] => u = t

\* The checkpoints that can bring slot s back to where it has been.
Marks(s) == {k \in Taken : k.intact /\ k.id = s /\ k.gen = gen[s]}

\* c is the highest frame of X below o; None if there is none.
Highest(X, o, c) ==
  \/ c = None /\ \A d \in X : d >= o
  \/ c \in X /\ c + ALIGN < o /\ \A d \in X : d =< c \/ d >= o

\* X are the frames of slot s: headers lead from each to the next below, unless they were wiped.
Linked(s, X) ==
  /\ \A c \in X : c < off[s]
  /\ Highest(X, off[s], top[s])
  /\ \A c \in X : \/ hdr[s][c].kind = "frame" /\ Highest(X, c, hdr[s][c].prev)
                  \/ hdr[s][c].kind = "zero" /\ wiped[s]

\* A frame in use is one of X, not dead, and ends before the next.
Framed(s, X) ==
  \A f \in frames : f.slot = s =>
    /\ f.cur \in X /\ ~hdr[s][f.cur].dead
    /\ f.end =< off[s] /\ f.end =< cap[s]
    /\ \A c \in X : c =< f.cur \/ f.end =< c
    /\ \A g \in frames : g.slot = s /\ g.cur = f.cur => g = f

\* A checkpoint stands between two frames of X.
Marked(s, X) ==
  \A k \in Marks(s) :
    /\ k.off =< off[s] /\ Highest(X, k.off, k.top)
    /\ \A f \in frames : f.slot = s => f.end =< k.off \/ k.off =< f.cur

\* With payload frames only, they start at the bottom and are dead or in use.
Full(s, X) ==
  raw[s] = 0 /\ ~wiped[s] =>
    /\ X = {} => off[s] = 0
    /\ X # {} => 0 \in X
    /\ \A c \in X : hdr[s][c].dead \/ \E f \in frames : f.slot = s /\ f.cur = c
    /\ \A k \in Marks(s) : k.top = None => k.off = 0

ChainGood(s) == \E X \in SUBSET Offsets : Linked(s, X) /\ Framed(s, X) /\ Marked(s, X) /\ Full(s, X)

ChainsGood == \A s \in Slots : live[s] /\ ~crossed[s] => ChainGood(s)

\* The invariant of the arenas.
ArIInv == ArTypeOK /\ EntriesTrue /\ FramesLive /\ MapsApart /\ ChainsGood

-----------------------------------------------------------------------------
(* The largest capacity exists. *)
LEMMA MaxCapIs == MaxCap \in Nat /\ \A c \in Caps : c \in Nat /\ c =< MaxCap
BY CapsAssumption DEF MaxCap

(* Offsets are natural numbers, and None is not one of them. *)
LEMMA OffsetsAre ==
  ALIGN \in Nat /\ ALIGN > 0 /\ Offsets \subseteq Nat /\ None \notin Nat /\ None \notin Offsets
BY AlignAssumption, MaxCapIs, NoneAssumption DEF Offsets

(* Rounding goes up, and leaves 0 where it is. *)
LEMMA Rounds ==
  ASSUME NEW x \in Nat
  PROVE  RoundUp(x) \in Nat /\ RoundUp(x) >= x /\ RoundUp(0) = 0
<1>1. ALIGN \in Nat /\ ALIGN > 0
  BY AlignAssumption
<1> DEFINE q == (x + ALIGN - 1) \div ALIGN
<1>2. q \in Int /\ x + ALIGN - 1 = ALIGN * q + ((x + ALIGN - 1) % ALIGN) /\ (x + ALIGN - 1) % ALIGN \in 0 .. ALIGN - 1
  BY <1>1
<1>3. (0 + ALIGN - 1) \div ALIGN = 0
  BY <1>1
<1>4. q * ALIGN = ALIGN * q /\ q * ALIGN \in Int
  BY <1>1, <1>2
<1>5. RoundUp(x) = q * ALIGN
  BY DEF RoundUp
<1>6. RoundUp(0) = 0
  BY <1>1, <1>3 DEF RoundUp
<1> HIDE DEF q
<1> QED BY <1>1, <1>2, <1>4, <1>5, <1>6

(***************************************************************************)
(* Iteration: what the recursive functions Walk and Chain compute.         *)
(***************************************************************************)
\* f starts at a and goes on by G, N times.
Iterates(f, D, a, G, N) == f \in [0 .. N -> D] /\ f[0] = a /\ \A n \in 1 .. N : f[n] = G[f[n - 1]]

(* Such a function exists, up to any number. *)
LEMMA Iterated ==
  ASSUME NEW D, NEW a \in D, NEW G \in [D -> D], NEW N \in Nat
  PROVE  \E f : Iterates(f, D, a, G, N)
<1> DEFINE Upto(m) == \E f \in [0 .. m -> D] : f[0] = a /\ \A n \in 1 .. m : f[n] = G[f[n - 1]]
           Bad == {m \in Nat : ~Upto(m)}
<1>1. Upto(0)
  <2> DEFINE f == [n \in 0 .. 0 |-> a]
  <2>1. f \in [0 .. 0 -> D] /\ f[0] = a /\ \A n \in 1 .. 0 : f[n] = G[f[n - 1]]
    OBVIOUS
  <2> QED BY <2>1
<1>2. ASSUME NEW m \in Nat, m > 0, Upto(m - 1) PROVE Upto(m)
  <2>1. PICK f \in [0 .. m - 1 -> D] : f[0] = a /\ \A n \in 1 .. m - 1 : f[n] = G[f[n - 1]]
    BY <1>2
  <2> DEFINE g == [n \in 0 .. m |-> IF n = m THEN G[f[m - 1]] ELSE f[n]]
  <2>2. f[m - 1] \in D
    BY <1>2
  <2>3. g \in [0 .. m -> D]
    BY <2>2
  <2>4. g[0] = a /\ \A n \in 1 .. m : g[n] = G[g[n - 1]]
    BY <1>2, <2>1
  <2> QED BY <2>3, <2>4
<1>3. Bad = {}
  <2> SUFFICES ASSUME Bad # {} PROVE FALSE
    OBVIOUS
  <2>1. PICK m \in Bad : \A k \in Bad : ~(k < m)
    BY LeastExists, Bad \subseteq Nat
  <2>2. m \in Nat /\ ~Upto(m)
    OBVIOUS
  <2> HIDE DEF Upto
  <2>3. m # 0
    BY <1>1, <2>2
  <2>4. m - 1 \in Nat /\ m - 1 \notin Bad
    BY <2>1, <2>2, <2>3
  <2>5. Upto(m - 1)
    BY <2>4
  <2> QED BY <1>2, <2>2, <2>3, <2>5
<1>4. Upto(N)
  BY <1>3
<1> QED BY <1>4 DEF Iterates

(* The step of the walk, as a function. *)
WalkStates == [off : Nat, top : Offsets \cup {None}]
WalkStep(h) == [w \in WalkStates |->
                  IF DeadTop(h, w.top) THEN [off |-> w.top, top |-> h[w.top].prev] ELSE w]

(* What every step of the walk keeps holds at its end. *)
LEMMA WalkReaches ==
  ASSUME NEW h \in [Offsets -> Headers], NEW start \in WalkStates, NEW P \in SUBSET WalkStates,
         start \in P, \A w \in P : DeadTop(h, w.top) => [off |-> w.top, top |-> h[w.top].prev] \in P
  PROVE  Walk(h, start) \in P
<1> DEFINE N == MaxCap + 1
           R(f) == [n \in 0 .. N |->
                      IF n = 0 THEN start
                      ELSE LET w == f[n - 1]
                           IN  IF DeadTop(h, w.top) THEN [off |-> w.top, top |-> h[w.top].prev] ELSE w]
           step == CHOOSE f : f = R(f)
<1>1. Walk(h, start) = step[N]
  BY DEF Walk
<1>2. MaxCap \in Nat /\ None \notin Nat /\ Offsets \subseteq Nat
  BY MaxCapIs, NoneAssumption DEF Offsets
<1>3. WalkStep(h) \in [WalkStates -> WalkStates]
  <2>1. ASSUME NEW w \in WalkStates, DeadTop(h, w.top)
        PROVE  [off |-> w.top, top |-> h[w.top].prev] \in WalkStates
    BY <1>2, <2>1 DEF WalkStates, DeadTop, Headers
  <2> QED BY <2>1 DEF WalkStep
<1>4. PICK f \in [0 .. N -> WalkStates] : f[0] = start /\ \A n \in 1 .. N : f[n] = WalkStep(h)[f[n - 1]]
  <2>1. N \in Nat
    BY <1>2
  <2>2. PICK f : Iterates(f, WalkStates, start, WalkStep(h), N)
    BY <1>3, <2>1, Iterated, Zenon
  <2> QED BY <2>2 DEF Iterates
<1>5. f = R(f)
  <2>1. ASSUME NEW n \in 0 .. N PROVE f[n] = R(f)[n]
    <3>1. CASE n = 0
      BY <1>4, <3>1
    <3>2. CASE n # 0
      <4>1. n \in 1 .. N /\ n - 1 \in 0 .. N
        BY <1>2, <3>2
      <4>2. f[n - 1] \in WalkStates
        BY <4>1
      <4>3. f[n] = WalkStep(h)[f[n - 1]]
        BY <1>4, <4>1
      <4> QED BY <3>2, <4>1, <4>2, <4>3 DEF WalkStep
    <3> QED BY <3>1, <3>2
  <2> HIDE DEF N
  <2> QED BY <2>1
<1> HIDE DEF R
<1>6. step = R(step)
  BY <1>5
<1> HIDE DEF step
<1> USE DEF R
<1>7. step[0] = start /\ \A n \in 1 .. N : /\ n - 1 \in 0 .. N
         /\ step[n] = IF DeadTop(h, step[n - 1].top)
                      THEN [off |-> step[n - 1].top, top |-> h[step[n - 1].top].prev] ELSE step[n - 1]
  <2>1. 0 \in 0 .. N /\ \A n \in 1 .. N : n \in 0 .. N /\ n - 1 \in 0 .. N /\ n # 0
    BY <1>2
  <2>2. \A n \in 0 .. N : R(step)[n] = IF n = 0 THEN start
          ELSE IF DeadTop(h, step[n - 1].top)
               THEN [off |-> step[n - 1].top, top |-> h[step[n - 1].top].prev] ELSE step[n - 1]
    OBVIOUS
  <2> HIDE DEF R, N
  <2>3. \A n \in 0 .. N : step[n] = R(step)[n]
    BY <1>6
  <2> QED BY <2>1, <2>2, <2>3
<1> DEFINE Bad == {n \in 0 .. N : step[n] \notin P}
<1>8. Bad = {}
  <2> SUFFICES ASSUME Bad # {} PROVE FALSE
    OBVIOUS
  <2>1. PICK m \in Bad : \A k \in Bad : ~(k < m)
    BY <1>2, LeastExists, Bad \subseteq Nat
  <2>2. m # 0
    BY <1>7, <2>1
  <2>3. m \in 1 .. N /\ m - 1 \in 0 .. N /\ m - 1 \notin Bad
    BY <1>2, <2>1, <2>2
  <2>4. step[m - 1] \in P
    BY <2>3
  <2> QED BY <1>7, <2>1, <2>3, <2>4
<1> QED BY <1>1, <1>2, <1>8

(* A function that follows the headers down exists. *)
Tops == Offsets \cup {None}
ChainStep(h) == [c \in Tops |-> IF c = None THEN None ELSE h[c].prev]

\* The offsets reached by following prev from a, n times for each n, form a function.
LEMMA ChainExists ==
  ASSUME NEW h \in [Offsets -> Headers], NEW a \in Offsets \cup {None}
  PROVE  \E f \in [0 .. MaxCap -> Offsets \cup {None}] :
           /\ f[0] = a
           /\ \A n \in 1 .. MaxCap : f[n] = IF f[n - 1] = None THEN None ELSE h[f[n - 1]].prev
<1>1. MaxCap \in Nat /\ a \in Tops
  BY MaxCapIs DEF Tops
<1>2. ChainStep(h) \in [Tops -> Tops]
  BY DEF Headers, ChainStep, Tops
<1>3. PICK f \in [0 .. MaxCap -> Tops] : f[0] = a /\ \A n \in 1 .. MaxCap : f[n] = ChainStep(h)[f[n - 1]]
  <2>1. PICK f : Iterates(f, Tops, a, ChainStep(h), MaxCap)
    BY <1>1, <1>2, Iterated, Zenon
  <2> QED BY <2>1 DEF Iterates
<1>4. ASSUME NEW n \in 1 .. MaxCap PROVE f[n] = IF f[n - 1] = None THEN None ELSE h[f[n - 1]].prev
  <2>1. f[n - 1] \in Tops
    BY <1>1
  <2> QED BY <1>3, <2>1 DEF ChainStep
<1> QED BY <1>3, <1>4 DEF Tops

(* The chain from the top down meets the frames of X, and all of them. *)
LEMMA ChainIs ==
  ASSUME ArTypeOK, NEW s \in Slots, ~wiped[s], NEW X \in SUBSET Offsets, Linked(s, X)
  PROVE  Chain(s) = X
<1> DEFINE N == MaxCap
           D == Offsets \cup {None}
           h == hdr[s]
           G == [c \in D |-> IF c = None THEN None ELSE h[c].prev]
           R(f) == [n \in 0 .. N |-> IF n = 0 THEN top[s]
                                     ELSE IF f[n - 1] = None THEN None ELSE hdr[s][f[n - 1]].prev]
           down == CHOOSE f : f = R(f)
<1>1. Chain(s) = {down[n] : n \in 0 .. N} \ {None}
  BY DEF Chain
<1>2. /\ N \in Nat /\ None \notin Nat /\ Offsets = 0 .. N /\ h \in [Offsets -> Headers]
      /\ top[s] \in D /\ ALIGN \in Nat /\ ALIGN > 0 /\ off[s] \in Nat
  BY MaxCapIs, NoneAssumption, AlignAssumption DEF Offsets, ArTypeOK, ArraysOK
<1>3. /\ \A c \in X : h[c].kind = "frame" /\ Highest(X, c, h[c].prev)
      /\ Highest(X, off[s], top[s]) /\ \A c \in X : c < off[s]
  BY DEF Linked
<1>4. G \in [D -> D]
  BY <1>2 DEF Headers
<1> HIDE DEF h
<1>5. PICK f \in [0 .. N -> D] : f[0] = top[s] /\ \A n \in 1 .. N : f[n] = G[f[n - 1]]
  <2>1. PICK f \in [0 .. MaxCap -> Offsets \cup {None}] :
          f[0] = top[s] /\ \A n \in 1 .. MaxCap : f[n] = IF f[n - 1] = None THEN None ELSE h[f[n - 1]].prev
    <3>1. h \in [Offsets -> Headers] /\ top[s] \in Offsets \cup {None}
      BY <1>2
    <3> HIDE DEF h
    <3> QED BY <3>1, ChainExists
  <2>2. ASSUME NEW n \in 1 .. N PROVE f[n] = G[f[n - 1]]
    BY <1>2, <2>1
  <2> QED BY <2>1, <2>2
<1>6. f = R(f)
  <2>1. ASSUME NEW n \in 0 .. N PROVE f[n] = R(f)[n]
    <3>1. CASE n = 0
      BY <1>5, <3>1
    <3>2. CASE n # 0
      <4>1. n \in 1 .. N /\ n - 1 \in 0 .. N
        BY <1>2, <3>2
      <4>2. f[n - 1] \in D /\ f[n] = G[f[n - 1]]
        BY <1>5, <4>1
      <4> QED BY <3>2, <4>1, <4>2 DEF h
    <3> QED BY <3>1, <3>2
  <2> HIDE DEF N
  <2> QED BY <2>1
<1> HIDE DEF R
<1>7. down = R(down)
  BY <1>6
<1> HIDE DEF down
<1>8. /\ down[0] = top[s]
      /\ \A n \in 1 .. N : /\ n - 1 \in 0 .. N /\ n \in 0 .. N
           /\ down[n] = IF down[n - 1] = None THEN None ELSE h[down[n - 1]].prev
  <2>1. 0 \in 0 .. N /\ \A n \in 1 .. N : n \in 0 .. N /\ n - 1 \in 0 .. N /\ n # 0
    BY <1>2
  <2>2. \A n \in 0 .. N : R(down)[n] = IF n = 0 THEN top[s]
          ELSE IF down[n - 1] = None THEN None ELSE h[down[n - 1]].prev
    BY DEF R, h
  <2> HIDE DEF N
  <2>3. \A n \in 0 .. N : down[n] = R(down)[n]
    BY <1>7
  <2> QED BY <2>1, <2>2, <2>3
<1> DEFINE Out == {n \in 0 .. N : down[n] \notin X \cup {None}}
<1>9. Out = {}
  <2> SUFFICES ASSUME Out # {} PROVE FALSE
    OBVIOUS
  <2>1. PICK m \in Out : \A k \in Out : ~(k < m)
    BY <1>2, LeastExists, Out \subseteq Nat
  <2>2. m # 0
    BY <1>3, <1>8, <2>1 DEF Highest
  <2>3. m \in 1 .. N /\ m - 1 \in 0 .. N /\ m - 1 \notin Out
    BY <1>2, <2>1, <2>2
  <2>4. down[m - 1] \in X \cup {None}
    BY <2>3
  <2> QED BY <1>3, <1>8, <2>1, <2>3, <2>4 DEF Highest
<1>10. Chain(s) \subseteq X
  BY <1>1, <1>9
<1>11. ASSUME NEW x \in X, x \notin Chain(s) PROVE FALSE
  <2> DEFINE Low == {n \in 0 .. N : ~(down[n] \in X /\ x < down[n] /\ down[n] + n =< N)}
  <2>0. x \in Nat /\ X \subseteq Nat /\ \A c \in X : c =< N
    BY <1>2
  <2>1. \A n \in 0 .. N : down[n] # x
    <3>1. x # None
      BY <1>2, <2>0
    <3> QED BY <1>1, <1>11, <3>1
  <2>2. Low = {}
    <3> SUFFICES ASSUME Low # {} PROVE FALSE
      OBVIOUS
    <3>1. PICK m \in Low : \A k \in Low : ~(k < m)
      BY <1>2, LeastExists, Low \subseteq Nat
    <3>2. CASE m = 0
      <4>1. top[s] \in X /\ x =< top[s]
        BY <1>2, <1>3, <2>0 DEF Highest
      <4>2. top[s] # x
        BY <1>2, <1>8, <2>1
      <4>3. ~(down[0] \in X /\ x < down[0] /\ down[0] + 0 =< N)
        BY <3>1, <3>2
      <4>4. top[s] \in Nat /\ top[s] =< N
        BY <2>0, <4>1
      <4> HIDE DEF N
      <4> QED BY <1>8, <2>0, <4>1, <4>2, <4>3, <4>4
    <3>3. CASE m # 0
      <4>1. m \in 1 .. N /\ m - 1 \in 0 .. N /\ m - 1 \notin Low
        BY <1>2, <3>1, <3>3
      <4> DEFINE c == down[m - 1]
                 d == down[m]
      <4>2. c \in X /\ x < c /\ c + (m - 1) =< N
        BY <4>1
      <4>3. c # None /\ d = h[c].prev /\ Highest(X, c, d) /\ d # x
        BY <1>2, <1>3, <1>8, <2>0, <2>1, <3>1, <4>1, <4>2
      <4>4. ~(d \in X /\ x < d /\ d + m =< N) /\ m \in Nat
        BY <3>1
      <4> HIDE DEF c, d
      <4>5. d \in X /\ d + ALIGN < c /\ x =< d
        BY <1>2, <2>0, <4>2, <4>3 DEF Highest
      <4>6. c \in Nat /\ d \in Nat /\ N \in Nat
        BY <1>2, <2>0, <4>2, <4>5
      <4>7. x < d
        BY <2>0, <4>3, <4>5, <4>6
      <4> HIDE DEF N
      <4>8. d + m =< N
        BY <1>2, <4>2, <4>4, <4>5, <4>6
      <4> QED BY <4>4, <4>5, <4>7, <4>8
    <3> QED BY <3>2, <3>3
  <2>3. N \in 0 .. N /\ N \notin Low
    BY <1>2, <2>2
  <2>4. down[N] \in X /\ x < down[N] /\ down[N] + N =< N
    BY <2>3
  <2>5. down[N] \in Nat /\ N \in Nat
    BY <1>2, <2>0, <2>4
  <2> HIDE DEF N
  <2> QED BY <2>0, <2>4, <2>5
<1> QED BY <1>10, <1>11

-----------------------------------------------------------------------------
\* The strengthened types give the type invariant of Arena.
LEMMA TypeIs == ArTypeOK => TypeOK
<1> SUFFICES ASSUME ArTypeOK PROVE TypeOK
  OBVIOUS
<1>1. \A s \in Slots, c \in Offsets : hdr[s][c] \in Headers
  BY DEF ArTypeOK, ArraysOK
<1>2. \A f \in frames : f.slot \in Slots /\ f.cur \in Offsets
  BY DEF ArTypeOK, HeldOK, Frames
<1> QED BY <1>1, <1>2 DEF ArTypeOK, ArraysOK, HeldOK, TypeOK, Headers

(* The invariant gives what the run checks. *)
LEMMA InvGives == ArIInv => ArenaSound
<1> SUFFICES ASSUME ArIInv PROVE ArenaSound
  OBVIOUS
<1>1. ArTypeOK /\ TypeOK /\ LiveMapped /\ FramesLive /\ ChainsGood
  BY TypeIs DEF ArIInv, MapsApart
<1>2. ALIGN \in Nat /\ ALIGN > 0 /\ Offsets \subseteq Nat /\ None \notin Nat
  BY AlignAssumption, MaxCapIs, NoneAssumption DEF Offsets
<1>3. ChainOK
  <2>1. ASSUME NEW s \in Slots, Sound(s)
        PROVE  /\ \A c \in Chain(s) : /\ hdr[s][c].kind = "frame"
                                      /\ c + ALIGN < off[s]
                                      /\ hdr[s][c].prev = None \/ hdr[s][c].prev + ALIGN < c
               /\ \A f \in frames : f.slot = s => f.cur \in Chain(s) /\ ~hdr[s][f.cur].dead
    <3>1. PICK X \in SUBSET Offsets : Linked(s, X) /\ Framed(s, X)
      BY <1>1, <2>1 DEF ChainsGood, ChainGood, Sound
    <3>2. ~wiped[s] /\ off[s] \in Nat
      BY <1>1, <2>1 DEF Sound, TypeOK
    <3>3. Chain(s) = X
      BY <1>1, <3>1, <3>2, ChainIs
    <3>4. ASSUME NEW c \in X PROVE c + ALIGN < off[s]
      <4>1. c < off[s] /\ Highest(X, off[s], top[s]) /\ c \in Nat
        BY <1>2, <3>1 DEF Linked
      <4>2. ~(c >= off[s])
        BY <3>2, <4>1
      <4>3. top[s] \in X /\ top[s] + ALIGN < off[s] /\ c =< top[s]
        BY <4>1, <4>2, Zenon DEF Highest
      <4>4. top[s] \in Nat
        BY <1>2, <4>3
      <4> QED BY <1>2, <3>2, <4>1, <4>3, <4>4
    <3>5. ASSUME NEW c \in X
          PROVE  hdr[s][c].kind = "frame" /\ (hdr[s][c].prev = None \/ hdr[s][c].prev + ALIGN < c)
      BY <3>1, <3>2 DEF Linked, Highest
    <3>6. \A f \in frames : f.slot = s => f.cur \in X /\ ~hdr[s][f.cur].dead
      BY <3>1 DEF Framed
    <3> QED BY <3>3, <3>4, <3>5, <3>6
  <2> QED BY <2>1 DEF ChainOK
<1>4. FramesDisjoint
  <2> SUFFICES ASSUME NEW f \in frames, ~crossed[f.slot]
               PROVE  /\ f.end =< cap[f.slot]
                      /\ \A g \in frames : f.slot = g.slot => f = g \/ f.end =< g.cur \/ g.end =< f.cur
    BY DEF FramesDisjoint
  <2>1. f.slot \in Slots /\ live[f.slot] /\ \A g \in frames : g.cur \in Nat
    BY <1>1, <1>2 DEF ArTypeOK, HeldOK, Frames, FramesLive
  <2>2. PICK X \in SUBSET Offsets : Framed(f.slot, X)
    BY <1>1, <2>1 DEF ChainsGood, ChainGood
  <2>3. ASSUME NEW g \in frames, f.slot = g.slot PROVE f = g \/ f.end =< g.cur \/ g.end =< f.cur
    <3>1. f.cur \in X /\ g.cur \in X
      BY <2>2, <2>3 DEF Framed
    <3>2. g.cur =< f.cur \/ f.end =< g.cur
      BY <2>2, <3>1 DEF Framed
    <3>3. f.cur =< g.cur \/ g.end =< f.cur
      BY <2>2, <2>3, <3>1 DEF Framed
    <3>4. g.cur = f.cur => g = f
      BY <2>2, <2>3 DEF Framed
    <3> QED BY <2>1, <3>2, <3>3, <3>4
  <2> QED BY <2>2, <2>3 DEF Framed
<1> QED BY <1>1, <1>3, <1>4 DEF ArenaSound

(* It holds at the start. *)
LEMMA ArInitial == Init => ArIInv
<1> SUFFICES ASSUME Init PROVE ArIInv
  OBVIOUS
<1>1. 0 \in 0 .. MaxGen /\ 0 \in 0 .. MaxOff /\ CK_MAX \in Nat /\ Len(<<>>) = 0
  BY BoundAssumption, EmptySeq
<1>2. Taken = {}
  BY EmptySeq DEF Init, Taken, Carrying
<1>3. ArTypeOK
  <2>1. ArraysOK
    BY <1>1 DEF Init, ArraysOK, Zero, Headers
  <2>2. HeldOK
    BY <1>1, EmptySeq DEF Init, HeldOK, Carrying
  <2> QED BY <2>1, <2>2 DEF ArTypeOK
<1>4. EntriesTrue /\ FramesLive /\ MapsApart /\ ChainsGood
  BY <1>2 DEF Init, EntriesTrue, FramesLive, MapsApart, LiveMapped, ChainsGood
<1> QED BY <1>3, <1>4 DEF ArIInv

-----------------------------------------------------------------------------
(***************************************************************************)
(* Types.                                                                  *)
(***************************************************************************)
(* A frame has a header and a payload. *)
LEMMA FramesAre ==
  ASSUME HeldOK, NEW f \in frames
  PROVE  f.slot \in Slots /\ f.cur \in Nat /\ f.end \in Nat /\ f.cur < f.end /\ f.end > 0
<1>1. f.slot \in Slots /\ f.cur \in Nat /\ f.end \in Nat /\ f.cur < f.end
  BY OffsetsAre DEF HeldOK, Frames
<1> QED BY <1>1

(* The entries a rewind ages stay entries. *)
LEMMA AgedTypes ==
  ASSUME HeldOK, NEW s \in Slots, NEW o \in Nat
  PROVE  /\ \A k \in Entries : AgedEntry(k, s, o) \in Entries
         /\ Aged(ck, s, o) \in Seq(Entries) /\ Len(Aged(ck, s, o)) = Len(ck)
         /\ DOMAIN Aged(ck, s, o) = DOMAIN ck
         /\ DOMAIN AgedLoc(s, o) = Threads
         /\ \A t \in Threads : Carrying(t) => AgedLoc(s, o)[t] = AgedEntry(loc[t], s, o)
         /\ \A t \in Threads : ~Carrying(t) => AgedLoc(s, o)[t] = loc[t]
<1>1. \A k \in Entries : AgedEntry(k, s, o) \in Entries
  BY DEF AgedEntry, Entries
<1>2. Aged(ck, s, o) \in Seq(Entries) /\ Len(Aged(ck, s, o)) = Len(ck) /\ DOMAIN Aged(ck, s, o) = DOMAIN ck
  <2>1. ck \in Seq(Entries) /\ Len(ck) \in Nat /\ DOMAIN ck = 1 .. Len(ck)
    BY DEF HeldOK
  <2>2. ASSUME NEW i \in 1 .. Len(ck) PROVE AgedEntry(ck[i], s, o) \in Entries
    BY <1>1, <2>1
  <2>3. Aged(ck, s, o) = [i \in 1 .. Len(ck) |-> AgedEntry(ck[i], s, o)]
    BY <2>1 DEF Aged
  <2>4. Aged(ck, s, o) \in [1 .. Len(ck) -> Entries]
    BY <2>2, <2>3
  <2> QED BY <2>1, <2>4, SeqDef
<1>3. /\ DOMAIN AgedLoc(s, o) = Threads
      /\ \A t \in Threads : Carrying(t) => AgedLoc(s, o)[t] = AgedEntry(loc[t], s, o)
      /\ \A t \in Threads : ~Carrying(t) => AgedLoc(s, o)[t] = loc[t]
  BY DEF AgedLoc, Carrying
<1> QED BY <1>1, <1>2, <1>3

(* Where an operation makes an arena: fresh memory, nothing in it. *)
LEMMA CreateTypes ==
  ASSUME ArTypeOK, NEW t \in Threads, NEW s \in Slots, NEW c \in Caps, NEW m \in Regions, Create(t, s, c, m)
  PROVE  ArTypeOK'
<1>1. ArraysOK'
  <2>1. gen[s] + 1 \in 0 .. MaxGen /\ [x \in Offsets |-> Zero] \in [Offsets -> Headers] /\ 0 \in 0 .. MaxOff
    BY BoundAssumption DEF ArTypeOK, ArraysOK, Create, Zero, Headers
  <2> QED BY <2>1 DEF ArTypeOK, ArraysOK, Create
<1>2. HeldOK'
  BY DEF ArTypeOK, HeldOK, Create, Carrying
<1> QED BY <1>1, <1>2 DEF ArTypeOK

\* oo_arena_attach and oo_arena_detach keep the types.
LEMMA AttachTypes ==
  ASSUME ArTypeOK, NEW t \in Threads,
         (\E s \in Slots : Attach(t, s)) \/ Detach(t)
  PROVE  ArTypeOK'
<1>1. ArraysOK'
  BY DEF ArTypeOK, ArraysOK, Attach, Detach, arVars
<1>2. active' \in [Threads -> Slots \cup {None}]
  BY DEF ArTypeOK, HeldOK, Attach, Detach
<1>3. HeldOK'
  BY <1>2 DEF ArTypeOK, HeldOK, Attach, Detach, Carrying
<1> QED BY <1>1, <1>3 DEF ArTypeOK

\* oo_arena_alloc keeps the types.
LEMMA RawTypes ==
  ASSUME ArTypeOK, NEW t \in Threads, NEW s \in Slots, NEW n \in RawSizes, RawAlloc(t, s, n)
  PROVE  ArTypeOK'
<1> DEFINE o == RoundUp(off[s])
<1>1. off[s] \in Nat /\ o \in Nat /\ n \in Nat /\ MaxOff \in Nat
  BY Rounds, SizesAssumption, BoundAssumption DEF ArTypeOK, ArraysOK
<1>2. o + n =< MaxOff /\ \/ off' = [off EXCEPT ![s] = o] /\ raw' = raw
                         \/ /\ off' = [off EXCEPT ![s] = o + n]
                            /\ raw' = [raw EXCEPT ![s] = IF o + n > @ THEN o + n ELSE @]
  BY DEF RawAlloc
<1>3. off' \in [Slots -> Nat] /\ raw' \in [Slots -> 0 .. MaxOff]
  <2> DEFINE e == IF o + n > raw[s] THEN o + n ELSE raw[s]
  <2>1. off \in [Slots -> Nat] /\ raw \in [Slots -> 0 .. MaxOff]
    BY DEF ArTypeOK, ArraysOK
  <2>2. e \in 0 .. MaxOff /\ o + n \in Nat
    BY <1>1, <1>2, <2>1
  <2>3. off' = [off EXCEPT ![s] = o] \/ off' = [off EXCEPT ![s] = o + n]
    BY <1>2
  <2>4. raw' = raw \/ raw' = [raw EXCEPT ![s] = e]
    BY <1>2, <2>1
  <2> HIDE DEF o, e
  <2> QED BY <1>1, <2>1, <2>2, <2>3, <2>4
<1>4. ArraysOK'
  BY <1>3 DEF ArTypeOK, ArraysOK, RawAlloc
<1>5. HeldOK'
  BY DEF ArTypeOK, HeldOK, RawAlloc, Carrying
<1> QED BY <1>4, <1>5 DEF ArTypeOK

\* oo_arena_alloc_payload keeps the types: a frame that fits ends within the capacity.
LEMMA AllocTypes ==
  ASSUME ArTypeOK, NEW t \in Threads, NEW n \in Sizes, AllocPayload(t, n)
  PROVE  ArTypeOK'
<1> DEFINE s == active[t]
           cur == RoundUp(off[s])
           end == cur + ALIGN + n
<1>1. s \in Slots /\ live[s] /\ end =< cap[s]
  BY DEF ArTypeOK, HeldOK, AllocPayload
<1>2. /\ off[s] \in Nat /\ cur \in Nat /\ cur >= off[s] /\ n \in Nat /\ n > 0 /\ ALIGN \in Nat /\ ALIGN > 0
      /\ cap[s] \in Nat /\ cap[s] =< MaxCap /\ top[s] \in Offsets \cup {None} /\ MaxCap \in Nat
  BY <1>1, Rounds, SizesAssumption, AlignAssumption, MaxCapIs DEF ArTypeOK, ArraysOK
<1>3. end \in Nat /\ cur < end /\ cur \in Offsets /\ RoundUp(end) \in Nat
  BY <1>1, <1>2, Rounds DEF Offsets
<1> HIDE DEF cur, end
<1> DEFINE h == [c \in Offsets |-> IF c = cur THEN Header(top[s])
                                   ELSE IF c > cur /\ c < end THEN Garbage ELSE hdr[s][c]]
<1>4. h \in [Offsets -> Headers]
  BY <1>1, <1>2 DEF Header, Garbage, Headers, ArTypeOK, ArraysOK
<1>5. /\ hdr' = [hdr EXCEPT ![s] = h] /\ off' = [off EXCEPT ![s] = RoundUp(end)]
      /\ top' = [top EXCEPT ![s] = cur] /\ frames' = frames \cup {[slot |-> s, cur |-> cur, end |-> end]}
  BY <1>1 DEF AllocPayload, cur, end, ArTypeOK, ArraysOK
<1> HIDE DEF h
<1>6. ArraysOK'
  BY <1>1, <1>3, <1>4, <1>5 DEF ArTypeOK, ArraysOK, AllocPayload
<1>7. frames' \subseteq Frames
  BY <1>1, <1>3, <1>5 DEF Frames, ArTypeOK, HeldOK
<1>8. HeldOK'
  BY <1>7 DEF ArTypeOK, HeldOK, AllocPayload, Carrying
<1> QED BY <1>6, <1>8 DEF ArTypeOK

\* oo_arena_free_payload keeps the types, whatever its walk reads.
LEMMA FreeTypes ==
  ASSUME ArTypeOK, NEW t \in Threads, NEW f \in frames, Free(t, f)
  PROVE  ArTypeOK'
<1> DEFINE s == f.slot
           h == [hdr[s] EXCEPT ![f.cur].dead = TRUE]
           w == Walk(h, [off |-> off[s], top |-> top[s]])
<1>1. s \in Slots /\ f.cur \in Offsets
  BY DEF ArTypeOK, HeldOK, Frames
<1>2. hdr[s] \in [Offsets -> Headers] /\ off[s] \in Nat /\ top[s] \in Offsets \cup {None}
  BY <1>1 DEF ArTypeOK, ArraysOK
<1>3. h \in [Offsets -> Headers]
  BY <1>1, <1>2 DEF Headers
<1>4. w \in WalkStates
  <2> DEFINE start == [off |-> off[s], top |-> top[s]]
  <2>1. start \in WalkStates
    BY <1>2 DEF WalkStates
  <2>2. \A v \in WalkStates : DeadTop(h, v.top) => [off |-> v.top, top |-> h[v.top].prev] \in WalkStates
    BY <1>3, MaxCapIs DEF WalkStates, DeadTop, Headers, Offsets
  <2> HIDE DEF h, start
  <2>3. Walk(h, start) \in WalkStates
    BY <1>3, <2>1, <2>2, WalkReaches
  <2> QED BY <2>3 DEF start
<1>5. PICK j \in WalkStates : /\ off' = [off EXCEPT ![s] = j.off] /\ top' = [top EXCEPT ![s] = j.top]
                              /\ Rewind(s, j.off)
  <2>1. Junk \subseteq WalkStates
    BY JunkAssumption DEF WalkStates
  <2>2. \/ off' = [off EXCEPT ![s] = w.off] /\ top' = [top EXCEPT ![s] = w.top] /\ Rewind(s, w.off)
        \/ \E j \in Junk : off' = [off EXCEPT ![s] = j.off] /\ top' = [top EXCEPT ![s] = j.top] /\ Rewind(s, j.off)
    BY DEF Free
  <2> HIDE DEF s, w
  <2> QED BY <1>4, <2>1, <2>2
<1>6. hdr' = [hdr EXCEPT ![s] = h] /\ frames' = frames \ {f}
  BY DEF Free
<1>7. ArraysOK'
  <2>1. ArraysOK /\ j.off \in Nat /\ j.top \in Offsets \cup {None}
    BY DEF ArTypeOK, WalkStates
  <2>2. UNCHANGED <<live, base, cap, gen, raw, crossed, wiped>>
    BY DEF Free
  <2> HIDE DEF h, w, s
  <2>3. /\ off' \in [Slots -> Nat] /\ top' \in [Slots -> Offsets \cup {None}]
        /\ hdr' \in [Slots -> [Offsets -> Headers]]
    BY <1>1, <1>3, <1>5, <1>6, <2>1 DEF ArraysOK
  <2> QED BY <2>1, <2>2, <2>3 DEF ArraysOK
<1>8. HeldOK'
  <2>1. j.off \in Nat /\ HeldOK
    BY DEF WalkStates, ArTypeOK
  <2>2. ck' = Aged(ck, s, j.off) /\ loc' = AgedLoc(s, j.off) /\ pc' = pc /\ active' = active /\ mapped' = mapped
    BY <1>5 DEF Rewind, Free
  <2>3. ck' \in Seq(Entries) /\ Len(ck') =< CK_MAX /\ DOMAIN loc' = Threads
    BY <1>1, <2>1, <2>2, AgedTypes DEF HeldOK
  <2>4. ASSUME NEW u \in Threads, Carrying(u)' PROVE loc'[u] \in Entries
    BY <1>1, <2>1, <2>2, <2>4, AgedTypes DEF HeldOK, Carrying
  <2> QED BY <1>6, <2>1, <2>2, <2>3, <2>4 DEF HeldOK
<1> QED BY <1>7, <1>8 DEF ArTypeOK

\* A free of a block the arena does not know changes nothing.
LEMMA UnknownTypes ==
  ASSUME ArTypeOK, NEW t \in Threads, NEW f \in frames, FreeUnknown(t, f)
  PROVE  ArTypeOK'
BY DEF ArTypeOK, ArraysOK, HeldOK, FreeUnknown, Carrying, arVars

\* oo_arena_reset keeps the types.
LEMMA ResetTypes ==
  ASSUME ArTypeOK, NEW t \in Threads, NEW s \in Slots, Reset(t, s)
  PROVE  ArTypeOK'
<1>1. ArraysOK'
  <2>1. 0 \in 0 .. MaxOff
    BY BoundAssumption
  <2> QED BY <2>1 DEF ArTypeOK, ArraysOK, Reset
<1>2. HeldOK'
  <2>0. HeldOK
    BY DEF ArTypeOK
  <2>1. /\ ck' = Aged(ck, s, 0) /\ loc' = [AgedLoc(s, 0) EXCEPT ![t] = base[s]]
        /\ pc' = [pc EXCEPT ![t] = "madvise"] /\ mapped' = mapped
    BY DEF Reset
  <2>2. active' \in [Threads -> Slots \cup {None}] /\ frames' \subseteq Frames
    BY <2>0 DEF Reset, OnDestroy, DropFrames, HeldOK
  <2>3. ck' \in Seq(Entries) /\ Len(ck') =< CK_MAX /\ DOMAIN loc' = Threads
    BY <2>0, <2>1, AgedTypes DEF HeldOK
  <2>4. ASSUME NEW u \in Threads, Carrying(u)' PROVE loc'[u] \in Entries
    <3>1. u # t /\ Carrying(u)
      BY <2>0, <2>1, <2>4 DEF HeldOK, Carrying
    <3>2. loc'[u] = AgedLoc(s, 0)[u]
      BY <2>1, <3>1, <2>0, AgedTypes
    <3> QED BY <2>0, <3>1, <3>2, AgedTypes DEF HeldOK
  <2> QED BY <2>0, <2>1, <2>2, <2>3, <2>4 DEF HeldOK
<1> QED BY <1>1, <1>2 DEF ArTypeOK

\* The madvise after a reset keeps the types.
LEMMA AdviseTypes ==
  ASSUME ArTypeOK, NEW t \in Threads, ResetAdvise(t)
  PROVE  ArTypeOK'
<1>1. hdr' \in [Slots -> [Offsets -> Headers]] /\ wiped' \in [Slots -> BOOLEAN]
  <2>1. [c \in Offsets |-> Zero] \in [Offsets -> Headers]
    BY DEF Zero, Headers
  <2> QED BY <2>1 DEF ArTypeOK, ArraysOK, ResetAdvise
<1>2. ArraysOK'
  BY <1>1 DEF ArTypeOK, ArraysOK, ResetAdvise, arVars
<1>3. HeldOK'
  BY DEF ArTypeOK, HeldOK, ResetAdvise, Goto, Carrying
<1> QED BY <1>2, <1>3 DEF ArTypeOK

\* Both sections of oo_arena_destroy keep the types.
LEMMA DestroyTypes ==
  ASSUME ArTypeOK, NEW t \in Threads, (\E s \in Slots : Destroy(t, s)) \/ DestroyUnmap(t)
  PROVE  ArTypeOK'
<1>1. CASE \E s \in Slots : Destroy(t, s)
  <2>1. PICK s \in Slots : Destroy(t, s)
    BY <1>1
  <2>2. ArraysOK'
    BY <2>1 DEF ArTypeOK, ArraysOK, Destroy
  <2>3. HeldOK'
    BY <2>1 DEF ArTypeOK, HeldOK, Destroy, Goto, Carrying, OnDestroy, DropFrames
  <2> QED BY <2>2, <2>3 DEF ArTypeOK
<1>2. CASE DestroyUnmap(t)
  <2>2. ArraysOK'
    BY <1>2 DEF ArTypeOK, ArraysOK, DestroyUnmap, arVars
  <2>3. HeldOK'
    BY <1>2 DEF ArTypeOK, HeldOK, DestroyUnmap, Goto, Carrying
  <2> QED BY <2>2, <2>3 DEF ArTypeOK
<1> QED BY <1>1, <1>2

\* Taking, pushing, popping and refusing a checkpoint keep the types.
LEMMA CkTypes ==
  ASSUME ArTypeOK, NEW t \in Threads,
         (\E s \in Slots : Snap(t, s)) \/ Push(t) \/ Pop(t) \/ RestoreRefused(t)
  PROVE  ArTypeOK'
<1>1. ArraysOK'
  BY DEF ArTypeOK, ArraysOK, Snap, Push, Pop, RestoreRefused, arVars
<1>2. HeldOK /\ ArraysOK /\ CK_MAX \in Nat
  BY BoundAssumption DEF ArTypeOK
<1>3. CASE \E s \in Slots : Snap(t, s)
  <2>1. PICK s \in Slots : Snap(t, s)
    BY <1>3
  <2>2. [id |-> s, off |-> off[s], gen |-> gen[s], top |-> top[s], intact |-> ~crossed[s]] \in Entries
    BY <1>2 DEF ArraysOK, Entries
  <2> QED BY <1>1, <1>2, <2>1, <2>2 DEF ArTypeOK, HeldOK, Snap, Goto, Carrying
<1>4. CASE Push(t)
  <2>1. ck' \in Seq(Entries) /\ Len(ck') =< CK_MAX
    BY <1>2, <1>4 DEF HeldOK, Push, Carrying
  <2> QED BY <1>1, <1>2, <1>4, <2>1 DEF ArTypeOK, HeldOK, Push, Goto, Carrying
<1>5. CASE Pop(t)
  <2>1. /\ Last(ck) \in Entries /\ Front(ck) \in Seq(Entries) /\ Len(Front(ck)) =< CK_MAX
    BY <1>2, <1>5 DEF HeldOK, Pop, Last, Front
  <2>2. ck' = Front(ck) /\ Goto(t, "restore", Last(ck)) /\ frames' = frames /\ active' = active /\ mapped' = mapped
    BY <1>5 DEF Pop
  <2> QED BY <1>1, <1>2, <2>1, <2>2 DEF ArTypeOK, HeldOK, Goto, Carrying
<1>6. CASE RestoreRefused(t)
  BY <1>1, <1>2, <1>6 DEF ArTypeOK, HeldOK, RestoreRefused, Goto, Carrying
<1> QED BY <1>3, <1>4, <1>5, <1>6

\* oo_arena_restore keeps the types.
LEMMA RestoreTypes ==
  ASSUME ArTypeOK, NEW t \in Threads, Restore(t)
  PROVE  ArTypeOK'
<1> DEFINE k == loc[t]
           s == k.id
<1>1. k \in Entries /\ s \in Slots /\ k.off \in Nat /\ k.top \in Offsets \cup {None}
  BY DEF ArTypeOK, HeldOK, Carrying, Restore, Entries
<1>2. /\ off' = [off EXCEPT ![s] = k.off] /\ top' = [top EXCEPT ![s] = k.top] /\ DropFrames(s, k.off)
      /\ crossed' = [crossed EXCEPT ![s] = @ \/ ~k.intact] /\ ck' = Aged(ck, s, k.off)
      /\ loc' = [AgedLoc(s, k.off) EXCEPT ![t] = None] /\ pc' = [pc EXCEPT ![t] = "idle"]
      /\ UNCHANGED <<live, base, cap, gen, hdr, raw, active, mapped, wiped>>
  BY DEF Restore
<1> HIDE DEF k, s
<1>3. ArraysOK'
  BY <1>1, <1>2 DEF ArTypeOK, ArraysOK
<1>4. HeldOK'
  <2>0. HeldOK
    BY DEF ArTypeOK
  <2>2. frames' \subseteq Frames
    BY <1>2, <2>0 DEF DropFrames, HeldOK
  <2>3. ck' \in Seq(Entries) /\ Len(ck') =< CK_MAX /\ DOMAIN loc' = Threads
    BY <1>1, <1>2, <2>0, AgedTypes DEF HeldOK
  <2>4. ASSUME NEW u \in Threads, Carrying(u)' PROVE loc'[u] \in Entries
    <3>1. u # t /\ Carrying(u)
      BY <1>2, <2>0, <2>4 DEF HeldOK, Carrying
    <3>2. loc'[u] = AgedLoc(s, k.off)[u]
      BY <1>1, <1>2, <2>0, <3>1, AgedTypes
    <3> QED BY <1>1, <2>0, <3>1, <3>2, AgedTypes DEF HeldOK
  <2> QED BY <1>2, <2>0, <2>2, <2>3, <2>4 DEF HeldOK
<1> QED BY <1>3, <1>4 DEF ArTypeOK

\* Every step keeps the types.
LEMMA ArTypeStep == ArTypeOK /\ Next => ArTypeOK'
BY CreateTypes, AttachTypes, RawTypes, AllocTypes, FreeTypes, UnknownTypes, ResetTypes, AdviseTypes,
   DestroyTypes, CkTypes, RestoreTypes DEF Next

-----------------------------------------------------------------------------
(***************************************************************************)
(* Checkpoints.                                                            *)
(***************************************************************************)
\* A step keeps some of the entries, and those above o of slot s not intact.
Ageing(s, o) ==
  \A k \in Taken' : \E j \in Taken : /\ k.id = j.id /\ k.gen = j.gen
                                     /\ k.intact => k = j /\ (k.id = s => k.off =< o)

\* The checkpoints taken, on the stack or carried by a call, are entries.
LEMMA TakenAre ==
  ASSUME HeldOK
  PROVE  Taken \subseteq Entries
BY DEF HeldOK, Taken

\* A rewind of slot s to o leaves intact only checkpoints at or below o.
LEMMA RewindAges ==
  ASSUME HeldOK, NEW s \in Slots, NEW o \in Nat, ck' = Aged(ck, s, o),
         \A u \in Threads : Carrying(u)' => Carrying(u) /\ loc'[u] = AgedLoc(s, o)[u]
  PROVE  Ageing(s, o)
<1>1. ASSUME NEW k \in Taken PROVE
        LET a == AgedEntry(k, s, o)
        IN  a.id = k.id /\ a.gen = k.gen /\ (a.intact => a = k /\ (a.id = s => a.off =< o))
  <2>1. k \in Entries
    BY TakenAre
  <2> QED BY <2>1 DEF AgedEntry, Entries
<1> SUFFICES ASSUME NEW k \in Taken' PROVE \E j \in Taken : k = AgedEntry(j, s, o)
  BY <1>1 DEF Ageing
<1>2. CASE \E i \in DOMAIN ck' : k = ck'[i]
  <2>1. PICK i \in DOMAIN ck' : k = ck'[i]
    BY <1>2
  <2>2. i \in DOMAIN ck /\ ck'[i] = AgedEntry(ck[i], s, o)
    BY <2>1, AgedTypes DEF Aged
  <2> QED BY <2>1, <2>2 DEF Taken
<1>3. CASE \E u \in Threads : Carrying(u)' /\ k = loc'[u]
  <2>1. PICK u \in Threads : Carrying(u)' /\ k = loc'[u]
    BY <1>3
  <2>2. Carrying(u) /\ loc'[u] = AgedEntry(loc[u], s, o)
    BY <2>1, AgedTypes
  <2> QED BY <2>1, <2>2 DEF Taken
<1> QED BY <1>2, <1>3 DEF Taken

(* Intact entries of a slot that stay are the ones there were. *)
LEMMA AgeingMarks ==
  ASSUME HeldOK, HeldOK', ArraysOK, EntriesTrue, gen' = gen, NEW s \in Slots, NEW o \in Nat, Ageing(s, o)
  PROVE  /\ EntriesTrue' /\ \A r \in Slots : Marks(r)' \subseteq Marks(r)
         /\ \A k \in Marks(s)' : k.off =< o
<1>1. EntriesTrue'
  BY DEF EntriesTrue, Ageing
<1>2. ASSUME NEW r \in Slots, NEW k \in Marks(r)' PROVE k \in Marks(r) /\ (r = s => k.off =< o)
  <2>1. k \in Taken' /\ k.intact /\ k.id = r /\ k.gen = gen[r]
    BY DEF Marks
  <2> QED BY <2>1 DEF Ageing, Marks
<1> QED BY <1>1, <1>2

\* A step that takes no checkpoint has no new mark to account for.
LEMMA FewerMarks ==
  ASSUME EntriesTrue, gen' = gen, Taken' \subseteq Taken
  PROVE  EntriesTrue' /\ \A r \in Slots : Marks(r)' \subseteq Marks(r)
BY DEF EntriesTrue, Marks

\* Steps that take no checkpoint: the entries are left alone, moved or dropped.
LEMMA TakenStay ==
  ASSUME HeldOK, NEW t \in Threads,
         \/ UNCHANGED <<ck, pc, loc>>
         \/ Push(t) \/ Pop(t) \/ RestoreRefused(t) \/ ResetAdvise(t) \/ DestroyUnmap(t)
         \/ \E s \in Slots : Destroy(t, s)
  PROVE  Taken' \subseteq Taken
<1> SUFFICES ASSUME NEW k \in Taken' PROVE k \in Taken
  OBVIOUS
<1>1. CASE UNCHANGED <<ck, pc, loc>>
  BY <1>1 DEF Taken, Carrying
<1>2. CASE Push(t)
  <2>1. CASE \E i \in DOMAIN ck' : k = ck'[i]
    <3>1. PICK i \in DOMAIN ck' : k = ck'[i]
      BY <2>1
    <3>2. ck'[i] = loc[t] \/ (i \in DOMAIN ck /\ ck'[i] = ck[i])
      BY <1>2, <3>1 DEF Push, HeldOK, Carrying
    <3>3. Carrying(t)
      BY <1>2 DEF Push, Carrying
    <3> QED BY <3>1, <3>2, <3>3 DEF Taken
  <2>2. CASE \E u \in Threads : Carrying(u)' /\ k = loc'[u]
    BY <1>2, <2>2 DEF Push, Goto, HeldOK, Carrying, Taken
  <2> QED BY <2>1, <2>2 DEF Taken
<1>3. CASE Pop(t)
  <2>0. Last(ck) \in Taken /\ \A i \in DOMAIN Front(ck) : Front(ck)[i] \in Taken
    <3>1. /\ Len(ck) \in DOMAIN ck /\ Last(ck) = ck[Len(ck)]
          /\ \A i \in DOMAIN Front(ck) : i \in DOMAIN ck /\ Front(ck)[i] = ck[i]
      BY <1>3 DEF Pop, HeldOK, Last, Front
    <3> QED BY <3>1 DEF Taken
  <2>1. CASE \E i \in DOMAIN ck' : k = ck'[i]
    BY <1>3, <2>0, <2>1 DEF Pop
  <2>2. CASE \E u \in Threads : Carrying(u)' /\ k = loc'[u]
    <3>1. PICK u \in Threads : Carrying(u)' /\ k = loc'[u]
      BY <2>2
    <3>2. (u = t /\ k = Last(ck)) \/ (Carrying(u) /\ k = loc[u])
      BY <1>3, <3>1 DEF Pop, Goto, HeldOK, Carrying
    <3> QED BY <2>0, <3>2 DEF Taken
  <2> QED BY <2>1, <2>2 DEF Taken
<1>4. CASE RestoreRefused(t) \/ ResetAdvise(t) \/ DestroyUnmap(t) \/ \E s \in Slots : Destroy(t, s)
  <2>1. ck' = ck /\ \A u \in Threads : Carrying(u)' => Carrying(u) /\ loc'[u] = loc[u]
    BY <1>4 DEF RestoreRefused, ResetAdvise, DestroyUnmap, Destroy, Goto, HeldOK, Carrying
  <2> QED BY <2>1 DEF Taken
<1> QED BY <1>1, <1>2, <1>3, <1>4

-----------------------------------------------------------------------------
(***************************************************************************)
(* Regions, and the arenas of frames.                                      *)
(***************************************************************************)
LEMMA MapsStay ==
  ASSUME MapsApart, live' = live, base' = base, mapped' = mapped,
         \A u \in Threads : pc'[u] = "munmap" => pc[u] = "munmap" /\ loc'[u] = loc[u]
  PROVE  MapsApart'
BY DEF MapsApart, LiveMapped

\* Every step keeps mappings apart: an address is unmapped only by the destroy that owns it.
LEMMA MapsStep == ArTypeOK /\ MapsApart /\ Next => MapsApart'
<1> SUFFICES ASSUME ArTypeOK, MapsApart, Next PROVE MapsApart'
  OBVIOUS
<1>0. ArraysOK /\ HeldOK
  BY DEF ArTypeOK
<1>1. PICK t \in Threads :
          \/ \E s \in Slots :
               \/ \E c \in Caps, m \in Regions : Create(t, s, c, m)
               \/ Attach(t, s) \/ Reset(t, s) \/ Destroy(t, s) \/ Snap(t, s)
               \/ \E n \in RawSizes : RawAlloc(t, s, n)
          \/ Detach(t)
          \/ \E n \in Sizes : AllocPayload(t, n)
          \/ \E f \in frames : Free(t, f) \/ FreeUnknown(t, f)
          \/ ResetAdvise(t) \/ DestroyUnmap(t)
          \/ Push(t) \/ Pop(t) \/ Restore(t) \/ RestoreRefused(t)
  BY DEF Next
<1>2. ASSUME NEW s \in Slots, NEW c \in Caps, NEW m \in Regions, Create(t, s, c, m) PROVE MapsApart'
  <2>1. /\ m \notin mapped /\ mapped' = mapped \cup {m} /\ base' = [base EXCEPT ![s] = m]
        /\ live' = [live EXCEPT ![s] = TRUE] /\ pc' = pc /\ loc' = loc
    BY <1>2 DEF Create
  <2>2. LiveMapped'
    BY <1>0, <2>1 DEF MapsApart, LiveMapped, ArraysOK
  <2>3. ASSUME NEW u \in Threads, pc'[u] = "munmap"
        PROVE  /\ loc'[u] \in mapped' /\ \A r \in Slots : live'[r] => base'[r] # loc'[u]
               /\ \A v \in Threads : pc'[v] = "munmap" /\ loc'[v] = loc'[u] => v = u
    BY <1>0, <2>1, <2>3 DEF MapsApart, ArraysOK
  <2> QED BY <2>2, <2>3 DEF MapsApart
<1>3. ASSUME NEW s \in Slots, Destroy(t, s) PROVE MapsApart'
  <2>1. /\ live[s] /\ base' = [base EXCEPT ![s] = None] /\ live' = [live EXCEPT ![s] = FALSE] /\ mapped' = mapped
        /\ pc' = [pc EXCEPT ![t] = "munmap"] /\ loc' = [loc EXCEPT ![t] = base[s]]
    BY <1>3 DEF Destroy, Goto
  <2>2. LiveMapped'
    BY <1>0, <2>1 DEF MapsApart, LiveMapped, ArraysOK
  <2>3. ASSUME NEW u \in Threads, pc'[u] = "munmap"
        PROVE  /\ loc'[u] \in mapped' /\ \A r \in Slots : live'[r] => base'[r] # loc'[u]
               /\ \A v \in Threads : pc'[v] = "munmap" /\ loc'[v] = loc'[u] => v = u
    BY <1>0, <2>1, <2>3 DEF MapsApart, LiveMapped, ArraysOK, HeldOK
  <2> QED BY <2>2, <2>3 DEF MapsApart
<1>4. ASSUME DestroyUnmap(t) PROVE MapsApart'
  <2>1. /\ pc[t] = "munmap" /\ mapped' = mapped \ {loc[t]} /\ live' = live /\ base' = base
        /\ pc' = [pc EXCEPT ![t] = "idle"] /\ loc' = [loc EXCEPT ![t] = None]
    BY <1>4 DEF DestroyUnmap, Goto, arVars
  <2>2. LiveMapped'
    BY <1>0, <2>1 DEF MapsApart, LiveMapped, ArraysOK
  <2>3. ASSUME NEW u \in Threads, pc'[u] = "munmap"
        PROVE  /\ loc'[u] \in mapped' /\ \A r \in Slots : live'[r] => base'[r] # loc'[u]
               /\ \A v \in Threads : pc'[v] = "munmap" /\ loc'[v] = loc'[u] => v = u
    BY <1>0, <2>1, <2>3 DEF MapsApart, HeldOK
  <2> QED BY <2>2, <2>3 DEF MapsApart
<1>5. ASSUME NEW s \in Slots, Reset(t, s) PROVE MapsApart'
  <2>1. \A u \in Threads : pc'[u] = "munmap" => pc[u] = "munmap" /\ loc'[u] = loc[u]
    <3> SUFFICES ASSUME NEW u \in Threads, pc'[u] = "munmap" PROVE pc[u] = "munmap" /\ loc'[u] = loc[u]
      OBVIOUS
    <3>1. u # t /\ pc[u] = "munmap" /\ loc'[u] = AgedLoc(s, 0)[u]
      BY <1>0, <1>5, AgedTypes DEF Reset, HeldOK
    <3> QED BY <1>0, <3>1, AgedTypes DEF Carrying
  <2> QED BY <1>5, <2>1, MapsStay DEF Reset
<1>6. ASSUME Restore(t) PROVE MapsApart'
  <2> DEFINE k == loc[t]
  <2>0. k.id \in Slots /\ k.off \in Nat
    BY <1>0, <1>6 DEF HeldOK, Carrying, Restore, Entries
  <2>1. \A u \in Threads : pc'[u] = "munmap" => pc[u] = "munmap" /\ loc'[u] = loc[u]
    <3> SUFFICES ASSUME NEW u \in Threads, pc'[u] = "munmap" PROVE pc[u] = "munmap" /\ loc'[u] = loc[u]
      OBVIOUS
    <3>1. loc' = [AgedLoc(k.id, k.off) EXCEPT ![t] = None] /\ pc' = [pc EXCEPT ![t] = "idle"]
      BY <1>6 DEF Restore
    <3> HIDE DEF k
    <3>2. u # t /\ pc[u] = "munmap" /\ loc'[u] = AgedLoc(k.id, k.off)[u]
      BY <1>0, <2>0, <3>1, AgedTypes DEF HeldOK
    <3> QED BY <1>0, <2>0, <3>2, AgedTypes DEF Carrying
  <2> QED BY <1>6, <2>1, MapsStay DEF Restore
<1>7. ASSUME NEW f \in frames, Free(t, f) PROVE MapsApart'
  <2>1. UNCHANGED <<live, base, pc, mapped>> /\ \E o : loc' = AgedLoc(f.slot, o)
    BY <1>7 DEF Free, Rewind
  <2>2. \A u \in Threads : pc'[u] = "munmap" => pc[u] = "munmap" /\ loc'[u] = loc[u]
    BY <2>1 DEF AgedLoc
  <2> QED BY <2>1, <2>2, MapsStay
<1>8. ASSUME \/ \E s \in Slots : Attach(t, s) \/ Snap(t, s) \/ \E n \in RawSizes : RawAlloc(t, s, n)
             \/ Detach(t) \/ (\E n \in Sizes : AllocPayload(t, n)) \/ \E f \in frames : FreeUnknown(t, f)
             \/ ResetAdvise(t) \/ Push(t) \/ Pop(t) \/ RestoreRefused(t)
      PROVE  MapsApart'
  <2>1. UNCHANGED <<live, base, mapped>>
    BY <1>8 DEF Attach, Snap, RawAlloc, Detach, AllocPayload, FreeUnknown, ResetAdvise, Push, Pop, RestoreRefused, arVars
  <2>2. \/ UNCHANGED <<pc, loc>>
        \/ \E l \in {"idle", "push", "restore"} : \E x : Goto(t, l, x)
    BY <1>8 DEF Attach, Snap, RawAlloc, Detach, AllocPayload, FreeUnknown, ResetAdvise, Push, Pop, RestoreRefused
  <2>3. \A u \in Threads : pc'[u] = "munmap" => pc[u] = "munmap" /\ loc'[u] = loc[u]
    BY <1>0, <2>2 DEF Goto, HeldOK
  <2> QED BY <2>1, <2>3, MapsStay
<1> QED BY <1>1, <1>2, <1>3, <1>4, <1>5, <1>6, <1>7, <1>8

\* Every step keeps frames inside live arenas.
LEMMA LiveStep == ArTypeOK /\ FramesLive /\ Next => FramesLive'
<1> SUFFICES ASSUME ArTypeOK, FramesLive, Next, NEW f \in frames' PROVE live'[f.slot]
  BY DEF FramesLive
<1>0. ArraysOK /\ HeldOK /\ \A g \in frames : g.slot \in Slots /\ g.end \in Nat /\ g.end > 0 /\ live[g.slot]
  BY FramesAre DEF ArTypeOK, FramesLive
<1>1. PICK t \in Threads :
          \/ \E s \in Slots :
               \/ \E c \in Caps, m \in Regions : Create(t, s, c, m)
               \/ Attach(t, s) \/ Reset(t, s) \/ Destroy(t, s) \/ Snap(t, s)
               \/ \E n \in RawSizes : RawAlloc(t, s, n)
          \/ Detach(t)
          \/ \E n \in Sizes : AllocPayload(t, n)
          \/ \E g \in frames : Free(t, g) \/ FreeUnknown(t, g)
          \/ ResetAdvise(t) \/ DestroyUnmap(t)
          \/ Push(t) \/ Pop(t) \/ Restore(t) \/ RestoreRefused(t)
  BY DEF Next
<1>2. CASE \E s \in Slots, c \in Caps, m \in Regions : Create(t, s, c, m)
  BY <1>0, <1>2 DEF Create, ArraysOK
<1>3. CASE \E s \in Slots : Destroy(t, s)
  <2>1. PICK s \in Slots : Destroy(t, s)
    BY <1>3
  <2>2. f \in frames /\ (f.slot # s \/ f.end =< 0)
    BY <2>1 DEF Destroy, DropFrames
  <2>3. f.slot # s
    BY <1>0, <2>2
  <2> QED BY <1>0, <2>1, <2>2, <2>3 DEF Destroy, ArraysOK
<1>4. CASE \E n \in Sizes : AllocPayload(t, n)
  BY <1>0, <1>4 DEF AllocPayload
<1>5. CASE \/ \E s \in Slots : Attach(t, s) \/ Snap(t, s) \/ Reset(t, s) \/ \E n \in RawSizes : RawAlloc(t, s, n)
           \/ Detach(t) \/ (\E g \in frames : Free(t, g) \/ FreeUnknown(t, g))
           \/ ResetAdvise(t) \/ DestroyUnmap(t) \/ Push(t) \/ Pop(t) \/ Restore(t) \/ RestoreRefused(t)
  <2>1. live' = live /\ frames' \subseteq frames
    BY <1>5 DEF Attach, Snap, RawAlloc, Reset, Detach, Free, FreeUnknown, ResetAdvise, DestroyUnmap, Push, Pop,
                Restore, RestoreRefused, DropFrames, arVars
  <2> QED BY <1>0, <2>1
<1> QED BY <1>1, <1>2, <1>3, <1>4, <1>5

-----------------------------------------------------------------------------
(***************************************************************************)
(* Chains.  An operation changes the chain of one slot: allocation adds a  *)
(* frame at the top, free and rollback take off what lies above the new    *)
(* offset.                                                                 *)
(***************************************************************************)
Untouched(s) ==
  /\ live'[s] = live[s] /\ crossed'[s] = crossed[s] /\ off'[s] = off[s] /\ top'[s] = top[s]
  /\ cap'[s] = cap[s] /\ hdr'[s] = hdr[s] /\ raw'[s] = raw[s] /\ wiped'[s] = wiped[s]
  /\ \A f : f.slot = s => (f \in frames' <=> f \in frames)
  /\ Marks(s)' \subseteq Marks(s)

\* A step that leaves a slot alone leaves its chain good.
LEMMA SlotStays ==
  ASSUME NEW s \in Slots, ChainGood(s), Untouched(s)
  PROVE  ChainGood(s)'
<1>1. PICK X \in SUBSET Offsets : Linked(s, X) /\ Framed(s, X) /\ Marked(s, X) /\ Full(s, X)
  BY DEF ChainGood
<1>2. Linked(s, X)'
  BY <1>1 DEF Linked, Untouched
<1>3. Framed(s, X)'
  BY <1>1 DEF Framed, Untouched
<1>4. Marked(s, X)'
  BY <1>1 DEF Marked, Untouched
<1>5. Full(s, X)'
  BY <1>1 DEF Full, Untouched
<1> QED BY <1>2, <1>3, <1>4, <1>5 DEF ChainGood

\* So a step on one slot has to be looked at for that slot only.
LEMMA ChainsFrom ==
  ASSUME ChainsGood, NEW s \in Slots, \A r \in Slots \ {s} : Untouched(r),
         live'[s] /\ ~crossed'[s] => ChainGood(s)'
  PROVE  ChainsGood'
<1> SUFFICES ASSUME NEW r \in Slots, live'[r], ~crossed'[r] PROVE ChainGood(r)'
  BY DEF ChainsGood
<1>1. CASE r = s
  BY <1>1
<1>2. CASE r # s
  <2>1. Untouched(r) /\ live[r] /\ ~crossed[r]
    BY <1>2 DEF Untouched
  <2> QED BY <2>1, SlotStays DEF ChainsGood
<1> QED BY <1>1, <1>2

\* The highest frame below an offset stays the highest below a later one.
LEMMA HighestUp ==
  ASSUME NEW X \in SUBSET Offsets, NEW o \in Nat, NEW p \in Nat, NEW c, o =< p,
         Highest(X, o, c), \A d \in X : d < o
  PROVE  Highest(X, p, c)
<1>1. X \subseteq Nat /\ ALIGN \in Nat
  BY OffsetsAre
<1>2. CASE c = None /\ \A d \in X : d >= o
  <2>1. \A d \in X : FALSE
    BY <1>1, <1>2
  <2> QED BY <1>2, <2>1 DEF Highest
<1>3. CASE c \in X /\ c + ALIGN < o /\ \A d \in X : d =< c \/ d >= o
  <2>1. c \in Nat /\ c + ALIGN < p
    BY <1>1, <1>3
  <2>2. \A d \in X : d =< c
    BY <1>1, <1>3
  <2> QED BY <1>3, <2>1, <2>2 DEF Highest
<1> QED BY <1>2, <1>3 DEF Highest

(* A frame added at or above o changes nothing below o. *)
LEMMA HighestAdd ==
  ASSUME NEW X \in SUBSET Offsets, NEW o \in Nat, NEW x \in Nat, NEW c, o =< x, Highest(X, o, c)
  PROVE  Highest(X \cup {x}, o, c)
BY DEF Highest

(* Frames taken off at or above p change nothing below o. *)
LEMMA HighestCut ==
  ASSUME NEW X \in SUBSET Offsets, NEW o \in Nat, NEW p \in Nat, NEW c, o =< p, Highest(X, o, c)
  PROVE  Highest({d \in X : d < p}, o, c)
<1>1. X \subseteq Nat /\ ALIGN \in Nat
  BY OffsetsAre
<1>2. CASE c = None /\ \A d \in X : d >= o
  BY <1>2 DEF Highest
<1>3. CASE c \in X /\ c + ALIGN < o /\ \A d \in X : d =< c \/ d >= o
  <2>1. c \in Nat /\ c < p
    BY <1>1, <1>3
  <2> QED BY <1>3, <2>1 DEF Highest
<1> QED BY <1>2, <1>3 DEF Highest

\* Steps that touch no arena memory.
LEMMA QuietStep ==
  ASSUME ArIInv, NEW t \in Threads,
         (\E s \in Slots : Attach(t, s)) \/ Detach(t) \/ Push(t) \/ Pop(t) \/ RestoreRefused(t) \/ DestroyUnmap(t)
  PROVE  EntriesTrue' /\ ChainsGood'
<1>1. UNCHANGED <<live, cap, off, gen, top, hdr, frames, raw, crossed, wiped>>
  BY DEF Attach, Detach, Push, Pop, RestoreRefused, DestroyUnmap, arVars
<1>2. Taken' \subseteq Taken
  BY TakenStay DEF ArIInv, ArTypeOK, Attach, Detach
<1>3. EntriesTrue' /\ \A r \in Slots : Marks(r)' \subseteq Marks(r)
  BY <1>1, <1>2, FewerMarks DEF ArIInv
<1>4. \A r \in Slots : Untouched(r)
  BY <1>1, <1>3 DEF Untouched
<1>5. ASSUME NEW r \in Slots, live'[r], ~crossed'[r] PROVE ChainGood(r)'
  BY <1>1, <1>4, <1>5, SlotStays DEF ArIInv, ChainsGood
<1> QED BY <1>3, <1>5 DEF ChainsGood

(* A checkpoint stands at the top of the chain. *)
LEMMA SnapStep ==
  ASSUME ArIInv, NEW t \in Threads, NEW s \in Slots, Snap(t, s)
  PROVE  EntriesTrue' /\ ChainsGood'
<1> DEFINE new == [id |-> s, off |-> off[s], gen |-> gen[s], top |-> top[s], intact |-> ~crossed[s]]
<1>0. ArraysOK /\ HeldOK /\ off[s] \in Nat /\ gen[s] \in Nat
  BY DEF ArIInv, ArTypeOK, ArraysOK
<1>1. UNCHANGED <<live, cap, off, gen, top, hdr, frames, raw, crossed, wiped, ck>> /\ live[s]
  BY DEF Snap, arVars
<1>2. Taken' \subseteq Taken \cup {new}
  BY <1>0 DEF Snap, Goto, HeldOK, Taken, Carrying
<1>3. new.id = s /\ new.off = off[s] /\ new.gen = gen[s] /\ new.top = top[s] /\ (new.intact <=> ~crossed[s])
  OBVIOUS
<1> HIDE DEF new
<1>4. ASSUME NEW X \in SUBSET Offsets, Linked(s, X)
      PROVE  (top[s] = None => X = {}) /\ (off[s] = 0 => top[s] = None)
  <2>1. \A c \in X : c \in Nat /\ c < off[s]
    BY <1>4, OffsetsAre DEF Linked
  <2>2. Highest(X, off[s], top[s]) /\ ALIGN \in Nat
    BY <1>4, OffsetsAre DEF Linked
  <2>3. top[s] = None => X = {}
    <3> SUFFICES ASSUME top[s] = None, NEW c \in X PROVE FALSE
      OBVIOUS
    <3>1. None \notin X
      BY OffsetsAre
    <3>2. c >= off[s]
      BY <2>2, <3>1 DEF Highest
    <3> QED BY <1>0, <2>1, <3>2
  <2>4. off[s] = 0 => top[s] = None
    <3> SUFFICES ASSUME off[s] = 0, top[s] # None PROVE FALSE
      OBVIOUS
    <3>1. top[s] \in X
      BY <2>2 DEF Highest
    <3> QED BY <1>0, <2>1, <3>1
  <2> QED BY <2>3, <2>4
<1>5. EntriesTrue'
  <2>1. ASSUME new.intact, new.off = 0 PROVE new.top = None
    <3>1. PICK X \in SUBSET Offsets : Linked(s, X)
      BY <1>1, <1>3, <2>1 DEF ArIInv, ChainsGood, ChainGood
    <3> QED BY <1>3, <1>4, <2>1, <3>1
  <2>2. new.gen =< gen'[new.id]
    BY <1>0, <1>1, <1>3
  <2> QED BY <1>1, <1>2, <2>1, <2>2 DEF ArIInv, EntriesTrue
<1>6. \A r \in Slots : Marks(r)' \subseteq Marks(r) \cup {new}
  BY <1>1, <1>2 DEF Marks
<1>7. \A r \in Slots \ {s} : Untouched(r)
  <2>1. \A r \in Slots \ {s} : Marks(r)' \subseteq Marks(r)
    BY <1>1, <1>2, <1>3 DEF Marks
  <2> QED BY <1>1, <2>1 DEF Untouched
<1>8. ASSUME ~crossed[s] PROVE ChainGood(s)'
  <2>1. PICK X \in SUBSET Offsets : Linked(s, X) /\ Framed(s, X) /\ Marked(s, X) /\ Full(s, X)
    BY <1>1, <1>8 DEF ArIInv, ChainsGood, ChainGood
  <2>2. Linked(s, X)' /\ Framed(s, X)'
    BY <1>1, <2>1 DEF Linked, Framed
  <2>3. Marked(s, X)'
    <3>1. ASSUME NEW k \in Marks(s)' PROVE
            /\ k.off =< off[s] /\ Highest(X, k.off, k.top)
            /\ \A f \in frames : f.slot = s => f.end =< k.off \/ k.off =< f.cur
      <4>1. CASE k \in Marks(s)
        BY <2>1, <4>1 DEF Marked
      <4>2. CASE k = new
        BY <1>0, <1>3, <2>1, <4>2 DEF Linked, Framed
      <4> QED BY <1>6, <4>1, <4>2
    <3> QED BY <1>1, <3>1 DEF Marked
  <2>4. Full(s, X)'
    <3>1. ASSUME raw[s] = 0, ~wiped[s], NEW k \in Marks(s)', k.top = None PROVE k.off = 0
      <4>1. CASE k \in Marks(s)
        BY <2>1, <3>1, <4>1 DEF Full
      <4>2. CASE k = new
        BY <1>3, <1>4, <2>1, <3>1, <4>2 DEF Full
      <4> QED BY <1>6, <4>1, <4>2
    <3> QED BY <1>1, <2>1, <3>1 DEF Full
  <2> QED BY <2>2, <2>3, <2>4 DEF ChainGood
<1>9. ChainsGood'
  BY <1>1, <1>7, <1>8, ChainsFrom DEF ArIInv
<1> QED BY <1>5, <1>9

\* oo_arena_alloc moves the offset and no frame.
LEMMA RawStep ==
  ASSUME ArIInv, NEW t \in Threads, NEW s \in Slots, NEW n \in RawSizes, RawAlloc(t, s, n)
  PROVE  EntriesTrue' /\ ChainsGood'
<1> DEFINE o == RoundUp(off[s])
<1>0. /\ ArraysOK /\ HeldOK /\ off[s] \in Nat /\ n \in Nat /\ n > 0 /\ o \in Nat /\ o >= off[s]
      /\ off[s] = 0 => o = 0
  BY Rounds, SizesAssumption DEF ArIInv, ArTypeOK, ArraysOK
<1>1. UNCHANGED <<live, cap, gen, top, hdr, frames, crossed, wiped, ck, pc, loc>> /\ live[s]
  BY DEF RawAlloc
<1>2. \/ off' = [off EXCEPT ![s] = o] /\ raw' = raw
      \/ /\ off' = [off EXCEPT ![s] = o + n]
         /\ raw' = [raw EXCEPT ![s] = IF o + n > @ THEN o + n ELSE @]
  BY DEF RawAlloc
<1> HIDE DEF o
<1>3. /\ off'[s] \in Nat /\ off'[s] >= off[s]
      /\ raw'[s] = 0 => raw[s] = 0 /\ (off[s] = 0 => off'[s] = 0)
      /\ \A r \in Slots \ {s} : off'[r] = off[r] /\ raw'[r] = raw[r]
  BY <1>0, <1>2 DEF ArraysOK
<1>4. EntriesTrue' /\ \A r \in Slots : Marks(r)' \subseteq Marks(r)
  <2>1. Taken' \subseteq Taken
    BY <1>0, <1>1, TakenStay
  <2> QED BY <1>1, <2>1, FewerMarks DEF ArIInv
<1>5. \A r \in Slots \ {s} : Untouched(r)
  BY <1>1, <1>3, <1>4 DEF Untouched
<1>6. ASSUME ~crossed[s] PROVE ChainGood(s)'
  <2>1. PICK X \in SUBSET Offsets : Linked(s, X) /\ Framed(s, X) /\ Marked(s, X) /\ Full(s, X)
    BY <1>1, <1>6 DEF ArIInv, ChainsGood, ChainGood
  <2>2. Linked(s, X)'
    <3>1. X \subseteq Nat
      BY OffsetsAre
    <3>2. \A c \in X : c < off'[s]
      BY <1>0, <1>3, <2>1, <3>1 DEF Linked
    <3>3. Highest(X, off'[s], top[s])
      BY <1>0, <1>3, <2>1, HighestUp DEF Linked
    <3> QED BY <1>1, <2>1, <3>2, <3>3 DEF Linked
  <2>3. Framed(s, X)'
    <3>1. \A f \in frames : f.end \in Nat
      BY <1>0 DEF HeldOK, Frames
    <3> QED BY <1>0, <1>1, <1>3, <2>1, <3>1 DEF Framed
  <2>4. Marked(s, X)'
    <3>1. \A k \in Marks(s) : k.off \in Nat
      BY <1>0, TakenAre DEF Marks, Entries
    <3> QED BY <1>0, <1>1, <1>3, <1>4, <2>1, <3>1 DEF Marked
  <2>5. Full(s, X)'
    BY <1>1, <1>3, <1>4, <2>1 DEF Full
  <2> QED BY <2>2, <2>3, <2>4, <2>5 DEF ChainGood
<1>7. ChainsGood'
  BY <1>1, <1>5, <1>6, ChainsFrom DEF ArIInv
<1> QED BY <1>4, <1>7

(* A new frame goes on top: it is above every frame and every checkpoint. *)
LEMMA AllocStep ==
  ASSUME ArIInv, NEW t \in Threads, NEW n \in Sizes, AllocPayload(t, n)
  PROVE  EntriesTrue' /\ ChainsGood'
<1>a. PICK s \in Slots : s = active[t]
  BY DEF ArIInv, ArTypeOK, HeldOK, AllocPayload
<1>b. PICK cur \in Nat : cur = RoundUp(off[s])
  BY Rounds DEF ArIInv, ArTypeOK, ArraysOK
<1> DEFINE end == cur + ALIGN + n
           new == [slot |-> s, cur |-> cur, end |-> end]
           o == RoundUp(end)
<1>0. ArraysOK /\ HeldOK /\ live[s] /\ end =< cap[s]
  BY <1>a, <1>b DEF ArIInv, ArTypeOK, AllocPayload
<1>1. /\ off[s] \in Nat /\ cur \in Nat /\ cur >= off[s] /\ n \in Nat /\ n > 0 /\ ALIGN \in Nat /\ ALIGN > 0
      /\ cap[s] \in Nat /\ cap[s] =< MaxCap /\ MaxCap \in Nat /\ (off[s] = 0 => cur = 0)
  BY <1>b, <1>0, Rounds, SizesAssumption, AlignAssumption, MaxCapIs DEF ArraysOK
<1>2. end \in Nat /\ cur \in Offsets /\ o \in Nat /\ o >= end /\ cur + ALIGN < end
  BY <1>0, <1>1, Rounds DEF Offsets
<1>3. /\ \A c \in Offsets : c < cur => hdr'[s][c] = hdr[s][c]
      /\ hdr'[s][cur] = Header(top[s])
      /\ \A r \in Slots \ {s} : hdr'[r] = hdr[r]
  BY <1>a, <1>b, <1>0, <1>1, <1>2 DEF AllocPayload, ArraysOK, Offsets
<1>4. /\ off'[s] = o /\ top'[s] = cur /\ frames' = frames \cup {new}
      /\ \A r \in Slots \ {s} : off'[r] = off[r] /\ top'[r] = top[r]
  BY <1>a, <1>b, <1>0 DEF AllocPayload, ArraysOK
<1>5. UNCHANGED <<live, cap, gen, raw, crossed, wiped, ck, pc, loc>>
  BY DEF AllocPayload
<1>6. new.slot = s /\ new.cur = cur /\ new.end = end
  OBVIOUS
<1> HIDE DEF end, new, o
<1>7. EntriesTrue' /\ \A r \in Slots : Marks(r)' \subseteq Marks(r)
  <2>1. Taken' \subseteq Taken
    BY <1>0, <1>5, TakenStay
  <2> QED BY <1>5, <2>1, FewerMarks DEF ArIInv
<1>8. \A r \in Slots \ {s} : Untouched(r)
  BY <1>3, <1>4, <1>5, <1>6, <1>7 DEF Untouched
<1>9. ASSUME ~crossed[s] PROVE ChainGood(s)'
  <2>1. PICK X \in SUBSET Offsets : Linked(s, X) /\ Framed(s, X) /\ Marked(s, X) /\ Full(s, X)
    BY <1>0, <1>9 DEF ArIInv, ChainsGood, ChainGood
  <2> DEFINE Y == X \cup {cur}
  <2>2. Y \in SUBSET Offsets /\ X \subseteq Nat /\ \A c \in X : c < off[s] /\ c < cur
    <3>1. X \subseteq Nat /\ \A c \in X : c < off[s]
      BY <2>1, OffsetsAre DEF Linked
    <3> QED BY <1>1, <1>2, <3>1
  <2>3. Linked(s, Y)'
    <3>1. \A c \in Y : c < off'[s]
      <4>1. cur < off'[s] /\ off'[s] \in Nat
        BY <1>1, <1>2, <1>4
      <4> QED BY <2>2, <4>1
    <3>2. Highest(Y, off'[s], top'[s])
      <4>1. cur \in Y /\ cur + ALIGN < o /\ \A d \in Y : d =< cur
        BY <1>1, <1>2, <2>2
      <4> QED BY <1>4, <4>1 DEF Highest
    <3>3. ASSUME NEW c \in X
          PROVE  \/ hdr'[s][c].kind = "frame" /\ Highest(Y, c, hdr'[s][c].prev)
                 \/ hdr'[s][c].kind = "zero" /\ wiped'[s]
      <4>1. hdr'[s][c] = hdr[s][c] /\ c \in Nat /\ c =< cur
        BY <1>1, <1>3, <2>2
      <4>2. CASE hdr[s][c].kind = "frame" /\ Highest(X, c, hdr[s][c].prev)
        BY <1>1, <4>1, <4>2, HighestAdd
      <4>3. CASE hdr[s][c].kind = "zero" /\ wiped[s]
        BY <1>5, <4>1, <4>3
      <4> QED BY <2>1, <4>2, <4>3 DEF Linked
    <3>4. hdr'[s][cur].kind = "frame" /\ Highest(Y, cur, hdr'[s][cur].prev)
      <4>1. Highest(X, off[s], top[s])
        BY <2>1 DEF Linked
      <4>2. Highest(X, cur, top[s])
        BY <1>1, <2>2, <4>1, HighestUp
      <4>3. Highest(Y, cur, top[s])
        BY <1>1, <4>2, HighestAdd
      <4> QED BY <1>3, <4>3 DEF Header
    <3> QED BY <3>1, <3>2, <3>3, <3>4 DEF Linked
  <2>4. Framed(s, Y)'
    <3>0. \A f \in frames : f.slot = s => f.end \in Nat /\ f.cur \in X /\ f.cur < cur /\ f.end =< off[s] /\ f.cur \in Nat
      BY <1>0, <2>1, <2>2 DEF HeldOK, Frames, Framed
    <3>1. ASSUME NEW f \in frames, f.slot = s
          PROVE  /\ f.cur \in Y /\ ~hdr'[s][f.cur].dead /\ f.end =< off'[s] /\ f.end =< cap[s]
                 /\ \A c \in Y : c =< f.cur \/ f.end =< c
                 /\ \A g \in frames' : g.slot = s /\ g.cur = f.cur => g = f
      <4>1. f.cur \in X /\ hdr'[s][f.cur] = hdr[s][f.cur] /\ f.end =< off'[s]
        BY <1>1, <1>2, <1>3, <1>4, <2>2, <3>0, <3>1
      <4>2. \A c \in Y : c =< f.cur \/ f.end =< c
        BY <1>1, <2>1, <3>0, <3>1 DEF Framed
      <4>3. \A g \in frames' : g.slot = s /\ g.cur = f.cur => g = f
        BY <1>1, <1>4, <1>6, <2>1, <3>0, <3>1 DEF Framed
      <4> QED BY <2>1, <3>1, <4>1, <4>2, <4>3 DEF Framed
    <3>2. /\ new.cur \in Y /\ ~hdr'[s][new.cur].dead /\ new.end =< off'[s] /\ new.end =< cap[s]
          /\ \A c \in Y : c =< new.cur \/ new.end =< c
          /\ \A g \in frames' : g.slot = s /\ g.cur = new.cur => g = new
      <4>1. ~hdr'[s][new.cur].dead
        BY <1>3, <1>6 DEF Header
      <4>2. \A c \in Y : c =< cur
        BY <1>1, <2>2
      <4>3. \A g \in frames' : g.slot = s /\ g.cur = new.cur => g = new
        BY <1>1, <1>4, <1>6, <3>0
      <4> QED BY <1>0, <1>2, <1>4, <1>6, <4>1, <4>2, <4>3
    <3> QED BY <1>4, <1>5, <3>1, <3>2 DEF Framed
  <2>5. Marked(s, Y)'
    <3>1. ASSUME NEW k \in Marks(s)'
          PROVE  /\ k.off =< off'[s] /\ Highest(Y, k.off, k.top)
                 /\ \A f \in frames' : f.slot = s => f.end =< k.off \/ k.off =< f.cur
      <4>1. k \in Marks(s) /\ k.off \in Nat
        BY <1>0, <1>7, TakenAre DEF Marks, Entries
      <4>2. k.off =< off[s] /\ Highest(X, k.off, k.top) /\ \A f \in frames : f.slot = s => f.end =< k.off \/ k.off =< f.cur
        BY <2>1, <4>1 DEF Marked
      <4>3. k.off =< cur /\ k.off =< off'[s]
        BY <1>1, <1>2, <1>4, <4>1, <4>2
      <4>4. Highest(Y, k.off, k.top)
        BY <1>1, <4>1, <4>2, <4>3, HighestAdd
      <4> QED BY <1>4, <1>6, <4>2, <4>3, <4>4
    <3> QED BY <3>1 DEF Marked
  <2>6. Full(s, Y)'
    <3> SUFFICES ASSUME raw[s] = 0, ~wiped[s]
                 PROVE  /\ 0 \in Y
                        /\ \A c \in Y : hdr'[s][c].dead \/ \E f \in frames' : f.slot = s /\ f.cur = c
                        /\ \A k \in Marks(s)' : k.top = None => k.off = 0
      BY <1>5 DEF Full
    <3>1. 0 \in Y
      BY <1>1, <2>1 DEF Full
    <3>2. ASSUME NEW c \in Y PROVE hdr'[s][c].dead \/ \E f \in frames' : f.slot = s /\ f.cur = c
      <4>1. CASE c = cur
        BY <1>4, <1>6, <4>1
      <4>2. CASE c # cur
        <5>1. c \in X /\ hdr'[s][c] = hdr[s][c]
          BY <1>3, <2>2, <4>2
        <5> QED BY <1>4, <2>1, <5>1 DEF Full
      <4> QED BY <4>1, <4>2
    <3> QED BY <1>7, <2>1, <3>1, <3>2 DEF Full
  <2> QED BY <2>2, <2>3, <2>4, <2>5, <2>6 DEF ChainGood
<1>10. ChainsGood'
  BY <1>0, <1>5, <1>8, <1>9, ChainsFrom DEF ArIInv
<1> QED BY <1>7, <1>10

(* An empty arena, with nothing on the way to it but checkpoints of an empty one, is good. *)
LEMMA EmptyGood ==
  ASSUME NEW s \in Slots, off'[s] = 0, top'[s] = None, \A f \in frames' : f.slot # s,
         \A k \in Marks(s)' : k.off = 0 /\ k.top = None
  PROVE  ChainGood(s)'
<1>1. Linked(s, {})' /\ Framed(s, {})' /\ Marked(s, {})' /\ Full(s, {})'
  BY DEF Linked, Framed, Marked, Full, Highest
<1> QED BY <1>1 DEF ChainGood

\* oo_arena_create starts from an empty chain, and past checkpoints are of an earlier generation.
LEMMA CreateStep ==
  ASSUME ArIInv, NEW t \in Threads, NEW s \in Slots, NEW c \in Caps, NEW m \in Regions, Create(t, s, c, m)
  PROVE  EntriesTrue' /\ ChainsGood'
<1>0. ArraysOK /\ HeldOK /\ ~live[s] /\ gen[s] \in Nat /\ \A k \in Taken : k.gen \in Nat /\ k.id \in Slots
  BY TakenAre DEF ArIInv, ArTypeOK, ArraysOK, Create, FirstFree, Entries
<1>1. /\ gen' = [gen EXCEPT ![s] = @ + 1] /\ UNCHANGED <<frames, ck, pc, loc>>
      /\ off'[s] = 0 /\ top'[s] = None
      /\ \A r \in Slots \ {s} : /\ live'[r] = live[r] /\ crossed'[r] = crossed[r] /\ off'[r] = off[r]
                                /\ top'[r] = top[r] /\ cap'[r] = cap[r] /\ hdr'[r] = hdr[r]
                                /\ raw'[r] = raw[r] /\ wiped'[r] = wiped[r] /\ gen'[r] = gen[r]
  BY <1>0 DEF Create, ArraysOK
<1>2. Taken' = Taken
  BY <1>1 DEF Taken, Carrying
<1>3. \A k \in Taken : k.gen =< gen[k.id]
  BY DEF ArIInv, EntriesTrue
<1>4. EntriesTrue'
  <2>1. \A k \in Taken : k.gen =< gen'[k.id]
    BY <1>0, <1>1, <1>3 DEF ArraysOK
  <2> QED BY <1>2, <2>1 DEF ArIInv, EntriesTrue
<1>5. Marks(s)' = {}
  BY <1>0, <1>1, <1>2, <1>3 DEF Marks, ArraysOK
<1>6. \A r \in Slots \ {s} : Untouched(r)
  BY <1>1, <1>2 DEF Untouched, Marks
<1>7. \A f \in frames' : f.slot # s
  BY <1>0, <1>1 DEF ArIInv, FramesLive
<1>8. ChainGood(s)'
  BY <1>1, <1>5, <1>7, EmptyGood
<1> QED BY <1>4, <1>6, <1>8, ChainsFrom DEF ArIInv

\* oo_arena_destroy takes the slot's chain away with its frames.
LEMMA DestroyStep ==
  ASSUME ArIInv, NEW t \in Threads, NEW s \in Slots, Destroy(t, s)
  PROVE  EntriesTrue' /\ ChainsGood'
<1>0. ArraysOK /\ HeldOK
  BY DEF ArIInv, ArTypeOK
<1>1. /\ UNCHANGED <<gen, hdr, raw, crossed, wiped>> /\ live'[s] = FALSE
      /\ frames' = {f \in frames : f.slot # s \/ f.end =< 0}
      /\ \A r \in Slots \ {s} : /\ live'[r] = live[r] /\ off'[r] = off[r]
                                /\ top'[r] = top[r] /\ cap'[r] = cap[r]
  BY <1>0 DEF Destroy, ArraysOK, DropFrames
<1>2. EntriesTrue' /\ \A r \in Slots : Marks(r)' \subseteq Marks(r)
  <2>1. Taken' \subseteq Taken
    BY <1>0, TakenStay
  <2> QED BY <1>1, <2>1, FewerMarks DEF ArIInv
<1>3. \A r \in Slots \ {s} : Untouched(r)
  BY <1>1, <1>2 DEF Untouched
<1> QED BY <1>1, <1>2, <1>3, ChainsFrom DEF ArIInv

\* oo_arena_reset empties the chain and ages every checkpoint above the start.
LEMMA ResetStep ==
  ASSUME ArIInv, NEW t \in Threads, NEW s \in Slots, Reset(t, s)
  PROVE  EntriesTrue' /\ ChainsGood'
<1>0. ArraysOK /\ HeldOK /\ ArTypeOK' /\ HeldOK' /\ \A f \in frames : f.end \in Nat /\ f.end > 0
  BY ResetTypes, FramesAre DEF ArIInv, ArTypeOK
<1>1. /\ UNCHANGED <<live, cap, gen, hdr>> /\ off'[s] = 0 /\ top'[s] = None
      /\ frames' = {f \in frames : f.slot # s \/ f.end =< 0}
      /\ \A r \in Slots \ {s} : /\ crossed'[r] = crossed[r] /\ off'[r] = off[r] /\ top'[r] = top[r]
                                /\ raw'[r] = raw[r] /\ wiped'[r] = wiped[r]
  BY <1>0 DEF Reset, ArraysOK, DropFrames
<1>2. Ageing(s, 0)
  <2>1. /\ ck' = Aged(ck, s, 0) /\ loc' = [AgedLoc(s, 0) EXCEPT ![t] = base[s]]
        /\ pc' = [pc EXCEPT ![t] = "madvise"]
    BY DEF Reset
  <2>2. \A u \in Threads : Carrying(u)' => Carrying(u) /\ loc'[u] = AgedLoc(s, 0)[u]
    <3> SUFFICES ASSUME NEW u \in Threads, Carrying(u)' PROVE Carrying(u) /\ loc'[u] = AgedLoc(s, 0)[u]
      OBVIOUS
    <3>1. u # t /\ Carrying(u)
      BY <1>0, <2>1 DEF HeldOK, Carrying
    <3> QED BY <1>0, <2>1, <3>1, AgedTypes
  <2> QED BY <1>0, <2>1, <2>2, RewindAges
<1>3. EntriesTrue' /\ (\A r \in Slots : Marks(r)' \subseteq Marks(r)) /\ \A k \in Marks(s)' : k.off =< 0
  BY <1>0, <1>1, <1>2, AgeingMarks DEF ArIInv
<1>4. \A r \in Slots \ {s} : Untouched(r)
  BY <1>1, <1>3 DEF Untouched
<1>5. \A f \in frames' : f.slot # s
  BY <1>0, <1>1
<1>6. ASSUME NEW k \in Marks(s)' PROVE k.off = 0 /\ k.top = None
  <2>1. k \in Taken' /\ k.intact /\ k.off \in Nat /\ k.off =< 0
    BY <1>0, <1>3, TakenAre DEF Marks, Entries
  <2> QED BY <1>3, <2>1 DEF EntriesTrue
<1>7. ChainGood(s)'
  BY <1>1, <1>5, <1>6, EmptyGood
<1> QED BY <1>3, <1>4, <1>7, ChainsFrom DEF ArIInv

(* Wiped headers stop every walk; the frames stay where they are. *)
LEMMA AdviseStep ==
  ASSUME ArIInv, NEW t \in Threads, ResetAdvise(t)
  PROVE  EntriesTrue' /\ ChainsGood'
<1>0. ArraysOK /\ HeldOK
  BY DEF ArIInv, ArTypeOK
<1>1. UNCHANGED <<live, cap, off, gen, top, frames, raw, crossed>>
  BY DEF ResetAdvise, arVars
<1>2. EntriesTrue' /\ \A r \in Slots : Marks(r)' \subseteq Marks(r)
  <2>1. Taken' \subseteq Taken
    BY <1>0, TakenStay
  <2> QED BY <1>1, <2>1, FewerMarks DEF ArIInv
<1>3. ASSUME NEW s \in Slots, live[s], ~crossed[s] PROVE ChainGood(s)'
  <2>1. ChainGood(s)
    BY <1>3 DEF ArIInv, ChainsGood
  <2>2. CASE base[s] # loc[t]
    <3>1. hdr'[s] = hdr[s] /\ wiped'[s] = wiped[s]
      BY <1>0, <2>2 DEF ResetAdvise, ArraysOK
    <3>2. Untouched(s)
      BY <1>1, <1>2, <3>1 DEF Untouched
    <3> QED BY <2>1, <3>2, SlotStays
  <2>3. CASE base[s] = loc[t]
    <3>1. hdr'[s] = [c \in Offsets |-> Zero] /\ (wiped'[s] <=> wiped[s] \/ top[s] # None)
      BY <1>0, <1>3, <2>3 DEF ResetAdvise, ArraysOK
    <3>2. PICK X \in SUBSET Offsets : Linked(s, X) /\ Framed(s, X) /\ Marked(s, X) /\ Full(s, X)
      BY <2>1 DEF ChainGood
    <3>3. \A c \in X : hdr'[s][c].kind = "zero" /\ ~hdr'[s][c].dead
      BY <3>1 DEF Zero
    <3>4. top[s] = None => X = {}
      <4> SUFFICES ASSUME top[s] = None, NEW c \in X PROVE FALSE
        OBVIOUS
      <4>1. None \notin X /\ c \in Nat /\ off[s] \in Nat
        BY <1>0, OffsetsAre DEF ArraysOK
      <4>2. c >= off[s] /\ c < off[s]
        BY <3>2, <4>1 DEF Linked, Highest
      <4> QED BY <4>1, <4>2
    <3>5. Linked(s, X)'
      <4>1. \A c \in X : wiped'[s]
        BY <3>1, <3>4
      <4> QED BY <1>1, <3>2, <3>3, <4>1 DEF Linked
    <3>6. Framed(s, X)'
      BY <1>1, <3>2, <3>3 DEF Framed
    <3>7. Marked(s, X)'
      BY <1>1, <1>2, <3>2 DEF Marked
    <3>8. Full(s, X)'
      BY <1>1, <1>2, <3>1, <3>2, <3>4 DEF Full
    <3> QED BY <3>5, <3>6, <3>7, <3>8 DEF ChainGood
  <2> QED BY <2>2, <2>3
<1> QED BY <1>1, <1>2, <1>3 DEF ChainsGood

(* Only a wiped arena has frames without a header. *)
LEMMA UnknownStep ==
  ASSUME ArIInv, NEW t \in Threads, NEW f \in frames, FreeUnknown(t, f)
  PROVE  EntriesTrue' /\ ChainsGood'
<1>0. ArraysOK /\ HeldOK /\ f.slot \in Slots /\ live[f.slot]
  BY DEF ArIInv, ArTypeOK, HeldOK, Frames, FramesLive
<1>1. /\ UNCHANGED <<live, cap, off, gen, top, hdr, raw, crossed, wiped, ck, pc, loc>>
      /\ frames' = frames \ {f} /\ hdr[f.slot][f.cur].kind # "frame"
  BY DEF FreeUnknown, arVars
<1>2. EntriesTrue' /\ \A r \in Slots : Marks(r)' \subseteq Marks(r)
  <2>1. Taken' \subseteq Taken
    BY <1>0, <1>1, TakenStay
  <2> QED BY <1>1, <2>1, FewerMarks DEF ArIInv
<1>3. PICK s \in Slots : s = f.slot
  BY <1>0
<1>4. \A r \in Slots \ {s} : Untouched(r)
  BY <1>1, <1>2, <1>3 DEF Untouched
<1>5. ASSUME ~crossed[s] PROVE ChainGood(s)'
  <2>1. PICK X \in SUBSET Offsets : Linked(s, X) /\ Framed(s, X) /\ Marked(s, X) /\ Full(s, X)
    BY <1>0, <1>3, <1>5 DEF ArIInv, ChainsGood, ChainGood
  <2>2. wiped[s]
    <3>1. f.cur \in X
      BY <1>3, <2>1 DEF Framed
    <3> QED BY <1>1, <1>3, <2>1, <3>1 DEF Linked
  <2>3. Linked(s, X)'
    BY <1>1, <2>1 DEF Linked
  <2>4. Framed(s, X)'
    BY <1>1, <2>1 DEF Framed
  <2>5. Marked(s, X)'
    BY <1>1, <1>2, <2>1 DEF Marked
  <2>6. Full(s, X)'
    BY <1>1, <2>2 DEF Full
  <2> QED BY <2>3, <2>4, <2>5, <2>6 DEF ChainGood
<1> QED BY <1>1, <1>2, <1>3, <1>4, <1>5, ChainsFrom DEF ArIInv

(* A chain cut at o, where a checkpoint stood or the walk of a free ended, is good. *)
LEMMA CutGood ==
  ASSUME ArraysOK, HeldOK, NEW s \in Slots, NEW X \in SUBSET Offsets,
         Linked(s, X), Framed(s, X), Marked(s, X), Full(s, X),
         NEW o \in Nat, NEW c0, off'[s] = o, top'[s] = c0, o =< off[s], Highest(X, o, c0),
         cap'[s] = cap[s], raw'[s] = raw[s], wiped'[s] = wiped[s],
         \A c \in X : hdr'[s][c].kind = hdr[s][c].kind /\ hdr'[s][c].prev = hdr[s][c].prev,
         frames' \subseteq frames,
         \A g \in frames' : g.slot = s => g.end =< o /\ g.cur < o /\ ~hdr'[s][g.cur].dead,
         Marks(s)' \subseteq Marks(s), \A k \in Marks(s)' : k.off =< o,
         raw[s] = 0 /\ ~wiped[s] =>
           /\ c0 = None => o = 0
           /\ \A c \in X : c < o => hdr'[s][c].dead \/ \E g \in frames' : g.slot = s /\ g.cur = c
  PROVE  ChainGood(s)'
<1> DEFINE Y == {c \in X : c < o}
<1>1. Y \in SUBSET Offsets /\ X \subseteq Nat /\ off[s] \in Nat
  BY OffsetsAre DEF ArraysOK
<1>2. Highest(Y, o, c0)
  BY HighestCut
<1>3. Linked(s, Y)'
  <2>1. ASSUME NEW c \in Y
        PROVE  \/ hdr'[s][c].kind = "frame" /\ Highest(Y, c, hdr'[s][c].prev)
               \/ hdr'[s][c].kind = "zero" /\ wiped'[s]
    <3>0. c \in X /\ c < o
      OBVIOUS
    <3>1. c \in Nat /\ c =< o /\ c \in X
      BY <1>1, <3>0
    <3>2. CASE hdr[s][c].kind = "frame" /\ Highest(X, c, hdr[s][c].prev)
      <4>1. Highest(Y, c, hdr[s][c].prev)
        BY <3>1, <3>2, HighestCut
      <4> QED BY <3>1, <3>2, <4>1
    <3>3. CASE hdr[s][c].kind = "zero" /\ wiped[s]
      BY <3>1, <3>3
    <3> QED BY <3>1, <3>2, <3>3 DEF Linked
  <2> QED BY <1>2, <2>1 DEF Linked
<1>4. Framed(s, Y)'
  BY DEF Framed
<1>5. Marked(s, Y)'
  <2>1. ASSUME NEW k \in Marks(s)'
        PROVE  /\ k.off =< o /\ Highest(Y, k.off, k.top)
               /\ \A f \in frames' : f.slot = s => f.end =< k.off \/ k.off =< f.cur
    <3>1. k \in Marks(s) /\ k.off \in Nat /\ k.off =< o
      BY TakenAre DEF Marks, Entries
    <3>2. Highest(X, k.off, k.top) /\ \A f \in frames : f.slot = s => f.end =< k.off \/ k.off =< f.cur
      BY <3>1 DEF Marked
    <3>3. Highest(Y, k.off, k.top)
      BY <3>1, <3>2, HighestCut
    <3> QED BY <3>1, <3>2, <3>3
  <2> QED BY <2>1 DEF Marked
<1>6. Full(s, Y)'
  <2> SUFFICES ASSUME raw[s] = 0, ~wiped[s]
               PROVE  /\ Y = {} => o = 0
                      /\ Y # {} => 0 \in Y
                      /\ \A c \in Y : hdr'[s][c].dead \/ \E f \in frames' : f.slot = s /\ f.cur = c
                      /\ \A k \in Marks(s)' : k.top = None => k.off = 0
    BY DEF Full
  <2>1. Y = {} => o = 0
    BY <1>2 DEF Highest
  <2>2. Y # {} => 0 \in Y
    <3> SUFFICES ASSUME NEW c \in Y PROVE 0 \in Y
      OBVIOUS
    <3>1. 0 \in X /\ c \in Nat /\ c < o
      BY <1>1 DEF Full
    <3> QED BY <3>1
  <2>3. \A k \in Marks(s)' : k.top = None => k.off = 0
    BY DEF Full
  <2> QED BY <2>1, <2>2, <2>3
<1> QED BY <1>1, <1>3, <1>4, <1>5, <1>6 DEF ChainGood

(* A rollback to an intact checkpoint cuts the chain where it stood. *)
LEMMA RestoreStep ==
  ASSUME ArIInv, NEW t \in Threads, Restore(t)
  PROVE  EntriesTrue' /\ ChainsGood'
<1>0. ArraysOK /\ HeldOK /\ HeldOK' /\ pc[t] = "restore" /\ Carrying(t)
  BY RestoreTypes DEF ArIInv, ArTypeOK, Restore, Carrying
<1>1. PICK k \in Taken : k = loc[t]
  BY <1>0 DEF Taken
<1>2. PICK s \in Slots : s = k.id
  BY <1>0, TakenAre DEF Entries
<1>3. k.off \in Nat /\ k.intact \in BOOLEAN
  BY <1>0, TakenAre DEF Entries
<1>4. /\ live[s] /\ gen[s] = k.gen /\ UNCHANGED <<live, cap, gen, hdr, raw, wiped>>
      /\ off'[s] = k.off /\ top'[s] = k.top /\ (crossed'[s] <=> crossed[s] \/ ~k.intact)
      /\ frames' = {f \in frames : f.slot # s \/ f.end =< k.off}
      /\ \A r \in Slots \ {s} : crossed'[r] = crossed[r] /\ off'[r] = off[r] /\ top'[r] = top[r]
  BY <1>0, <1>1, <1>2, <1>3 DEF Restore, Valid, ArraysOK, DropFrames
<1>5. Ageing(s, k.off)
  <2>1. /\ ck' = Aged(ck, s, k.off) /\ loc' = [AgedLoc(s, k.off) EXCEPT ![t] = None]
        /\ pc' = [pc EXCEPT ![t] = "idle"]
    BY <1>1, <1>2 DEF Restore
  <2>2. \A u \in Threads : Carrying(u)' => Carrying(u) /\ loc'[u] = AgedLoc(s, k.off)[u]
    <3> SUFFICES ASSUME NEW u \in Threads, Carrying(u)' PROVE Carrying(u) /\ loc'[u] = AgedLoc(s, k.off)[u]
      OBVIOUS
    <3>1. u # t /\ Carrying(u)
      BY <1>0, <2>1 DEF HeldOK, Carrying
    <3> QED BY <1>0, <1>3, <2>1, <3>1, AgedTypes
  <2> QED BY <1>0, <1>3, <2>1, <2>2, RewindAges
<1>6. EntriesTrue' /\ (\A r \in Slots : Marks(r)' \subseteq Marks(r)) /\ \A j \in Marks(s)' : j.off =< k.off
  BY <1>0, <1>3, <1>4, <1>5, AgeingMarks DEF ArIInv
<1>7. \A r \in Slots \ {s} : Untouched(r)
  BY <1>4, <1>6 DEF Untouched
<1>8. ASSUME ~crossed[s], k.intact PROVE ChainGood(s)'
  <2>1. PICK X \in SUBSET Offsets : Linked(s, X) /\ Framed(s, X) /\ Marked(s, X) /\ Full(s, X)
    BY <1>4, <1>8 DEF ArIInv, ChainsGood, ChainGood
  <2>2. k \in Marks(s)
    BY <1>1, <1>2, <1>4, <1>8 DEF Marks
  <2>3. k.off =< off[s] /\ Highest(X, k.off, k.top)
    BY <2>1, <2>2 DEF Marked
  <2>4. ASSUME NEW g \in frames', g.slot = s PROVE g.end =< k.off /\ g.cur < k.off /\ ~hdr'[s][g.cur].dead
    <3>1. g \in frames /\ g.end =< k.off /\ ~hdr[s][g.cur].dead /\ g.cur \in X /\ g.cur \in Nat /\ g.end \in Nat
      BY <1>0, <1>4, <2>1, <2>4, OffsetsAre DEF Framed, HeldOK, Frames
    <3>2. g.cur < g.end
      BY <1>0, <3>1 DEF HeldOK, Frames
    <3> QED BY <1>3, <1>4, <3>1, <3>2
  <2>5. ASSUME raw[s] = 0, ~wiped[s]
        PROVE  /\ k.top = None => k.off = 0
               /\ \A c \in X : c < k.off => hdr'[s][c].dead \/ \E g \in frames' : g.slot = s /\ g.cur = c
    <3>1. k.top = None => k.off = 0
      BY <2>1, <2>2, <2>5 DEF Full
    <3>2. ASSUME NEW c \in X, c < k.off, ~hdr[s][c].dead PROVE \E g \in frames' : g.slot = s /\ g.cur = c
      <4>1. PICK g \in frames : g.slot = s /\ g.cur = c
        BY <2>1, <2>5, <3>2 DEF Full
      <4>2. g.end =< k.off \/ k.off =< g.cur
        BY <2>1, <2>2, <4>1 DEF Marked
      <4>3. c \in Nat
        BY OffsetsAre
      <4>4. g.end =< k.off
        BY <1>3, <3>2, <4>1, <4>2, <4>3
      <4> QED BY <1>4, <4>1, <4>4
    <3> QED BY <1>4, <3>1, <3>2
  <2> QED BY <1>0, <1>3, <1>4, <1>6, <2>1, <2>3, <2>4, <2>5, CutGood
<1> QED BY <1>3, <1>4, <1>6, <1>7, <1>8, ChainsFrom DEF ArIInv

(* The walk of a free takes dead frames off the top of the chain, and only those. *)
LEMMA FreeWalk ==
  ASSUME ArraysOK, NEW s \in Slots, NEW X \in SUBSET Offsets, Linked(s, X),
         NEW h \in [Offsets -> Headers],
         \A c \in X : h[c].kind = hdr[s][c].kind /\ h[c].prev = hdr[s][c].prev,
         NEW w, w = Walk(h, [off |-> off[s], top |-> top[s]])
  PROVE  /\ w \in WalkStates /\ w.off =< off[s] /\ Highest(X, w.off, w.top)
         /\ w.off = off[s] \/ w.off \in X
         /\ \A c \in X : c >= w.off => h[c].dead
<1>1. off[s] \in Nat /\ top[s] \in Offsets \cup {None} /\ X \subseteq Nat /\ ALIGN \in Nat /\ Offsets \subseteq Nat
  BY OffsetsAre DEF ArraysOK
<1> DEFINE start == [off |-> off[s], top |-> top[s]]
           Ok(v) == /\ v.off =< off[s] /\ Highest(X, v.off, v.top)
                    /\ v.off = off[s] \/ v.off \in X
                    /\ \A c \in X : c >= v.off => h[c].dead
           P == {v \in WalkStates : Ok(v)}
<1>2. start \in P
  <2>1. start \in WalkStates /\ start.off = off[s] /\ start.top = top[s]
    BY <1>1 DEF WalkStates
  <2>2. \A c \in X : c < off[s]
    BY DEF Linked
  <2>3. \A c \in X : ~(c >= off[s])
    BY <1>1, <2>2
  <2>4. Highest(X, off[s], top[s])
    BY DEF Linked
  <2> HIDE DEF start
  <2> QED BY <1>1, <2>1, <2>3, <2>4
<1>3. ASSUME NEW v \in P, DeadTop(h, v.top) PROVE [off |-> v.top, top |-> h[v.top].prev] \in P
  <2> DEFINE c == v.top
             n == [off |-> c, top |-> h[c].prev]
  <2>1. v \in WalkStates /\ Ok(v) /\ v.off \in Nat
    BY DEF WalkStates
  <2>2. c # None /\ h[c].kind = "frame" /\ h[c].dead
    BY <1>3 DEF DeadTop
  <2>3. c \in X /\ c + ALIGN < v.off /\ \A d \in X : d =< c \/ d >= v.off
    BY <2>1, <2>2 DEF Highest
  <2>4. c \in Nat /\ c =< off[s] /\ h[c].prev \in Offsets \cup {None}
    <3>1. c \in Nat /\ c \in Offsets
      BY <1>1, <2>3
    <3>2. h[c] \in Headers
      BY <3>1
    <3> HIDE DEF c
    <3>3. c =< off[s]
      BY <1>1, <2>1, <2>3, <3>1
    <3> QED BY <3>1, <3>2, <3>3 DEF Headers
  <2>5. n \in WalkStates /\ n.off = c /\ n.top = h[c].prev
    BY <2>4 DEF WalkStates
  <2>6. Highest(X, c, h[c].prev)
    BY <2>2, <2>3 DEF Linked
  <2>7. ASSUME NEW d \in X, d >= c PROVE h[d].dead
    <3>1. CASE d = c
      BY <2>2, <3>1
    <3>2. CASE d # c
      <4>1. d >= v.off
        BY <1>1, <2>3, <2>4, <2>7, <3>2
      <4> QED BY <2>1, <4>1
    <3> QED BY <3>1, <3>2
  <2> HIDE DEF c, n
  <2>8. Ok(n)
    BY <2>3, <2>4, <2>5, <2>6, <2>7
  <2>9. n \in P
    BY <2>5, <2>8
  <2> QED BY <2>9 DEF n, c
<1>4. Walk(h, start) \in P
  <2>1. start \in WalkStates /\ P \in SUBSET WalkStates
    BY <1>2
  <2> HIDE DEF start, P
  <2> QED BY <1>2, <1>3, <2>1, WalkReaches
<1>5. w \in P
  BY <1>4
<1> QED BY <1>5

\* The free of the frame at cur leaves the headers h, and its walk ends in w.
FreeEnds(s, cur, X, h, w) ==
  /\ \A c \in X : h[c].kind = hdr[s][c].kind /\ h[c].prev = hdr[s][c].prev
  /\ \A c \in X : h[c].dead <=> hdr[s][c].dead \/ c = cur
  /\ w.off =< off[s] /\ Highest(X, w.off, w.top) /\ (w.off = off[s] \/ w.off \in X)
  /\ \A c \in X : c >= w.off => h[c].dead
  /\ ~DeadTop(h, w.top)
  /\ hdr' = [hdr EXCEPT ![s] = h] /\ off' = [off EXCEPT ![s] = w.off]
  /\ top' = [top EXCEPT ![s] = w.top]

(* A free of a frame in use: the walk ends where the chain is cut. *)
LEMMA FreeCuts ==
  ASSUME ArIInv, NEW t \in Threads, NEW f \in frames, Free(t, f), NEW s \in Slots, s = f.slot, ~crossed[s],
         NEW X \in SUBSET Offsets, Linked(s, X), Framed(s, X), Marked(s, X), Full(s, X)
  PROVE  \E h \in [Offsets -> Headers], w \in WalkStates : FreeEnds(s, f.cur, X, h, w)
<1> DEFINE h == [hdr[s] EXCEPT ![f.cur].dead = TRUE]
           w == Walk(h, [off |-> off[s], top |-> top[s]])
<1>1. ArraysOK /\ HeldOK /\ f.cur \in X /\ f.cur \in Offsets /\ hdr[s] \in [Offsets -> Headers]
  BY DEF ArIInv, ArTypeOK, ArraysOK, Framed
<1>2. h \in [Offsets -> Headers]
  BY <1>1 DEF Headers
<1>3. /\ \A c \in X : h[c].kind = hdr[s][c].kind /\ h[c].prev = hdr[s][c].prev
      /\ \A c \in X : h[c].dead <=> hdr[s][c].dead \/ c = f.cur
  BY <1>1 DEF Headers
<1>4. /\ ~DeadTop(h, w.top) /\ hdr' = [hdr EXCEPT ![s] = h]
      /\ \/ off' = [off EXCEPT ![s] = w.off] /\ top' = [top EXCEPT ![s] = w.top] /\ Rewind(s, w.off)
         \/ GarbageTop(h, w.top)
  BY DEF Free
<1> HIDE DEF h
<1>5. /\ w \in WalkStates /\ w.off =< off[s] /\ Highest(X, w.off, w.top)
      /\ w.off = off[s] \/ w.off \in X
      /\ \A c \in X : c >= w.off => h[c].dead
  BY <1>1, <1>2, <1>3, FreeWalk
<1> HIDE DEF w
<1>6. ~GarbageTop(h, w.top)
  BY <1>3, <1>5 DEF GarbageTop, Highest, Linked
<1>7. FreeEnds(s, f.cur, X, h, w)
  BY <1>3, <1>4, <1>5, <1>6 DEF FreeEnds
<1> QED BY <1>2, <1>5, <1>7

\* oo_arena_free_payload marks its frame dead and cuts the dead frames at the top.
LEMMA FreeStep ==
  ASSUME ArIInv, NEW t \in Threads, NEW f \in frames, Free(t, f)
  PROVE  EntriesTrue' /\ ChainsGood'
<1>0. ArraysOK /\ HeldOK /\ HeldOK' /\ f.slot \in Slots /\ live[f.slot]
  BY FreeTypes, FramesAre DEF ArIInv, ArTypeOK, FramesLive
<1>1. PICK s \in Slots : s = f.slot
  BY <1>0
<1>2. UNCHANGED <<live, cap, gen, raw, crossed, wiped, pc>> /\ frames' = frames \ {f}
  BY DEF Free
<1>3. \A r \in Slots \ {s} : off'[r] = off[r] /\ top'[r] = top[r] /\ hdr'[r] = hdr[r]
  BY <1>0, <1>1 DEF Free, ArraysOK
<1>4. PICK o \in Nat : Rewind(s, o) /\ off'[s] = o
  <2>1. off'[s] \in Nat
    BY FreeTypes DEF ArIInv, ArTypeOK, ArraysOK
  <2>2. Rewind(s, off'[s])
    BY <1>0, <1>1 DEF Free, ArraysOK
  <2> QED BY <2>1, <2>2
<1>5. Ageing(s, o)
  BY <1>0, <1>2, <1>4, RewindAges DEF Rewind, Carrying
<1>6. EntriesTrue' /\ (\A r \in Slots : Marks(r)' \subseteq Marks(r)) /\ \A k \in Marks(s)' : k.off =< o
  BY <1>0, <1>2, <1>5, AgeingMarks DEF ArIInv
<1>7. \A r \in Slots \ {s} : Untouched(r)
  BY <1>1, <1>2, <1>3, <1>6 DEF Untouched
<1>8. ASSUME ~crossed[s] PROVE ChainGood(s)'
  <2>1. PICK X \in SUBSET Offsets : Linked(s, X) /\ Framed(s, X) /\ Marked(s, X) /\ Full(s, X)
    BY <1>0, <1>1, <1>8 DEF ArIInv, ChainsGood, ChainGood
  <2>a. PICK h \in [Offsets -> Headers], w \in WalkStates : FreeEnds(s, f.cur, X, h, w)
    BY <1>1, <1>8, <2>1, FreeCuts, Zenon
  <2>2. /\ \A c \in X : h[c].kind = hdr[s][c].kind /\ h[c].prev = hdr[s][c].prev
        /\ \A c \in X : h[c].dead <=> hdr[s][c].dead \/ c = f.cur
        /\ w.off =< off[s] /\ Highest(X, w.off, w.top) /\ (w.off = off[s] \/ w.off \in X)
        /\ \A c \in X : c >= w.off => h[c].dead
        /\ hdr' = [hdr EXCEPT ![s] = h] /\ off' = [off EXCEPT ![s] = w.off]
        /\ top' = [top EXCEPT ![s] = w.top]
    BY <2>a DEF FreeEnds
  <2>3. /\ off'[s] = w.off /\ top'[s] = w.top /\ hdr'[s] = h /\ o = w.off /\ off[s] \in Nat /\ X \subseteq Nat
    BY <1>0, <1>4, <2>2, OffsetsAre DEF ArraysOK
  <2>4. ASSUME NEW g \in frames', g.slot = s PROVE g.end =< o /\ g.cur < o /\ ~hdr'[s][g.cur].dead
    <3>1. /\ g \in frames /\ g # f /\ g.cur \in X /\ ~hdr[s][g.cur].dead /\ g.end =< off[s]
          /\ g.cur \in Nat /\ g.end \in Nat /\ g.cur < g.end
      BY <1>0, <1>2, <2>1, <2>4, FramesAre DEF Framed
    <3>2. g.cur # f.cur
      BY <1>1, <2>1, <2>4, <3>1 DEF Framed
    <3>3. ~h[g.cur].dead
      BY <2>2, <3>1, <3>2
    <3>4. g.cur < o
      BY <2>2, <2>3, <3>1, <3>3
    <3>5. g.end =< o
      <4>1. CASE w.off = off[s]
        BY <2>3, <3>1, <4>1
      <4>2. CASE w.off \in X
        <5>1. w.off =< g.cur \/ g.end =< w.off
          BY <2>1, <2>4, <3>1, <4>2 DEF Framed
        <5> QED BY <2>3, <3>1, <3>4, <5>1
      <4> QED BY <2>2, <4>1, <4>2
    <3> QED BY <2>3, <3>3, <3>4, <3>5
  <2>5. ASSUME raw[s] = 0, ~wiped[s]
        PROVE  /\ w.top = None => o = 0
               /\ \A c \in X : c < o => hdr'[s][c].dead \/ \E g \in frames' : g.slot = s /\ g.cur = c
    <3>1. ASSUME w.top = None PROVE o = 0
      <4>1. f.cur \in X /\ 0 \in X
        BY <1>1, <2>1, <2>5 DEF Framed, Full
      <4>2. None \notin X
        BY OffsetsAre
      <4>3. 0 >= w.off
        BY <2>2, <3>1, <4>1, <4>2 DEF Highest
      <4> QED BY <2>3, <4>3
    <3>2. ASSUME NEW c \in X, ~h[c].dead PROVE \E g \in frames' : g.slot = s /\ g.cur = c
      <4>1. ~hdr[s][c].dead /\ c # f.cur
        BY <2>2, <3>2
      <4>2. PICK g \in frames : g.slot = s /\ g.cur = c
        BY <2>1, <2>5, <4>1 DEF Full
      <4> QED BY <1>2, <4>1, <4>2
    <3> QED BY <2>3, <3>1, <3>2
  <2>6. o =< off[s] /\ Highest(X, o, w.top)
    BY <2>2, <2>3
  <2>7. \A c \in X : hdr'[s][c].kind = hdr[s][c].kind /\ hdr'[s][c].prev = hdr[s][c].prev
    BY <2>2, <2>3
  <2>8. frames' \subseteq frames
    BY <1>2
  <2> QED BY <1>0, <1>2, <1>4, <1>6, <2>1, <2>3, <2>4, <2>5, <2>6, <2>7, <2>8, CutGood
<1> QED BY <1>1, <1>2, <1>6, <1>7, <1>8, ChainsFrom DEF ArIInv

-----------------------------------------------------------------------------
(***************************************************************************)
(* The theorems.                                                           *)
(***************************************************************************)
LEMMA ArStep == ArIInv /\ [Next]_vars => ArIInv'
<1> SUFFICES ASSUME ArIInv, [Next]_vars PROVE ArIInv'
  OBVIOUS
<1>1. CASE Next
  <2>1. ArTypeOK' /\ FramesLive' /\ MapsApart'
    BY <1>1, ArTypeStep, LiveStep, MapsStep DEF ArIInv
  <2>2. EntriesTrue' /\ ChainsGood'
    BY <1>1, QuietStep, SnapStep, RawStep, AllocStep, CreateStep, DestroyStep, ResetStep, AdviseStep,
       UnknownStep, RestoreStep, FreeStep DEF Next
  <2> QED BY <2>1, <2>2 DEF ArIInv
<1>2. CASE UNCHANGED vars
  <2>1. ArTypeOK'
    BY <1>2 DEF ArIInv, ArTypeOK, ArraysOK, HeldOK, Carrying, vars, arVars
  <2>2. Taken' = Taken
    BY <1>2 DEF Taken, Carrying, vars
  <2>3. EntriesTrue' /\ FramesLive' /\ MapsApart'
    BY <1>2, <2>2 DEF ArIInv, EntriesTrue, FramesLive, MapsApart, LiveMapped, vars, arVars
  <2>4. \A r \in Slots : Untouched(r)
    BY <1>2, <2>2 DEF Untouched, Marks, vars, arVars
  <2>5. ASSUME NEW r \in Slots, live'[r], ~crossed'[r] PROVE ChainGood(r)'
    BY <2>4, <2>5, SlotStays DEF ArIInv, ChainsGood, Untouched
  <2> QED BY <2>1, <2>3, <2>5 DEF ArIInv, ChainsGood
<1> QED BY <1>1, <1>2

\* The inductive invariant holds in every behaviour.
LEMMA ArHolds == Spec => []ArIInv
<1>1. Init => ArIInv
  BY ArInitial
<1>2. ArIInv /\ [Next]_vars => ArIInv'
  BY ArStep
<1> QED BY <1>1, <1>2, PTL DEF Spec

(* What threads that share arenas can rely on, whatever allocations, frees, resets, checkpoints,
   rollbacks and destroys interleave: the headers a free of arena_checkpoint.c walks over are the
   ones allocation wrote, frames in use are apart and within the capacity, and their memory is
   mapped.  For any number of threads and slots and any sizes, and for every arena no rollback
   revived dropped frames in. *)
THEOREM ArenaCorrect == Spec => []ArenaSound
BY ArHolds, InvGives, PTL

(* The free of the last frame in use gives the whole arena back, in whatever order the frames
   were freed. *)
THEOREM LastFreeCorrect == Spec => LastFreeEmpties
<1> DEFINE Empties ==
      \A s \in Slots :
       (/\ Sound(s) /\ raw[s] = 0
        /\ \E t \in Threads, f \in frames : f.slot = s /\ Free(t, f)
        /\ \A f \in frames' : f.slot # s)
       => off'[s] = 0 /\ top'[s] = None
<1>1. ArIInv /\ [Next]_vars => [Empties]_vars
  <2> SUFFICES ASSUME ArIInv, NEW s \in Slots, Sound(s), raw[s] = 0,
                      NEW t \in Threads, NEW f \in frames, f.slot = s, Free(t, f), \A g \in frames' : g.slot # s
               PROVE  off'[s] = 0 /\ top'[s] = None
    BY DEF Empties
  <2>0. ArraysOK /\ HeldOK /\ ~wiped[s] /\ ~crossed[s] /\ frames' = frames \ {f}
    BY DEF ArIInv, ArTypeOK, Sound, Free
  <2>1. PICK X \in SUBSET Offsets : Linked(s, X) /\ Framed(s, X) /\ Marked(s, X) /\ Full(s, X)
    BY DEF ArIInv, ChainsGood, ChainGood, Sound
  <2>2. PICK h \in [Offsets -> Headers], w \in WalkStates : FreeEnds(s, f.cur, X, h, w)
    BY <2>0, <2>1, FreeCuts
  <2>3. ASSUME NEW c \in X PROVE h[c].dead /\ h[c].kind = "frame"
    <3>1. h[c].kind = "frame"
      BY <2>0, <2>1, <2>2 DEF FreeEnds, Linked
    <3>2. hdr[s][c].dead \/ \E g \in frames : g.slot = s /\ g.cur = c
      BY <2>0, <2>1 DEF Full
    <3>3. ASSUME NEW g \in frames, g.slot = s, g.cur = c PROVE c = f.cur
      BY <2>0, <3>3
    <3> QED BY <2>2, <3>1, <3>2, <3>3 DEF FreeEnds
  <2>4. w.top = None
    <3> SUFFICES ASSUME w.top # None PROVE FALSE
      OBVIOUS
    <3>1. w.top \in X
      BY <2>2 DEF FreeEnds, Highest
    <3> QED BY <2>2, <2>3, <3>1 DEF FreeEnds, DeadTop
  <2>5. f.cur \in X /\ 0 \in X /\ None \notin X
    BY <2>0, <2>1, OffsetsAre DEF Framed, Full
  <2>6. 0 >= w.off
    BY <2>2, <2>4, <2>5 DEF FreeEnds, Highest
  <2>7. w.off = 0
    BY <2>6 DEF WalkStates
  <2> QED BY <2>0, <2>2, <2>4, <2>7 DEF FreeEnds, ArraysOK
<1>2. Spec => [][Empties]_vars
  BY <1>1, ArHolds, PTL DEF Spec
<1> QED BY <1>2 DEF LastFreeEmpties
=============================================================================
