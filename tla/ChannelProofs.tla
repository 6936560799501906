--------------------------- MODULE ChannelProofs ---------------------------
(***************************************************************************)
(* For any number of threads, slots and messages and any depth: the ring   *)
(* of app/actor/actor_channel.c stays consistent, two channel_new calls    *)
(* never get the same slot, and the table implements ChannelSpec.          *)
(***************************************************************************)
EXTENDS Channel, SetFacts, SequenceTheorems, TLAPS

(***************************************************************************)
(* One lap of the ring: the index arithmetic of (x + 1) % OO_CH_QDEPTH     *)
(* without the modulus.                                                    *)
(***************************************************************************)
LEMMA IdxLap ==
  \A h \in Ring, k \in 0 .. Depth :
    Idx(h, k) = IF h + k < Depth THEN h + k ELSE h + k - Depth
<1>1. \A x \in 0 .. Depth - 1 : x % Depth = x
  BY DepthAssumption, SMT
<1>2. \A x \in Depth .. 2 * Depth - 1 : x % Depth = x - Depth
  BY DepthAssumption, SMT
<1> QED
  BY <1>1, <1>2, DepthAssumption DEF Idx, Ring

LEMMA IdxType == \A h \in Ring, k \in Ring : Idx(h, k) \in Ring
<1> SUFFICES ASSUME NEW h \in Ring, NEW k \in Ring PROVE Idx(h, k) \in Ring
  OBVIOUS
<1>1. h \in Nat /\ k \in Nat /\ h < Depth /\ k < Depth /\ k \in 0 .. Depth
  BY DepthAssumption DEF Ring
<1>2. Idx(h, k) = IF h + k < Depth THEN h + k ELSE h + k - Depth
  BY <1>1, IdxLap
<1> QED
  BY <1>1, <1>2, DepthAssumption DEF Ring

LEMMA FunctionIsSeq ==
  ASSUME NEW S, NEW n \in Nat, NEW f \in [1 .. n -> S]
  PROVE  f \in Seq(S) /\ Len(f) = n
  OBVIOUS

(***************************************************************************)
(* Moving one end of a queue of n entries starting at h.                   *)
(***************************************************************************)
LEMMA IdxStep ==
  ASSUME NEW h \in Ring, NEW n \in 0 .. Depth
  PROVE  /\ Idx(h, n) \in Ring
         /\ n < Depth => Idx(Idx(h, n), 1) = Idx(h, n + 1)
         /\ n > 0 => Idx(Idx(h, 1), n - 1) = Idx(h, n)
         /\ \A k \in Ring : Idx(Idx(h, 1), k) = Idx(h, k + 1)
<1>1. \A k \in 0 .. Depth : Idx(h, k) \in Ring
  BY IdxLap, DepthAssumption DEF Ring
<1>2. Idx(h, 1) = IF h + 1 < Depth THEN h + 1 ELSE h + 1 - Depth
  BY IdxLap, DepthAssumption
<1>3. ASSUME n < Depth PROVE Idx(Idx(h, n), 1) = Idx(h, n + 1)
  <2>1. /\ Idx(h, n) = IF h + n < Depth THEN h + n ELSE h + n - Depth
        /\ Idx(h, n + 1) = IF h + n + 1 < Depth THEN h + n + 1 ELSE h + n + 1 - Depth
    BY <1>3, IdxLap, DepthAssumption DEF Ring
  <2>2. Idx(Idx(h, n), 1) = IF Idx(h, n) + 1 < Depth THEN Idx(h, n) + 1
                                                     ELSE Idx(h, n) + 1 - Depth
    BY <1>1, IdxLap, DepthAssumption
  <2> QED
    BY <1>3, <2>1, <2>2, DepthAssumption DEF Ring
<1>4. ASSUME NEW k \in Ring PROVE Idx(Idx(h, 1), k) = Idx(h, k + 1)
  <2>1. Idx(h, 1) \in Ring
    BY <1>1, DepthAssumption
  <2>2. Idx(Idx(h, 1), k) = IF Idx(h, 1) + k < Depth THEN Idx(h, 1) + k
                                                     ELSE Idx(h, 1) + k - Depth
    BY <2>1, IdxLap, DepthAssumption DEF Ring
  <2>3. Idx(h, k + 1) = IF h + k + 1 < Depth THEN h + k + 1 ELSE h + k + 1 - Depth
    BY IdxLap, DepthAssumption DEF Ring
  <2> QED
    BY <1>2, <2>2, <2>3, DepthAssumption DEF Ring
<1>5. ASSUME n > 0 PROVE Idx(Idx(h, 1), n - 1) = Idx(h, n)
  BY <1>4, <1>5, DepthAssumption DEF Ring
<1> QED
  BY <1>1, <1>3, <1>4, <1>5

(***************************************************************************)
(* Two different places of one lap are different entries.                  *)
(***************************************************************************)
LEMMA IdxInjective ==
  ASSUME NEW h \in Ring, NEW j \in Ring, NEW k \in Ring, j # k
  PROVE  Idx(h, j) # Idx(h, k)
  BY IdxLap, DepthAssumption DEF Ring

-----------------------------------------------------------------------------
(***************************************************************************)
(* The inductive invariant holds initially.                                *)
(***************************************************************************)
LEMMA InitIInv == Init => IInv
<1> SUFFICES ASSUME Init PROVE IInv
  OBVIOUS
<1>1. 0 \in Slots /\ 0 \in Ring
  BY NSlotsAssumption, DepthAssumption DEF Slots, Ring
<1>2. TypeOK
  <2>1. own \in [Threads -> [Msgs -> Int]]
    BY DEF Init
  <2>2. ret \in Results
    BY DEF Init, Results, Ok
  <2> QED
    BY <1>1, <2>1, <2>2, DepthAssumption DEF Init, TypeOK
<1>3. RingOK
  <2>1. Idx(0, 0) = 0
    BY <1>1, IdxLap, DepthAssumption
  <2> QED
    BY <1>1, <2>1, DepthAssumption DEF Init, RingOK, Ring
<1>4. BootOK
  BY NoThreadAssumption DEF Init, BootOK
<1> QED
  BY <1>2, <1>3, <1>4 DEF IInv

(***************************************************************************)
(* Every step keeps the state well typed.  Only recv needs more than the   *)
(* types: the entry it hands out is a queued one, so it is a message.      *)
(***************************************************************************)
LEMMA TypeStep == IInv /\ [Next]_vars => TypeOK'
<1> SUFFICES ASSUME IInv, [Next]_vars PROVE TypeOK'
  OBVIOUS
<1> USE DEF IInv, ringVars, refVars
<1>0. 0 \in Slots /\ 0 \in Ring /\ 0 \in 0 .. Depth
  BY NSlotsAssumption, DepthAssumption DEF Slots, Ring
<1>1. ASSUME NEW t \in Threads, NewPick(t) PROVE TypeOK'
  BY <1>1 DEF TypeOK, NewPick
<1>2. ASSUME NEW t \in Threads, NewNoSlot(t) PROVE TypeOK'
  <2>1. ret' \in Results
    BY <1>2 DEF NewNoSlot, Return, Err, Results
  <2> QED
    BY <1>2, <2>1 DEF TypeOK, NewNoSlot
<1>3. ASSUME NEW t \in Threads, NewOpen(t) PROVE TypeOK'
  <2>1. ret' \in Results
    BY <1>3 DEF NewOpen, Return, Opened, Results, TypeOK
  <2> QED
    BY <1>0, <1>3, <2>1 DEF TypeOK, NewOpen
<1>4. ASSUME NEW t \in Threads, NEW s \in Slots, NEW m \in Msgs, Send(t, s, m) PROVE TypeOK'
  <2>1. ret' \in Results
    BY <1>4 DEF Send, Return, Ok, Results
  <2>2. Idx(tail[s], 1) \in Ring
    BY IdxStep, DepthAssumption DEF TypeOK
  <2>3. count[s] + 1 \in 0 .. Depth
    BY <1>4, DepthAssumption DEF Send, TypeOK
  <2> QED
    BY <1>4, <2>1, <2>2, <2>3 DEF TypeOK, Send
<1>5. ASSUME NEW t \in Threads, NEW s \in Slots, SendFull(t, s) PROVE TypeOK'
  <2>1. ret' \in Results
    BY <1>5 DEF SendFull, Return, Err, Results
  <2> QED
    BY <1>5, <2>1 DEF TypeOK, SendFull
<1>6. ASSUME NEW t \in Threads, NEW s \in Slots, Recv(t, s) PROVE TypeOK'
  <2>1. msgs[s][head[s]] \in Msgs
    <3>1. Idx(head[s], 0) = head[s]
      BY IdxLap, DepthAssumption DEF TypeOK, Ring
    <3> QED
      BY <1>0, <1>6, <3>1, DepthAssumption DEF Recv, RingOK, TypeOK
  <2>2. ret' \in Results
    BY <1>6, <2>1 DEF Recv, Return, Ok, Results
  <2>3. Idx(head[s], 1) \in Ring
    BY IdxStep, DepthAssumption DEF TypeOK
  <2>4. count[s] - 1 \in 0 .. Depth
    BY <1>6, DepthAssumption DEF Recv, TypeOK
  <2> QED
    BY <1>6, <2>1, <2>2, <2>3, <2>4 DEF TypeOK, Recv
<1>7. ASSUME NEW t \in Threads, NEW s \in Slots, RecvEmpty(t, s) PROVE TypeOK'
  <2>1. ret' \in Results
    BY <1>7 DEF RecvEmpty, Return, Err, Results
  <2> QED
    BY <1>7, <2>1 DEF TypeOK, RecvEmpty
<1>8. ASSUME NEW t \in Threads, NEW s \in Slots, DestroyLock(t, s) PROVE TypeOK'
  BY <1>8 DEF TypeOK, DestroyLock
<1>9. ASSUME NEW t \in Threads, DestroyDrain(t) PROVE TypeOK'
  <2>1. ret' \in Results
    BY <1>9 DEF DestroyDrain, Return, Ok, Results
  <2>2. \A m \in Msgs : Cardinality(Queued(arg[t], m)) \in Int
    <3>1. ASSUME NEW m \in Msgs PROVE Cardinality(Queued(arg[t], m)) \in Nat
      <4>1. IsFiniteSet(Ring)
        BY FS_Interval, DepthAssumption DEF Ring
      <4> QED
        BY <4>1, FS_Subset, FS_CardinalityType DEF Queued, Occupied
    <3> QED
      BY <3>1
  <2>3. rc' \in [Msgs -> Int]
    BY <1>9, <2>2 DEF DestroyDrain, TypeOK
  <2> QED
    BY <1>0, <1>9, <2>1, <2>3 DEF TypeOK, DestroyDrain
<1>10. ASSUME NEW t \in Threads, DestroyEmpty(t) PROVE TypeOK'
  <2>1. ret' \in Results
    BY <1>10 DEF DestroyEmpty, Return, Err, Results
  <2> QED
    BY <1>0, <1>10, <2>1 DEF TypeOK, DestroyEmpty
<1>11. ASSUME NEW t \in Threads, Refuse(t) PROVE TypeOK'
  <2>1. ret' \in Results
    BY <1>11 DEF Refuse, Return, Err, Results
  <2> QED
    BY <1>11, <2>1 DEF TypeOK, Refuse
<1>12. ASSUME NEW t \in Threads, NEW m \in Msgs, Drop(t, m) PROVE TypeOK'
  BY <1>12 DEF TypeOK, Drop
<1>13. CASE UNCHANGED vars
  BY <1>13 DEF TypeOK, vars
<1> QED
  BY <1>1, <1>2, <1>3, <1>4, <1>5, <1>6, <1>7, <1>8, <1>9, <1>10, <1>11, <1>12, <1>13 DEF Next

(***************************************************************************)
(* Every step keeps the rings consistent.  Only open, send, recv and drain *)
(* write to a ring.                                                        *)
(***************************************************************************)
LEMMA RingStep == IInv /\ [Next]_vars => RingOK'
<1> SUFFICES ASSUME IInv, [Next]_vars PROVE RingOK'
  OBVIOUS
<1> USE DEF IInv
<1>0. 0 \in Ring /\ 0 \in 0 .. Depth /\ Idx(0, 0) = 0
  BY IdxLap, DepthAssumption DEF Ring
<1>1. ASSUME UNCHANGED ringVars PROVE RingOK'
  BY <1>1 DEF RingOK, ringVars
<1>2. ASSUME NEW t \in Threads, NewOpen(t) PROVE RingOK'
  BY <1>0, <1>2 DEF RingOK, TypeOK, NewOpen, Ring
<1>3. ASSUME NEW t \in Threads, NEW s \in Slots, NEW m \in Msgs, Send(t, s, m) PROVE RingOK'
  <2> SUFFICES ASSUME NEW r \in Slots
               PROVE /\ tail'[r] = Idx(head'[r], count'[r])
                     /\ \A k \in Ring : k < count'[r] => msgs'[r][Idx(head'[r], k)] \in Msgs
                     /\ ~live'[r] => count'[r] = 0
    BY DEF RingOK
  <2>1. CASE r # s
    BY <1>3, <2>1 DEF RingOK, TypeOK, Send
  <2>2. CASE r = s
    <3>1. /\ tail'[s] = Idx(tail[s], 1) /\ head'[s] = head[s]
          /\ count'[s] = count[s] + 1 /\ live'[s]
          /\ msgs'[s] = [msgs[s] EXCEPT ![tail[s]] = m]
      BY <1>3 DEF Send, TypeOK
    <3>2. tail'[s] = Idx(head'[s], count'[s])
      BY <1>3, <3>1, IdxStep DEF RingOK, TypeOK, Send
    <3>3. ASSUME NEW k \in Ring, k < count'[s] PROVE msgs'[s][Idx(head'[s], k)] \in Msgs
      <4>1. Idx(head[s], k) \in Ring
        BY IdxType DEF TypeOK
      <4>2. CASE k = count[s]
        BY <3>1, <4>1, <4>2 DEF RingOK, TypeOK
      <4>3. CASE k < count[s]
        BY <3>1, <4>1, <4>3 DEF RingOK, TypeOK
      <4> QED
        BY <3>1, <3>3, <4>2, <4>3, DepthAssumption DEF TypeOK, Ring
    <3> QED
      BY <2>2, <3>1, <3>2, <3>3
  <2> QED
    BY <2>1, <2>2
<1>4. ASSUME NEW t \in Threads, NEW s \in Slots, Recv(t, s) PROVE RingOK'
  <2> SUFFICES ASSUME NEW r \in Slots
               PROVE /\ tail'[r] = Idx(head'[r], count'[r])
                     /\ \A k \in Ring : k < count'[r] => msgs'[r][Idx(head'[r], k)] \in Msgs
                     /\ ~live'[r] => count'[r] = 0
    BY DEF RingOK
  <2>1. CASE r # s
    BY <1>4, <2>1 DEF RingOK, TypeOK, Recv
  <2>2. CASE r = s
    <3>1. /\ head'[s] = Idx(head[s], 1) /\ tail'[s] = tail[s]
          /\ count'[s] = count[s] - 1 /\ live'[s]
          /\ msgs'[s] = [msgs[s] EXCEPT ![head[s]] = Null]
          /\ count[s] > 0
      BY <1>4 DEF Recv, TypeOK
    <3>2. tail'[s] = Idx(head'[s], count'[s])
      BY <3>1, IdxStep DEF RingOK, TypeOK
    <3>3. ASSUME NEW k \in Ring, k < count'[s] PROVE msgs'[s][Idx(head'[s], k)] \in Msgs
      <4>1. k + 1 \in Ring /\ k + 1 < count[s]
        BY <3>1, <3>3, DepthAssumption DEF TypeOK, Ring
      <4>2. Idx(head'[s], k) = Idx(head[s], k + 1)
        BY <3>1, IdxStep, DepthAssumption DEF TypeOK
      <4>3. Idx(head[s], k + 1) \in Ring
        BY <4>1, IdxType DEF TypeOK
      <4>4. Idx(head[s], 0) = head[s]
        BY IdxLap, DepthAssumption DEF TypeOK, Ring
      <4>5. Idx(head[s], k + 1) # head[s]
        BY <1>0, <4>1, <4>4, IdxInjective, DepthAssumption DEF TypeOK, Ring
      <4> QED
        BY <3>1, <4>1, <4>2, <4>3, <4>5 DEF RingOK, TypeOK
    <3> QED
      BY <2>2, <3>1, <3>2, <3>3
  <2> QED
    BY <2>1, <2>2
<1>5. ASSUME NEW t \in Threads, DestroyDrain(t) PROVE RingOK'
  BY <1>0, <1>5 DEF RingOK, TypeOK, DestroyDrain, Ring
<1> QED
  BY <1>1, <1>2, <1>3, <1>4, <1>5
     DEF Next, vars, ringVars, NewPick, NewNoSlot, SendFull, RecvEmpty, DestroyLock,
         DestroyEmpty, Refuse, Drop

(***************************************************************************)
(* Every step keeps the table lock with the thread that works under it; a  *)
(* slot that was picked becomes live only when the picker opens it.        *)
(***************************************************************************)
LEMMA BootStep == IInv /\ [Next]_vars => BootOK'
<1> SUFFICES ASSUME IInv, [Next]_vars PROVE BootOK'
  OBVIOUS
<1> USE NoThreadAssumption DEF IInv, BootOK, TypeOK, ringVars
<1>1. ASSUME NEW t \in Threads, NewPick(t) PROVE BootOK'
  BY <1>1 DEF NewPick, FirstFree
<1>2. ASSUME NEW t \in Threads, NewOpen(t) PROVE BootOK'
  BY <1>2 DEF NewOpen
<1>3. ASSUME NEW t \in Threads, NEW s \in Slots, DestroyLock(t, s) PROVE BootOK'
  BY <1>3 DEF DestroyLock
<1>4. ASSUME NEW t \in Threads, DestroyDrain(t) PROVE BootOK'
  BY <1>4 DEF DestroyDrain
<1>5. ASSUME NEW t \in Threads, DestroyEmpty(t) PROVE BootOK'
  BY <1>5 DEF DestroyEmpty
<1>6. ASSUME UNCHANGED <<live, boot, pc, arg>> PROVE BootOK'
  BY <1>6
<1> QED
  BY <1>1, <1>2, <1>3, <1>4, <1>5, <1>6
     DEF Next, vars, NewNoSlot, Send, SendFull, Recv, RecvEmpty, Refuse, Drop

(***************************************************************************)
(* The rings of every channel table are consistent in every reachable      *)
(* state, the values keep their types, and two concurrent channel_new      *)
(* calls never work on the same slot.                                      *)
(***************************************************************************)
THEOREM Safety == Spec => []IInv
<1>1. IInv /\ [Next]_vars => IInv'
  BY TypeStep, RingStep, BootStep DEF IInv
<1> QED
  BY <1>1, InitIInv, PTL DEF Spec

(***************************************************************************)
(* The states are well typed.                                              *)
(***************************************************************************)
THEOREM TypeCorrect == Spec => []TypeOK
<1>1. IInv => TypeOK
  BY DEF IInv
<1> QED
  BY <1>1, Safety, PTL

(***************************************************************************)
(* tail is count places after head, every queued entry is a message and a  *)
(* destroyed channel holds nothing.                                        *)
(***************************************************************************)
THEOREM RingCorrect == Spec => []RingOK
<1>1. IInv => RingOK
  BY DEF IInv
<1> QED
  BY <1>1, Safety, PTL

-----------------------------------------------------------------------------
(***************************************************************************)
(* Refinement.  The contents of one slot in the abstract table.            *)
(***************************************************************************)
LEMMA QueueType ==
  ASSUME IInv, NEW s \in Slots
  PROVE  /\ queue(s) \in Seq(Msgs) /\ Len(queue(s)) = count[s]
         /\ queue(s) # Closed
         /\ chanBar[s] = IF live[s] THEN queue(s) ELSE Closed
<1>1. count[s] \in Nat
  BY DepthAssumption DEF IInv, TypeOK
<1>2. ASSUME NEW k \in 1 .. count[s] PROVE msgs[s][Idx(head[s], k - 1)] \in Msgs
  <2>1. k - 1 \in Ring /\ k - 1 < count[s]
    BY DepthAssumption DEF IInv, TypeOK, Ring
  <2> QED
    BY <2>1 DEF IInv, RingOK
<1>3. queue(s) \in Seq(Msgs) /\ Len(queue(s)) = count[s]
  BY <1>1, <1>2 DEF queue
<1> QED
  BY <1>3, ClosedAssumption DEF chanBar

(***************************************************************************)
(* send appends to the queue.                                              *)
(***************************************************************************)
LEMMA SendQueue ==
  ASSUME IInv, IInv', NEW t \in Threads, NEW s \in Slots, NEW m \in Msgs, Send(t, s, m)
  PROVE  queue(s)' = Append(queue(s), m)
<1>1. /\ count'[s] = count[s] + 1 /\ head'[s] = head[s]
      /\ msgs'[s] = [msgs[s] EXCEPT ![tail[s]] = m]
      /\ tail[s] = Idx(head[s], count[s])
      /\ count[s] \in Nat /\ count[s] < Depth /\ count[s] \in Ring
  BY DepthAssumption DEF Send, IInv, TypeOK, RingOK, Ring
<1>2. ASSUME NEW k \in 1 .. count[s] + 1
      PROVE msgs'[s][Idx(head'[s], k - 1)] = IF k = count[s] + 1 THEN m ELSE queue(s)[k]
  <2>1. k - 1 \in Ring
    BY <1>1, DepthAssumption DEF Ring
  <2>2. Idx(head[s], k - 1) \in Ring
    BY <2>1, IdxType DEF IInv, TypeOK
  <2>3. CASE k = count[s] + 1
    <3>1. k - 1 = count[s]
      BY <1>1, <2>3
    <3> QED
      BY <1>1, <2>2, <2>3, <3>1 DEF IInv, TypeOK
  <2>4. CASE k # count[s] + 1
    <3>1. k - 1 # count[s] /\ k \in 1 .. count[s]
      BY <1>1, <2>4
    <3>2. Idx(head[s], k - 1) # tail[s]
      BY <1>1, <2>1, <3>1, IdxInjective DEF IInv, TypeOK
    <3>3. queue(s)[k] = msgs[s][Idx(head[s], k - 1)]
      BY <3>1 DEF queue
    <3> QED
      BY <1>1, <2>2, <2>4, <3>2, <3>3 DEF IInv, TypeOK
  <2> QED
    BY <2>3, <2>4
<1>3. queue(s) \in Seq(Msgs) /\ Len(queue(s)) = count[s]
  BY QueueType
<1>4. queue(s)' \in Seq(Msgs) /\ Len(queue(s)') = count[s] + 1
  <2>1. queue(s)' = [k \in 1 .. count'[s] |-> msgs'[s][Idx(head'[s], k - 1)]]
    BY DEF queue
  <2>2. ASSUME NEW k \in 1 .. count[s] + 1
        PROVE msgs'[s][Idx(head'[s], k - 1)] \in Msgs
    <3>1. k = count[s] + 1 \/ k \in 1 .. count[s]
      BY <1>1
    <3> QED
      BY <1>2, <1>3, <3>1
  <2>3. queue(s)' \in [1 .. count[s] + 1 -> Msgs]
    BY <1>1, <2>1, <2>2
  <2> QED
    BY <1>1, <2>3, FunctionIsSeq
<1>5. \A k \in 1 .. count[s] + 1 : queue(s)'[k] = Append(queue(s), m)[k]
  <2>1. \A k \in 1 .. count[s] + 1 : queue(s)'[k] = msgs'[s][Idx(head'[s], k - 1)]
    BY <1>1 DEF queue
  <2>2. ASSUME NEW k \in 1 .. count[s] + 1
        PROVE Append(queue(s), m)[k] = IF k = count[s] + 1 THEN m ELSE queue(s)[k]
    BY <1>1, <1>3
  <2> QED
    BY <1>2, <2>1, <2>2
<1>6. Append(queue(s), m) \in Seq(Msgs) /\ Len(Append(queue(s), m)) = count[s] + 1
  BY <1>1, <1>3
<1> QED
  BY <1>1, <1>4, <1>5, <1>6, SeqEqual

(***************************************************************************)
(* recv returns the head of the queue and removes it.                      *)
(***************************************************************************)
LEMMA RecvQueue ==
  ASSUME IInv, IInv', NEW t \in Threads, NEW s \in Slots, Recv(t, s)
  PROVE  /\ queue(s) # << >>
         /\ Head(queue(s)) = msgs[s][head[s]]
         /\ queue(s)' = Tail(queue(s))
<1>1. /\ count'[s] = count[s] - 1 /\ head'[s] = Idx(head[s], 1)
      /\ msgs'[s] = [msgs[s] EXCEPT ![head[s]] = Null]
      /\ count[s] \in Nat /\ count[s] > 0 /\ count[s] =< Depth
  BY DepthAssumption DEF Recv, IInv, TypeOK
<1>2. Idx(head[s], 0) = head[s] /\ 0 \in Ring
  <2>1. head[s] \in Ring
    BY DEF IInv, TypeOK
  <2>2. 0 \in Ring /\ 0 \in 0 .. Depth
    BY DepthAssumption DEF Ring
  <2>3. Idx(head[s], 0) = IF head[s] + 0 < Depth THEN head[s] + 0 ELSE head[s] + 0 - Depth
    BY <2>1, <2>2, IdxLap
  <2> QED
    BY <2>1, <2>2, <2>3, DepthAssumption DEF Ring
<1>3. queue(s) \in Seq(Msgs) /\ Len(queue(s)) = count[s]
  BY QueueType
<1>4. queue(s)[1] = msgs[s][head[s]]
  <2>1. queue(s)[1] = msgs[s][Idx(head[s], 1 - 1)]
    BY <1>1 DEF queue
  <2> QED
    BY <1>2, <2>1
<1>5. ASSUME NEW k \in 1 .. count[s] - 1
      PROVE msgs'[s][Idx(head'[s], k - 1)] = queue(s)[k + 1]
  <2>1. k \in Ring /\ k - 1 \in Ring /\ k # 0
    BY <1>1, DepthAssumption DEF Ring
  <2>2. Idx(head'[s], k - 1) = Idx(head[s], k)
    <3>1. (k - 1) + 1 = k /\ 1 \in 0 .. Depth
      BY <2>1, DepthAssumption DEF Ring
    <3> QED
      <4>1. Idx(Idx(head[s], 1), k - 1) = Idx(head[s], (k - 1) + 1)
        BY <2>1, <3>1, IdxStep DEF IInv, TypeOK
      <4> QED
        BY <1>1, <3>1, <4>1
  <2>3. Idx(head[s], k) # head[s] /\ Idx(head[s], k) \in Ring
    BY <1>2, <2>1, IdxInjective, IdxType DEF IInv, TypeOK
  <2>4. queue(s)[k + 1] = msgs[s][Idx(head[s], k)]
    <3>1. k + 1 \in 1 .. count[s] /\ (k + 1) - 1 = k
      BY <1>1
    <3> QED
      BY <3>1 DEF queue
  <2> QED
    BY <1>1, <2>2, <2>3, <2>4 DEF IInv, TypeOK
<1>6. Tail(queue(s)) \in Seq(Msgs) /\ Len(Tail(queue(s))) = count[s] - 1
  BY <1>1, <1>3
<1>7. \A k \in 1 .. count[s] - 1 : Tail(queue(s))[k] = queue(s)[k + 1]
  BY <1>1, <1>3
<1>8. queue(s)' \in Seq(Msgs) /\ Len(queue(s)') = count[s] - 1
  <2>1. queue(s)' = [k \in 1 .. count'[s] |-> msgs'[s][Idx(head'[s], k - 1)]]
    BY DEF queue
  <2>2. ASSUME NEW k \in 1 .. count[s] - 1
        PROVE msgs'[s][Idx(head'[s], k - 1)] \in Msgs
    <3>1. k + 1 \in 1 .. Len(queue(s))
      BY <1>1, <1>3
    <3> QED
      BY <1>3, <1>5, <3>1
  <2>3. queue(s)' \in [1 .. count[s] - 1 -> Msgs] /\ count[s] - 1 \in Nat
    BY <1>1, <2>1, <2>2
  <2> QED
    BY <2>3, FunctionIsSeq
<1>9. \A k \in 1 .. count[s] - 1 : queue(s)'[k] = queue(s)[k + 1]
  <2>1. \A k \in 1 .. count[s] - 1 : queue(s)'[k] = msgs'[s][Idx(head'[s], k - 1)]
    BY <1>1 DEF queue
  <2> QED
    BY <1>5, <2>1
<1> QED
  BY <1>1, <1>3, <1>4, <1>6, <1>7, <1>8, <1>9, SeqEqual

(***************************************************************************)
(* The other slots do not change.                                          *)
(***************************************************************************)
LEMMA OtherSlots ==
  ASSUME IInv, IInv', NEW s \in Slots,
         \A r \in Slots \ {s} : /\ live'[r] = live[r] /\ count'[r] = count[r]
                                /\ head'[r] = head[r] /\ msgs'[r] = msgs[r]
  PROVE  chanBar' = [chanBar EXCEPT ![s] = chanBar'[s]]
<1>1. ASSUME NEW r \in Slots, r # s PROVE chanBar'[r] = chanBar[r]
  BY <1>1 DEF chanBar, queue
<1>2. chanBar = [r \in Slots |-> chanBar[r]] /\ chanBar' = [r \in Slots |-> chanBar'[r]]
  BY DEF chanBar
<1> QED
  BY <1>1, <1>2

(***************************************************************************)
(* Every step of the channel table is a step of the FIFO table or leaves   *)
(* it alone.                                                               *)
(***************************************************************************)
LEMMA StepRefines == IInv /\ IInv' /\ [Next]_vars => [CS!Next]_<<chanBar, ret>>
<1> SUFFICES ASSUME IInv, IInv', [Next]_vars, ~ UNCHANGED <<chanBar, ret>>
             PROVE  CS!Next
  OBVIOUS
<1> USE DEF Return, Ok, Err, Opened, CS!Ok, CS!Err, CS!Opened
<1>0. ASSUME UNCHANGED ringVars PROVE chanBar' = chanBar
  BY <1>0 DEF chanBar, queue, ringVars
<1>1. ASSUME NEW t \in Threads, NewPick(t) PROVE CS!Next
  BY <1>0, <1>1 DEF NewPick
<1>2. ASSUME NEW t \in Threads, NewNoSlot(t) PROVE CS!Next
  <2>1. \A s \in Slots : chanBar[s] # Closed
    BY <1>2, QueueType DEF NewNoSlot
  <2> QED
    BY <1>0, <1>2, <2>1 DEF NewNoSlot, CS!Next, CS!New
<1>3. ASSUME NEW t \in Threads, NewOpen(t) PROVE CS!Next
  <2> DEFINE s == arg[t]
  <2>1. s \in Slots /\ ~live[s] /\ live'[s] /\ count'[s] = 0
    BY <1>3 DEF NewOpen, IInv, TypeOK, BootOK
  <2>2. chanBar[s] = Closed
    BY <2>1 DEF chanBar
  <2>3. chanBar'[s] = << >>
    BY <2>1 DEF chanBar, queue
  <2>4. \A r \in Slots \ {s} : /\ live'[r] = live[r] /\ count'[r] = count[r]
                               /\ head'[r] = head[r] /\ msgs'[r] = msgs[r]
    BY <1>3 DEF NewOpen, IInv, TypeOK
  <2>5. chanBar' = [chanBar EXCEPT ![s] = << >>]
    BY <2>1, <2>3, <2>4, OtherSlots
  <2> QED
    BY <1>3, <2>1, <2>2, <2>5 DEF NewOpen, CS!Next, CS!New
<1>4. ASSUME NEW t \in Threads, NEW s \in Slots, NEW m \in Msgs, Send(t, s, m) PROVE CS!Next
  <2>1. live[s] /\ live'[s] /\ count[s] < Depth
    BY <1>4 DEF Send
  <2>2. chanBar[s] = queue(s) /\ chanBar[s] # Closed /\ Len(chanBar[s]) < Depth
    BY <2>1, QueueType
  <2>3. chanBar'[s] = Append(chanBar[s], m)
    BY <1>4, <2>1, <2>2, SendQueue DEF chanBar
  <2>4. \A r \in Slots \ {s} : /\ live'[r] = live[r] /\ count'[r] = count[r]
                               /\ head'[r] = head[r] /\ msgs'[r] = msgs[r]
    BY <1>4 DEF Send, IInv, TypeOK
  <2>5. chanBar' = [chanBar EXCEPT ![s] = Append(@, m)]
    BY <2>3, <2>4, OtherSlots
  <2>6. CS!Send(s, m)
    BY <1>4, <2>2, <2>5 DEF Send, CS!Send
  <2> QED
    BY <2>6 DEF CS!Next
<1>5. ASSUME NEW t \in Threads, NEW s \in Slots, SendFull(t, s) PROVE CS!Next
  <2>1. chanBar[s] # Closed /\ Len(chanBar[s]) = Depth
    BY <1>5, QueueType, DepthAssumption DEF SendFull, IInv, TypeOK
  <2>2. PICK m : m \in Msgs
    <3>1. msgs[s][Idx(head[s], 0)] \in Msgs
      BY <1>5, DepthAssumption DEF SendFull, IInv, RingOK, TypeOK, Ring
    <3> QED
      BY <3>1
  <2>3. CS!Send(s, m)
    BY <1>0, <1>5, <2>1 DEF SendFull, CS!Send
  <2> QED
    BY <2>2, <2>3 DEF CS!Next
<1>6. ASSUME NEW t \in Threads, NEW s \in Slots, Recv(t, s) PROVE CS!Next
  <2>1. live[s] /\ live'[s]
    BY <1>6 DEF Recv
  <2>2. chanBar[s] = queue(s) /\ chanBar[s] # Closed
    BY <2>1, QueueType
  <2>3. /\ chanBar[s] # << >> /\ Head(chanBar[s]) = msgs[s][head[s]]
        /\ chanBar'[s] = Tail(chanBar[s])
    BY <1>6, <2>1, <2>2, RecvQueue DEF chanBar
  <2>4. \A r \in Slots \ {s} : /\ live'[r] = live[r] /\ count'[r] = count[r]
                               /\ head'[r] = head[r] /\ msgs'[r] = msgs[r]
    BY <1>6 DEF Recv, IInv, TypeOK
  <2>5. chanBar' = [chanBar EXCEPT ![s] = Tail(@)]
    BY <2>3, <2>4, OtherSlots
  <2>6. CS!Recv(s)
    BY <1>6, <2>2, <2>3, <2>5 DEF Recv, CS!Recv
  <2> QED
    BY <2>6 DEF CS!Next
<1>7. ASSUME NEW t \in Threads, NEW s \in Slots, RecvEmpty(t, s) PROVE CS!Next
  <2>1. count[s] = 0
    BY <1>7 DEF RecvEmpty, IInv, TypeOK
  <2>2. chanBar[s] = << >>
    BY <1>7, <2>1 DEF RecvEmpty, chanBar, queue
  <2>3. CS!Recv(s)
    BY <1>0, <1>7, <2>2 DEF RecvEmpty, CS!Recv
  <2> QED
    BY <2>3 DEF CS!Next
<1>8. ASSUME NEW t \in Threads, NEW s \in Slots, DestroyLock(t, s) PROVE CS!Next
  BY <1>0, <1>8 DEF DestroyLock
<1>9. ASSUME NEW t \in Threads, DestroyDrain(t) PROVE CS!Next
  <2> DEFINE s == arg[t]
  <2>1. s \in Slots /\ live[s] /\ ~live'[s]
    BY <1>9 DEF DestroyDrain, IInv, TypeOK
  <2>2. chanBar[s] # Closed /\ chanBar'[s] = Closed
    BY <2>1, QueueType DEF chanBar
  <2>3. \A r \in Slots \ {s} : /\ live'[r] = live[r] /\ count'[r] = count[r]
                               /\ head'[r] = head[r] /\ msgs'[r] = msgs[r]
    BY <1>9 DEF DestroyDrain, IInv, TypeOK
  <2>4. chanBar' = [chanBar EXCEPT ![s] = Closed]
    BY <2>1, <2>2, <2>3, OtherSlots
  <2>5. CS!Destroy(s)
    BY <1>9, <2>2, <2>4 DEF DestroyDrain, CS!Destroy
  <2> QED
    BY <2>1, <2>5 DEF CS!Next
<1>10. ASSUME NEW t \in Threads, DestroyEmpty(t) PROVE CS!Next
  <2>1. arg[t] \in Slots /\ chanBar[arg[t]] = Closed
    BY <1>10 DEF DestroyEmpty, IInv, TypeOK, chanBar
  <2> QED
    BY <1>0, <1>10, <2>1 DEF DestroyEmpty, CS!Next, CS!Refuse
<1>11. ASSUME NEW t \in Threads, Refuse(t) PROVE CS!Next
  <2>1. \A s \in Slots : ~live[s] => chanBar[s] = Closed
    BY DEF chanBar
  <2> QED
    BY <1>0, <1>11, <2>1 DEF Refuse, CS!Next, CS!Refuse
<1>12. ASSUME NEW t \in Threads, NEW m \in Msgs, Drop(t, m) PROVE CS!Next
  BY <1>0, <1>12 DEF Drop
<1>13. CASE UNCHANGED vars
  BY <1>0, <1>13 DEF vars, ringVars
<1> QED
  BY <1>1, <1>2, <1>3, <1>4, <1>5, <1>6, <1>7, <1>8, <1>9, <1>10, <1>11, <1>12, <1>13 DEF Next

(***************************************************************************)
(* Whatever the interleaving of new, send, recv and destroy, the caller    *)
(* cannot tell the rings and their locks from FIFO queues on which each    *)
(* call is a single step.                                                  *)
(***************************************************************************)
THEOREM Refinement == Spec => ImplementsFifo
<1>1. Init => CS!Init
  BY DEF Init, CS!Init, chanBar, Ok, CS!Ok
<1>2. IInv /\ IInv' /\ [Next]_vars => [CS!Next]_(CS!absVars)
  BY StepRefines DEF CS!absVars
<1> QED
  BY <1>1, <1>2, Safety, PTL DEF Spec, ImplementsFifo, CS!Spec

-----------------------------------------------------------------------------
(***************************************************************************)
(* Reference counting: how the sets of occupied entries and the sums of    *)
(* references change.                                                      *)
(***************************************************************************)
LEMMA OccupiedFacts ==
  ASSUME NEW s \in Slots, NEW m
  PROVE  /\ IsFiniteSet(Queued(s, m)) /\ Cardinality(Queued(s, m)) \in Nat
         /\ Queued(s, m) = {} => Cardinality(Queued(s, m)) = 0
<1>1. IsFiniteSet(Ring) /\ Queued(s, m) \in SUBSET Ring
  BY FS_Interval, DepthAssumption DEF Ring, Queued, Occupied
<1> QED
  BY <1>1, FS_Subset, FS_CardinalityType, FS_EmptySet

LEMMA SendOccupies ==
  ASSUME IInv, NEW t \in Threads, NEW s \in Slots, NEW m \in Msgs, Send(t, s, m)
  PROVE  tail[s] \notin Occupied(s) /\ Occupied(s)' = Occupied(s) \cup {tail[s]}
<1>1. /\ head[s] \in Ring /\ tail[s] \in Ring /\ count[s] \in Ring /\ tail[s] = Idx(head[s], count[s])
      /\ head' = head /\ count'[s] = count[s] + 1
  BY DepthAssumption DEF IInv, TypeOK, RingOK, Send, Ring
<1>2. tail[s] \notin Occupied(s)
  <2> SUFFICES ASSUME NEW k \in Ring, k < count[s], tail[s] = Idx(head[s], k) PROVE FALSE
    BY DEF Occupied
  <2>1. k # count[s]
    BY <1>1 DEF Ring
  <2> QED
    BY <1>1, <2>1, IdxInjective
<1>3. \A k \in Ring : k < count[s] + 1 <=> k < count[s] \/ k = count[s]
  BY <1>1 DEF Ring
<1> QED
  BY <1>1, <1>2, <1>3 DEF Occupied

LEMMA RecvFrees ==
  ASSUME IInv, NEW t \in Threads, NEW s \in Slots, Recv(t, s)
  PROVE  head[s] \in Occupied(s) /\ Occupied(s)' = Occupied(s) \ {head[s]}
<1>1. /\ head[s] \in Ring /\ 0 \in Ring /\ count[s] \in 1 .. Depth /\ Idx(head[s], 0) = head[s]
      /\ head'[s] = Idx(head[s], 1) /\ count'[s] = count[s] - 1
  <2>1. head[s] \in Ring /\ 0 \in Ring /\ count[s] \in 1 .. Depth
    BY DepthAssumption DEF IInv, TypeOK, Recv, Ring
  <2>2. Idx(head[s], 0) = head[s]
    BY <2>1, IdxLap, DepthAssumption DEF Ring
  <2> QED
    BY <2>1, <2>2 DEF IInv, TypeOK, Recv
<1>2. head[s] \in Occupied(s)
  BY <1>1 DEF Occupied
<1>3. \A k \in Ring : Idx(head'[s], k) = Idx(head[s], k + 1)
  <2>1. 0 \in 0 .. Depth
    BY DepthAssumption
  <2>2. \A k \in Ring : Idx(Idx(head[s], 1), k) = Idx(head[s], k + 1)
    BY <1>1, <2>1, IdxStep
  <2> QED
    BY <1>1, <2>2
<1>4. \A k \in Ring : k < count[s] - 1 => k + 1 \in Ring /\ k + 1 < count[s] /\ k + 1 # 0
  BY <1>1, DepthAssumption DEF Ring
<1>5. \A k \in Ring : k < count[s] /\ k # 0 => k - 1 \in Ring /\ k - 1 < count[s] - 1 /\ (k - 1) + 1 = k
  BY <1>1, DepthAssumption DEF Ring
<1>6. \A k \in Ring : k # 0 => Idx(head[s], k) # head[s]
  BY <1>1, IdxInjective
<1>7. Occupied(s)' \subseteq Occupied(s) \ {head[s]}
  <2> SUFFICES ASSUME NEW i \in Ring, NEW k \in Ring, k < count[s] - 1, i = Idx(head'[s], k)
               PROVE  i \in Occupied(s) \ {head[s]}
    BY <1>1 DEF Occupied
  <2> QED
    BY <1>3, <1>4, <1>6 DEF Occupied
<1>8. Occupied(s) \ {head[s]} \subseteq Occupied(s)'
  <2> SUFFICES ASSUME NEW i \in Ring, NEW k \in Ring, k < count[s], i = Idx(head[s], k), i # head[s]
               PROVE  i \in Occupied(s)'
    BY DEF Occupied
  <2>1. k # 0
    BY <1>1
  <2>2. k - 1 \in Ring /\ k - 1 < count[s] - 1 /\ i = Idx(head'[s], k - 1)
    BY <1>3, <1>5, <2>1
  <2> QED
    BY <1>1, <2>2 DEF Occupied
<1> QED
  BY <1>2, <1>7, <1>8

\* The two families of references are natural numbers over finite sets.
LEMMA RefsFacts ==
  ASSUME TypeOK, NEW m \in Msgs
  PROVE  /\ OwnRefs(m) \in [Threads -> Int] /\ RingRefs(m) \in [Slots -> Nat]
         /\ IsFiniteSet(Threads) /\ IsFiniteSet(Slots)
         /\ SumFunction(OwnRefs(m)) \in Int /\ SumFunction(RingRefs(m)) \in Int
<1>1. IsFiniteSet(Threads) /\ IsFiniteSet(Slots)
  BY ThreadsAssumption, FS_Interval, NSlotsAssumption DEF Slots
<1>2. OwnRefs(m) \in [Threads -> Int]
  BY DEF TypeOK, OwnRefs
<1>3. RingRefs(m) \in [Slots -> Nat]
  BY OccupiedFacts DEF RingRefs
<1>4. SumFunction(OwnRefs(m)) \in Int
  <2>1. Summable(OwnRefs(m), Threads) /\ DOMAIN OwnRefs(m) = Threads
    BY <1>1, <1>2 DEF Summable
  <2> QED
    BY <2>1, SumProperties DEF SumFunction
<1>5. SumFunction(RingRefs(m)) \in Nat
  BY <1>1, <1>3, SumOfNaturals
<1> QED
  BY <1>1, <1>2, <1>3, <1>4, <1>5

\* One caller's references change, or one ring's.
LEMMA OwnChanges ==
  ASSUME TypeOK, NEW m \in Msgs, NEW t \in Threads, NEW n \in Int,
         \A u \in Threads : own'[u][m] = IF u = t THEN n ELSE own[u][m]
  PROVE  SumFunction(OwnRefs(m))' = SumFunction(OwnRefs(m)) - own[t][m] + n
<1>1. OwnRefs(m)' = [OwnRefs(m) EXCEPT ![t] = n]
  BY DEF OwnRefs
<1>2. OwnRefs(m)[t] = own[t][m]
  BY DEF OwnRefs
<1>3. SumFunction([OwnRefs(m) EXCEPT ![t] = n]) = SumFunction(OwnRefs(m)) - OwnRefs(m)[t] + n
  BY RefsFacts, SumChange
<1> QED
  BY <1>1, <1>2, <1>3

LEMMA RingChanges ==
  ASSUME TypeOK, NEW m \in Msgs, NEW s \in Slots, NEW n \in Nat,
         \A r \in Slots : Cardinality(Queued(r, m))' = IF r = s THEN n ELSE Cardinality(Queued(r, m))
  PROVE  SumFunction(RingRefs(m))' = SumFunction(RingRefs(m)) - Cardinality(Queued(s, m)) + n
<1>1. RingRefs(m)' = [RingRefs(m) EXCEPT ![s] = n]
  BY DEF RingRefs
<1>2. RingRefs(m)[s] = Cardinality(Queued(s, m))
  BY DEF RingRefs
<1>3. RingRefs(m) \in [Slots -> Int] /\ n \in Int /\ IsFiniteSet(Slots)
  <2>1. RingRefs(m) \in [Slots -> Nat] /\ IsFiniteSet(Slots)
    BY RefsFacts
  <2> QED
    BY <2>1
<1>4. SumFunction([RingRefs(m) EXCEPT ![s] = n]) = SumFunction(RingRefs(m)) - RingRefs(m)[s] + n
  BY <1>3, SumChange
<1> QED
  BY <1>1, <1>2, <1>4

\* A ring that no call touched holds the same references.
LEMMA RingFrame ==
  ASSUME NEW s \in Slots, head'[s] = head[s], count'[s] = count[s], msgs'[s] = msgs[s]
  PROVE  \A m : Queued(s, m)' = Queued(s, m)
  BY DEF Queued, Occupied

LEMMA RefsFrame ==
  ASSUME RefsBalanced, UNCHANGED <<head, count, msgs, rc, own>>
  PROVE  RefsBalanced'
<1>1. \A m \in Msgs : OwnRefs(m)' = OwnRefs(m) /\ RingRefs(m)' = RingRefs(m)
  BY DEF OwnRefs, RingRefs, Queued, Occupied
<1> QED
  BY <1>1 DEF RefsBalanced

\* Initially each message has one reference, its creator's.
LEMMA RefsInit == Init => RefsBalanced
<1> SUFFICES ASSUME Init, NEW m \in Msgs
             PROVE  rc[m] = SumFunction(OwnRefs(m)) + SumFunction(RingRefs(m))
  BY DEF RefsBalanced
<1>1. TypeOK
  BY InitIInv DEF IInv
<1>2. SumFunction(RingRefs(m)) = 0
  <2>1. \A s \in Slots : Queued(s, m) = {}
    BY DEF Init, Queued, Occupied, Ring
  <2>2. \A s \in Slots : RingRefs(m)[s] = 0
    BY <2>1, OccupiedFacts DEF RingRefs
  <2>3. RingRefs(m) \in [Slots -> Nat] /\ IsFiniteSet(Slots)
    BY <1>1, RefsFacts
  <2> QED
    BY <2>2, <2>3, SumOfNaturals
<1>3. SumFunction(OwnRefs(m)) = 1
  <2>1. PICK creator \in [Msgs -> Threads] :
               own = [t \in Threads |-> [n \in Msgs |-> IF creator[n] = t THEN 1 ELSE 0]]
    BY DEF Init
  <2>2. PICK c \in Threads : c = creator[m]
    OBVIOUS
  <2>3. OwnRefs(m) = [t \in Threads |-> IF t = c THEN 1 ELSE 0]
    BY <2>1, <2>2 DEF OwnRefs
  <2> QED
    BY <2>3, ThreadsAssumption, SumOfPoint
<1> QED
  BY <1>2, <1>3 DEF Init

LEMMA RefsSend ==
  ASSUME IInv, RefsBalanced, NEW t \in Threads, NEW s \in Slots, NEW m \in Msgs, Send(t, s, m)
  PROVE  RefsBalanced'
<1> SUFFICES ASSUME NEW n \in Msgs
             PROVE  (rc[n] = SumFunction(OwnRefs(n)) + SumFunction(RingRefs(n)))'
  BY DEF RefsBalanced
<1> DEFINE e == Cardinality(Queued(s, n))
<1> DEFINE d == IF n = m THEN 1 ELSE 0
<1>1. TypeOK /\ rc[n] \in Int /\ rc[n] = SumFunction(OwnRefs(n)) + SumFunction(RingRefs(n))
  BY DEF IInv, TypeOK, RefsBalanced
<1>2. rc'[n] = rc[n] + d /\ OwnRefs(n)' = OwnRefs(n)
  BY <1>1 DEF Send, TypeOK, OwnRefs
<1>3. tail[s] \notin Occupied(s) /\ Occupied(s)' = Occupied(s) \cup {tail[s]}
  BY SendOccupies
<1>4. Queued(s, n)' = IF n = m THEN Queued(s, n) \cup {tail[s]} ELSE Queued(s, n)
  <2>1. tail[s] \in Ring /\ \A i \in Ring : msgs'[s][i] = IF i = tail[s] THEN m ELSE msgs[s][i]
    BY <1>1 DEF Send, TypeOK
  <2>2. Occupied(s) \subseteq Ring
    BY DEF Occupied
  <2> QED
    BY <1>3, <2>1, <2>2 DEF Queued
<1>5. Cardinality(Queued(s, n))' = e + d /\ e \in Nat
  <2>1. IsFiniteSet(Queued(s, n)) /\ e \in Nat
    BY OccupiedFacts
  <2>2. tail[s] \notin Queued(s, n)
    BY <1>3 DEF Queued
  <2>3. Cardinality(Queued(s, n) \cup {tail[s]}) = e + 1
    BY <2>1, <2>2, FS_AddElement
  <2> QED
    BY <1>4, <2>1, <2>3
<1>6. \A r \in Slots : Cardinality(Queued(r, n))' = IF r = s THEN e + d ELSE Cardinality(Queued(r, n))
  <2> SUFFICES ASSUME NEW r \in Slots, r # s PROVE Queued(r, n)' = Queued(r, n)
    BY <1>5
  <2>1. head'[r] = head[r] /\ count'[r] = count[r] /\ msgs'[r] = msgs[r]
    BY <1>1 DEF Send, TypeOK
  <2> QED
    BY <2>1, RingFrame
<1>7. d \in Nat /\ e + d \in Nat
  BY <1>5
<1> HIDE DEF e, d
<1>8. SumFunction(RingRefs(n))' = SumFunction(RingRefs(n)) - Cardinality(Queued(s, n)) + (e + d)
  BY <1>1, <1>6, <1>7, RingChanges
<1>9. SumFunction(OwnRefs(n)) \in Int /\ SumFunction(RingRefs(n)) \in Int
  BY <1>1, RefsFacts
<1>10. SumFunction(OwnRefs(n))' = SumFunction(OwnRefs(n)) /\ Cardinality(Queued(s, n)) = e
  BY <1>2 DEF e
<1> QED
  BY <1>1, <1>2, <1>5, <1>7, <1>8, <1>9, <1>10

LEMMA RefsRecv ==
  ASSUME IInv, RefsBalanced, NEW t \in Threads, NEW s \in Slots, Recv(t, s)
  PROVE  RefsBalanced'
<1> SUFFICES ASSUME NEW n \in Msgs
             PROVE  (rc[n] = SumFunction(OwnRefs(n)) + SumFunction(RingRefs(n)))'
  BY DEF RefsBalanced
<1> DEFINE m == msgs[s][head[s]]
<1> DEFINE e == Cardinality(Queued(s, n))
<1> DEFINE d == IF n = m THEN 1 ELSE 0
<1>1. TypeOK /\ rc[n] \in Int /\ rc[n] = SumFunction(OwnRefs(n)) + SumFunction(RingRefs(n))
  BY DEF IInv, TypeOK, RefsBalanced
<1>2. rc'[n] = rc[n] /\ own[t][n] \in Int /\ head[s] \in Ring
      /\ \A u \in Threads : own'[u][n] = IF u = t THEN own[t][n] + d ELSE own[u][n]
  BY <1>1 DEF Recv, TypeOK
<1>3. head[s] \in Occupied(s) /\ Occupied(s)' = Occupied(s) \ {head[s]}
  BY RecvFrees
<1>4. Queued(s, n)' = IF n = m THEN Queued(s, n) \ {head[s]} ELSE Queued(s, n)
  <2>1. \A i \in Ring : i # head[s] => msgs'[s][i] = msgs[s][i]
    BY <1>1 DEF Recv, TypeOK
  <2>2. Occupied(s) \subseteq Ring
    BY DEF Occupied
  <2> QED
    BY <1>3, <2>1, <2>2 DEF Queued
<1>5. Cardinality(Queued(s, n))' = e - d /\ e \in Nat /\ e - d \in Nat
  <2>1. IsFiniteSet(Queued(s, n)) /\ e \in Nat /\ Cardinality(Queued(s, n))' \in Nat
    BY <1>4, OccupiedFacts, FS_RemoveElement, FS_CardinalityType
  <2>2. n = m => head[s] \in Queued(s, n)
    BY <1>3 DEF Queued
  <2>3. n = m => Cardinality(Queued(s, n) \ {head[s]}) = e - 1
    BY <2>1, <2>2, FS_RemoveElement
  <2> QED
    BY <1>4, <2>1, <2>3
<1>6. \A r \in Slots : Cardinality(Queued(r, n))' = IF r = s THEN e - d ELSE Cardinality(Queued(r, n))
  <2> SUFFICES ASSUME NEW r \in Slots, r # s PROVE Queued(r, n)' = Queued(r, n)
    BY <1>5
  <2>1. head'[r] = head[r] /\ count'[r] = count[r] /\ msgs'[r] = msgs[r]
    BY <1>1 DEF Recv, TypeOK
  <2> QED
    BY <2>1, RingFrame
<1>7. d \in Nat /\ own[t][n] + d \in Int
  BY <1>2
<1>8. Cardinality(Queued(s, n)) = e
  OBVIOUS
<1> HIDE DEF e, d, m
<1>9. SumFunction(RingRefs(n))' = SumFunction(RingRefs(n)) - Cardinality(Queued(s, n)) + (e - d)
  BY <1>1, <1>5, <1>6, RingChanges
<1>10. SumFunction(OwnRefs(n))' = SumFunction(OwnRefs(n)) - own[t][n] + (own[t][n] + d)
  BY <1>1, <1>2, <1>7, OwnChanges
<1>11. SumFunction(OwnRefs(n)) \in Int /\ SumFunction(RingRefs(n)) \in Int
  BY <1>1, RefsFacts
<1> QED
  BY <1>1, <1>2, <1>5, <1>7, <1>8, <1>9, <1>10, <1>11

\* channel_new and channel_destroy leave the ring of one slot empty.
LEMMA RefsEmptied ==
  ASSUME IInv, RefsBalanced, NEW s \in Slots, count' = [count EXCEPT ![s] = 0],
         head' = [head EXCEPT ![s] = 0], UNCHANGED <<msgs, own>>,
         \A m \in Msgs : rc'[m] = rc[m] - Cardinality(Queued(s, m))
  PROVE  RefsBalanced'
<1> SUFFICES ASSUME NEW n \in Msgs
             PROVE  (rc[n] = SumFunction(OwnRefs(n)) + SumFunction(RingRefs(n)))'
  BY DEF RefsBalanced
<1>1. TypeOK /\ rc[n] \in Int /\ rc[n] = SumFunction(OwnRefs(n)) + SumFunction(RingRefs(n))
  BY DEF IInv, TypeOK, RefsBalanced
<1>2. OwnRefs(n)' = OwnRefs(n)
  BY DEF OwnRefs
<1>3. Cardinality(Queued(s, n))' = 0
  <2>1. Queued(s, n)' = {}
    BY <1>1 DEF TypeOK, Queued, Occupied, Ring
  <2> QED
    BY <2>1, FS_EmptySet
<1>4. \A r \in Slots : Cardinality(Queued(r, n))' = IF r = s THEN 0 ELSE Cardinality(Queued(r, n))
  <2> SUFFICES ASSUME NEW r \in Slots, r # s PROVE Queued(r, n)' = Queued(r, n)
    BY <1>3
  <2>1. head'[r] = head[r] /\ count'[r] = count[r] /\ msgs'[r] = msgs[r]
    BY <1>1 DEF TypeOK
  <2> QED
    BY <2>1, RingFrame
<1>5. SumFunction(RingRefs(n))' = SumFunction(RingRefs(n)) - Cardinality(Queued(s, n)) + 0
  BY <1>1, <1>4, RingChanges
<1>6. /\ SumFunction(OwnRefs(n)) \in Int /\ SumFunction(RingRefs(n)) \in Int
      /\ Cardinality(Queued(s, n)) \in Nat
  BY <1>1, RefsFacts, OccupiedFacts
<1> QED
  BY <1>1, <1>2, <1>5, <1>6

LEMMA RefsDrop ==
  ASSUME IInv, RefsBalanced, NEW t \in Threads, NEW m \in Msgs, Drop(t, m)
  PROVE  RefsBalanced'
<1> SUFFICES ASSUME NEW n \in Msgs
             PROVE  (rc[n] = SumFunction(OwnRefs(n)) + SumFunction(RingRefs(n)))'
  BY DEF RefsBalanced
<1> DEFINE d == IF n = m THEN 1 ELSE 0
<1>1. TypeOK /\ rc[n] \in Int /\ rc[n] = SumFunction(OwnRefs(n)) + SumFunction(RingRefs(n))
  BY DEF IInv, TypeOK, RefsBalanced
<1>2. rc'[n] = rc[n] - d /\ own[t][n] \in Int /\ d \in Nat /\ own[t][n] - d \in Int
      /\ \A u \in Threads : own'[u][n] = IF u = t THEN own[t][n] - d ELSE own[u][n]
  BY <1>1 DEF Drop, TypeOK
<1>3. RingRefs(n)' = RingRefs(n)
  BY DEF Drop, ringVars, RingRefs, Queued, Occupied
<1> HIDE DEF d
<1>4. SumFunction(OwnRefs(n))' = SumFunction(OwnRefs(n)) - own[t][n] + (own[t][n] - d)
  BY <1>1, <1>2, OwnChanges
<1>5. SumFunction(OwnRefs(n)) \in Int /\ SumFunction(RingRefs(n)) \in Int
  BY <1>1, RefsFacts
<1> QED
  BY <1>1, <1>2, <1>3, <1>4, <1>5

LEMMA RefsStep == IInv /\ RefsBalanced /\ [Next]_vars => RefsBalanced'
<1> SUFFICES ASSUME IInv, RefsBalanced, [Next]_vars PROVE RefsBalanced'
  OBVIOUS
<1>1. CASE UNCHANGED vars
  BY <1>1, RefsFrame DEF vars
<1>2. ASSUME NEW t \in Threads,
             \/ NewPick(t) \/ NewNoSlot(t) \/ DestroyEmpty(t) \/ Refuse(t)
             \/ \E s \in Slots : SendFull(t, s) \/ RecvEmpty(t, s) \/ DestroyLock(t, s)
      PROVE  RefsBalanced'
  <2>1. UNCHANGED <<head, count, msgs, rc, own>>
    BY <1>2 DEF NewPick, NewNoSlot, DestroyEmpty, Refuse, SendFull, RecvEmpty, DestroyLock, ringVars, refVars
  <2> QED
    BY <2>1, RefsFrame
<1>3. ASSUME NEW t \in Threads, NewOpen(t) PROVE RefsBalanced'
  <2>1. arg[t] \in Slots /\ count[arg[t]] = 0
    BY <1>3 DEF NewOpen, IInv, TypeOK, RingOK, BootOK
  <2>2. \A m \in Msgs : rc[m] \in Int /\ Cardinality(Queued(arg[t], m)) = 0
    <3>1. \A m : Queued(arg[t], m) = {}
      BY <2>1 DEF Queued, Occupied, Ring
    <3> QED
      BY <3>1, FS_EmptySet DEF IInv, TypeOK
  <2>3. \A m \in Msgs : rc'[m] = rc[m] - Cardinality(Queued(arg[t], m))
    BY <1>3, <2>2 DEF NewOpen, refVars
  <2> QED
    BY <1>3, <2>1, <2>3, RefsEmptied DEF NewOpen, refVars
<1>4. ASSUME NEW t \in Threads, DestroyDrain(t) PROVE RefsBalanced'
  <2>1. arg[t] \in Slots
    BY DEF IInv, TypeOK
  <2> QED
    BY <1>4, <2>1, RefsEmptied DEF DestroyDrain
<1> QED
  BY <1>1, <1>2, <1>3, <1>4, RefsSend, RefsRecv, RefsDrop DEF Next

(***************************************************************************)
(* No reference is lost or released twice: the count in the header of each *)
(* string is what its holders and the rings hold, for any number of        *)
(* threads, slots and messages and any depth.                              *)
(***************************************************************************)
THEOREM RefsCorrect == Spec => []RefsBalanced
<1>1. Spec => []IInv
  BY Safety
<1> QED
  BY <1>1, RefsInit, RefsStep, PTL DEF Spec
=============================================================================
