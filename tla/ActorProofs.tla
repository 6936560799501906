---------------------------- MODULE ActorProofs ----------------------------
(***************************************************************************)
(* For any number of threads, slots and messages and any mailbox depth: no *)
(* worker outlives its actor, a live actor has a worker, a slot is         *)
(* restarted by at most one supervise, and a restart keeps the mailbox.    *)
(***************************************************************************)
EXTENDS Actor, SetFacts, SequenceTheorems, TLAPS

LEMMA SlotsFacts == Slots \subseteq Nat /\ 0 \in Slots
BY NSlotsAssumption DEF Slots

LEMMA InitIInv == Init => IInv
<1> SUFFICES ASSUME Init PROVE IInv
  OBVIOUS
<1>1. TypeOK
  BY SlotsFacts, NoThreadAssumption, MaxFailsAssumption DEF Init, TypeOK, WorkerStates, CallStates
<1>2. BootHolder /\ WorkerInLiveSlot
  BY NoThreadAssumption DEF Init, BootHolder, WorkerInLiveSlot, Holding
<1>3. MutexWithActor /\ LiveActorHasWorker /\ OnceOwner /\ SuperviseOnce
  BY SlotsFacts DEF Init, MutexWithActor, LiveActorHasWorker, OnceOwner, SuperviseOnce
<1> QED
  BY <1>1, <1>2, <1>3 DEF IInv

(***************************************************************************)
(* One lemma per kind of step: it keeps the inductive invariant.           *)
(***************************************************************************)
LEMMA WorkerLoopStep ==
  ASSUME IInv, NEW s \in Slots, wk[s] # "none", WorkerLoop(s)
  PROVE  IInv'
<1> USE SlotsFacts, NoThreadAssumption DEF IInv
<1>1. TypeOK'
  BY DEF WorkerLoop, callVars, supVars, heapVars, TypeOK, WorkerStates, CallStates
<1>2. BootHolder'
  <2>1. \A r \in Slots : r # s => wk'[r] = wk[r]
    BY DEF WorkerLoop, TypeOK
  <2>2. boot' = boot /\ pc' = pc /\ arg' = arg /\ live' = live /\ stop_req' = stop_req
    BY DEF WorkerLoop, callVars
  <2>3. \A u \in Threads : arg[u] \in Slots
    BY DEF TypeOK
  <2>4. ASSUME NEW u \in Threads, pc[u] \in {"destroy", "restart"}
        PROVE  wk'[arg[u]] = "none"
    BY <2>1, <2>3, <2>4 DEF BootHolder
  <2> QED
    BY <2>2, <2>4 DEF BootHolder
<1>3. MutexWithActor'
  BY DEF WorkerLoop, callVars, supVars, heapVars, MutexWithActor, TypeOK
<1>4. WorkerInLiveSlot'
  <2>1. \A r \in Slots : r # s => wk'[r] = wk[r]
    BY DEF WorkerLoop, TypeOK
  <2> QED
    BY <2>1 DEF WorkerLoop, callVars, WorkerInLiveSlot, TypeOK
<1>5. LiveActorHasWorker'
  BY DEF WorkerLoop, callVars, supVars, heapVars, LiveActorHasWorker, BootHolder, WorkerInLiveSlot, Holding, TypeOK
<1>6. OnceOwner'
  BY DEF WorkerLoop, callVars, supVars, heapVars, OnceOwner, BootHolder, Holding, TypeOK
<1>7. SuperviseOnce'
  BY DEF WorkerLoop, callVars, supVars, heapVars, SuperviseOnce, OnceOwner, BootHolder, Holding, TypeOK
<1> QED
  BY <1>1, <1>2, <1>3, <1>4, <1>5, <1>6, <1>7

LEMMA SpawnStep ==
  ASSUME IInv, NEW t \in Threads, NEW s \in Slots, Spawn(t, s)
  PROVE  IInv'
<1> USE SlotsFacts, NoThreadAssumption DEF IInv
<1>1. TypeOK'
  <2>1. box' \in [Slots -> Seq(Msgs)] /\ \A r \in Slots : Len(box'[r]) =< Depth
    <3>1. \A r \in Slots : box'[r] = IF r = s THEN << >> ELSE box[r]
      BY DEF Spawn, TypeOK
    <3> QED
      BY <3>1, DepthAssumption DEF Spawn, TypeOK
  <2>2. /\ live' \in [Slots -> BOOLEAN] /\ running' \in [Slots -> BOOLEAN]
        /\ stop_req' \in [Slots -> BOOLEAN] /\ wk' \in [Slots -> WorkerStates]
        /\ woken' \in [Slots -> BOOLEAN] /\ mutex' \in [Slots -> BOOLEAN]
    BY DEF Spawn, callVars, supVars, TypeOK, WorkerStates
  <2>3. /\ boot' \in Threads \cup {NoThread}
        /\ pc' \in [Threads -> CallStates] /\ arg' \in [Threads -> Slots]
        /\ once' \in [Slots -> BOOLEAN] /\ sup' \in SUBSET Threads
        /\ restarts' \in [Slots -> Nat]
    BY DEF Spawn, callVars, supVars, TypeOK, CallStates
  <2>4. copies' \in Int /\ lost' \in Nat /\ fails' \in 0 .. MaxFails
    BY MaxFailsAssumption DEF Spawn, callVars, supVars, TypeOK
  <2> QED
    BY <2>1, <2>2, <2>3, <2>4 DEF TypeOK
<1>2. BootHolder'
  BY DEF Spawn, CanCall, FirstFree, callVars, supVars, BootHolder, Holding, TypeOK
<1>3. MutexWithActor'
  BY DEF Spawn, CanCall, FirstFree, callVars, supVars, MutexWithActor, TypeOK
<1>4. WorkerInLiveSlot'
  BY DEF Spawn, CanCall, FirstFree, callVars, supVars, WorkerInLiveSlot, BootHolder, MutexWithActor, Holding, TypeOK
<1>5. LiveActorHasWorker'
  BY DEF Spawn, CanCall, FirstFree, callVars, supVars, LiveActorHasWorker, BootHolder, WorkerInLiveSlot, Holding, TypeOK
<1>6. OnceOwner'
  BY DEF Spawn, CanCall, FirstFree, callVars, supVars, OnceOwner, BootHolder, Holding, TypeOK
<1>7. SuperviseOnce'
  BY DEF Spawn, CanCall, FirstFree, callVars, supVars, SuperviseOnce, OnceOwner, BootHolder, Holding, TypeOK
<1> QED
  BY <1>1, <1>2, <1>3, <1>4, <1>5, <1>6, <1>7

LEMMA SendStep ==
  ASSUME IInv, NEW t \in Threads, NEW s \in Slots, NEW m \in Msgs, Send(t, s, m)
  PROVE  IInv'
<1> USE SlotsFacts, NoThreadAssumption DEF IInv
<1>1. TypeOK'
  <2>1. box' \in [Slots -> Seq(Msgs)] /\ \A r \in Slots : Len(box'[r]) =< Depth
    <3>1. \A r \in Slots : box'[r] = IF r = s THEN Append(box[s], m) ELSE box[r]
      BY DEF Send, TypeOK
    <3>2. box[s] \in Seq(Msgs) /\ Len(box[s]) \in Nat /\ Len(box[s]) =< Depth
      BY DEF TypeOK
    <3>3. Append(box[s], m) \in Seq(Msgs) /\ Len(Append(box[s], m)) =< Depth
      BY <3>2, AppendProperties, DepthAssumption DEF Send
    <3>4. box' \in [Slots -> Seq(Msgs)]
      <4>1. box' = [box EXCEPT ![s] = Append(box[s], m)] /\ box \in [Slots -> Seq(Msgs)]
        BY DEF Send, TypeOK
      <4> QED
        BY <4>1, <3>3
    <3> QED
      BY <3>1, <3>3, <3>4 DEF TypeOK
  <2>2. /\ live' \in [Slots -> BOOLEAN] /\ running' \in [Slots -> BOOLEAN]
        /\ stop_req' \in [Slots -> BOOLEAN] /\ wk' \in [Slots -> WorkerStates]
        /\ woken' \in [Slots -> BOOLEAN] /\ mutex' \in [Slots -> BOOLEAN]
    BY DEF Send, Wake, callVars, supVars, TypeOK, WorkerStates
  <2>3. /\ boot' \in Threads \cup {NoThread}
        /\ pc' \in [Threads -> CallStates] /\ arg' \in [Threads -> Slots]
        /\ once' \in [Slots -> BOOLEAN] /\ sup' \in SUBSET Threads
        /\ restarts' \in [Slots -> Nat]
    BY DEF Send, Wake, callVars, supVars, TypeOK, CallStates
  <2>4. copies' \in Int /\ lost' \in Nat /\ fails' \in 0 .. MaxFails
    BY MaxFailsAssumption DEF Send, Wake, callVars, supVars, TypeOK
  <2> QED
    BY <2>1, <2>2, <2>3, <2>4 DEF TypeOK
<1>2. BootHolder'
  BY DEF Send, CanCall, Wake, callVars, supVars, BootHolder, Holding, TypeOK
<1>3. MutexWithActor'
  BY DEF Send, CanCall, Wake, callVars, supVars, MutexWithActor, TypeOK
<1>4. WorkerInLiveSlot'
  BY DEF Send, CanCall, Wake, callVars, supVars, WorkerInLiveSlot, BootHolder, MutexWithActor, Holding, TypeOK
<1>5. LiveActorHasWorker'
  BY DEF Send, CanCall, Wake, callVars, supVars, LiveActorHasWorker, BootHolder, WorkerInLiveSlot, Holding, TypeOK
<1>6. OnceOwner'
  BY DEF Send, CanCall, Wake, callVars, supVars, OnceOwner, BootHolder, Holding, TypeOK
<1>7. SuperviseOnce'
  BY DEF Send, CanCall, Wake, callVars, supVars, SuperviseOnce, OnceOwner, BootHolder, Holding, TypeOK
<1> QED
  BY <1>1, <1>2, <1>3, <1>4, <1>5, <1>6, <1>7

LEMMA RecvStep ==
  ASSUME IInv, NEW t \in Threads, NEW s \in Slots, Recv(t, s)
  PROVE  IInv'
<1> USE SlotsFacts, NoThreadAssumption DEF IInv
<1>1. TypeOK'
  <2>1. box' \in [Slots -> Seq(Msgs)] /\ \A r \in Slots : Len(box'[r]) =< Depth
    <3>1. \A r \in Slots : box'[r] = IF r = s THEN Tail(box[s]) ELSE box[r]
      BY DEF Recv, TypeOK
    <3>2. box[s] \in Seq(Msgs) /\ Len(box[s]) \in Nat /\ Len(box[s]) =< Depth
      BY DEF TypeOK
    <3>3. Tail(box[s]) \in Seq(Msgs) /\ Len(Tail(box[s])) =< Depth
      BY <3>2, HeadTailProperties, DepthAssumption DEF Recv
    <3>4. box' \in [Slots -> Seq(Msgs)]
      <4>1. box' = [box EXCEPT ![s] = Tail(box[s])] /\ box \in [Slots -> Seq(Msgs)]
        BY DEF Recv, TypeOK
      <4> QED
        BY <4>1, <3>3
    <3> QED
      BY <3>1, <3>3, <3>4 DEF TypeOK
  <2>2. /\ live' \in [Slots -> BOOLEAN] /\ running' \in [Slots -> BOOLEAN]
        /\ stop_req' \in [Slots -> BOOLEAN] /\ wk' \in [Slots -> WorkerStates]
        /\ woken' \in [Slots -> BOOLEAN] /\ mutex' \in [Slots -> BOOLEAN]
    BY DEF Recv, callVars, supVars, TypeOK, WorkerStates
  <2>3. /\ boot' \in Threads \cup {NoThread}
        /\ pc' \in [Threads -> CallStates] /\ arg' \in [Threads -> Slots]
        /\ once' \in [Slots -> BOOLEAN] /\ sup' \in SUBSET Threads
        /\ restarts' \in [Slots -> Nat]
    BY DEF Recv, callVars, supVars, TypeOK, CallStates
  <2>4. copies' \in Int /\ lost' \in Nat /\ fails' \in 0 .. MaxFails
    BY MaxFailsAssumption DEF Recv, callVars, supVars, TypeOK
  <2> QED
    BY <2>1, <2>2, <2>3, <2>4 DEF TypeOK
<1>2. BootHolder'
  BY DEF Recv, CanCall, callVars, supVars, BootHolder, Holding, TypeOK
<1>3. MutexWithActor'
  BY DEF Recv, CanCall, callVars, supVars, MutexWithActor, TypeOK
<1>4. WorkerInLiveSlot'
  BY DEF Recv, CanCall, callVars, supVars, WorkerInLiveSlot, BootHolder, MutexWithActor, Holding, TypeOK
<1>5. LiveActorHasWorker'
  BY DEF Recv, CanCall, callVars, supVars, LiveActorHasWorker, BootHolder, WorkerInLiveSlot, Holding, TypeOK
<1>6. OnceOwner'
  BY DEF Recv, CanCall, callVars, supVars, OnceOwner, BootHolder, Holding, TypeOK
<1>7. SuperviseOnce'
  BY DEF Recv, CanCall, callVars, supVars, SuperviseOnce, OnceOwner, BootHolder, Holding, TypeOK
<1> QED
  BY <1>1, <1>2, <1>3, <1>4, <1>5, <1>6, <1>7

LEMMA StopWorkerStep ==
  ASSUME IInv, NEW t \in Threads, NEW s \in Slots, NEW l \in {"destroy_join", "restart_join"},
         boot = NoThread, StopWorker(t, s, l),
         \/ pc[t] = "idle"
         \/ pc[t] = "supervise" /\ s = arg[t] /\ l = "restart_join"
  PROVE  IInv'
<1> USE SlotsFacts, NoThreadAssumption DEF IInv
<1>1. TypeOK'
  BY DEF StopWorker, Wake, Goto, supVars, heapVars, TypeOK, WorkerStates, CallStates
<1>2. BootHolder'
  BY DEF StopWorker, Wake, Goto, supVars, heapVars, BootHolder, Holding, TypeOK
<1>3. MutexWithActor'
  BY DEF StopWorker, Wake, Goto, supVars, heapVars, MutexWithActor, TypeOK
<1>4. WorkerInLiveSlot'
  BY DEF StopWorker, Wake, Goto, supVars, heapVars, WorkerInLiveSlot, BootHolder, MutexWithActor, Holding, TypeOK
<1>5. LiveActorHasWorker'
  BY DEF StopWorker, Wake, Goto, supVars, heapVars, LiveActorHasWorker, BootHolder, WorkerInLiveSlot, Holding, TypeOK
<1>6. OnceOwner'
  BY DEF StopWorker, Wake, Goto, supVars, heapVars, OnceOwner, BootHolder, Holding, TypeOK
<1>7. SuperviseOnce'
  BY DEF StopWorker, Wake, Goto, supVars, heapVars, SuperviseOnce, OnceOwner, BootHolder, Holding, TypeOK
<1> QED
  BY <1>1, <1>2, <1>3, <1>4, <1>5, <1>6, <1>7

LEMMA JoinStep ==
  ASSUME IInv, NEW t \in Threads, NEW l \in {"destroy", "restart"},
         Join(t, IF l = "destroy" THEN "destroy_join" ELSE "restart_join", l)
  PROVE  IInv'
<1> USE SlotsFacts, NoThreadAssumption DEF IInv
<1>1. TypeOK'
  BY DEF Join, Goto, supVars, heapVars, TypeOK, WorkerStates, CallStates
<1>2. BootHolder'
  BY DEF Join, Goto, supVars, heapVars, BootHolder, Holding, TypeOK
<1>3. MutexWithActor'
  BY DEF Join, Goto, supVars, heapVars, MutexWithActor, TypeOK
<1>4. WorkerInLiveSlot'
  BY DEF Join, Goto, supVars, heapVars, WorkerInLiveSlot, BootHolder, MutexWithActor, Holding, TypeOK
<1>5. LiveActorHasWorker'
  BY DEF Join, Goto, supVars, heapVars, LiveActorHasWorker, BootHolder, WorkerInLiveSlot, Holding, TypeOK
<1>6. OnceOwner'
  BY DEF Join, Goto, supVars, heapVars, OnceOwner, BootHolder, Holding, TypeOK
<1>7. SuperviseOnce'
  BY DEF Join, Goto, supVars, heapVars, SuperviseOnce, OnceOwner, BootHolder, Holding, TypeOK
<1> QED
  BY <1>1, <1>2, <1>3, <1>4, <1>5, <1>6, <1>7

LEMMA DestroyDrainStep ==
  ASSUME IInv, NEW t \in Threads, DestroyDrain(t)
  PROVE  IInv'
<1> USE SlotsFacts, NoThreadAssumption DEF IInv
<1>1. TypeOK'
  <2>1. box' \in [Slots -> Seq(Msgs)] /\ \A r \in Slots : Len(box'[r]) =< Depth
    <3>1. \A r \in Slots : box'[r] = IF r = arg[t] THEN << >> ELSE box[r]
      BY DEF DestroyDrain, TypeOK
    <3> QED
      BY <3>1, DepthAssumption DEF DestroyDrain, TypeOK
  <2>2. /\ live' \in [Slots -> BOOLEAN] /\ running' \in [Slots -> BOOLEAN]
        /\ stop_req' \in [Slots -> BOOLEAN] /\ wk' \in [Slots -> WorkerStates]
        /\ woken' \in [Slots -> BOOLEAN] /\ mutex' \in [Slots -> BOOLEAN]
    BY DEF DestroyDrain, Goto, supVars, TypeOK, WorkerStates
  <2>3. /\ boot' \in Threads \cup {NoThread}
        /\ pc' \in [Threads -> CallStates] /\ arg' \in [Threads -> Slots]
        /\ once' \in [Slots -> BOOLEAN] /\ sup' \in SUBSET Threads
        /\ restarts' \in [Slots -> Nat]
    BY DEF DestroyDrain, Goto, supVars, TypeOK, CallStates
  <2>4. copies' \in Int /\ lost' \in Nat /\ fails' \in 0 .. MaxFails
    BY MaxFailsAssumption DEF DestroyDrain, Goto, supVars, TypeOK
  <2> QED
    BY <2>1, <2>2, <2>3, <2>4 DEF TypeOK
<1>2. BootHolder'
  BY DEF DestroyDrain, Goto, supVars, BootHolder, Holding, TypeOK
<1>3. MutexWithActor'
  BY DEF DestroyDrain, Goto, supVars, MutexWithActor, TypeOK
<1>4. WorkerInLiveSlot'
  BY DEF DestroyDrain, Goto, supVars, WorkerInLiveSlot, BootHolder, MutexWithActor, Holding, TypeOK
<1>5. LiveActorHasWorker'
  BY DEF DestroyDrain, Goto, supVars, LiveActorHasWorker, BootHolder, WorkerInLiveSlot, Holding, TypeOK
<1>6. OnceOwner'
  BY DEF DestroyDrain, Goto, supVars, OnceOwner, BootHolder, Holding, TypeOK
<1>7. SuperviseOnce'
  BY DEF DestroyDrain, Goto, supVars, SuperviseOnce, OnceOwner, BootHolder, Holding, TypeOK
<1> QED
  BY <1>1, <1>2, <1>3, <1>4, <1>5, <1>6, <1>7

LEMMA RestartCreateStep ==
  ASSUME IInv, NEW t \in Threads, RestartCreate(t)
  PROVE  IInv'
<1> USE SlotsFacts, NoThreadAssumption DEF IInv
<1>1. TypeOK'
  <2>1. box' \in [Slots -> Seq(Msgs)] /\ \A r \in Slots : Len(box'[r]) =< Depth
    BY DEF RestartCreate, TypeOK
  <2>2. /\ live' \in [Slots -> BOOLEAN] /\ running' \in [Slots -> BOOLEAN]
        /\ stop_req' \in [Slots -> BOOLEAN] /\ wk' \in [Slots -> WorkerStates]
        /\ woken' \in [Slots -> BOOLEAN] /\ mutex' \in [Slots -> BOOLEAN]
    BY DEF RestartCreate, Goto, TypeOK, WorkerStates
  <2>3. /\ boot' \in Threads \cup {NoThread}
        /\ pc' \in [Threads -> CallStates] /\ arg' \in [Threads -> Slots]
        /\ once' \in [Slots -> BOOLEAN] /\ sup' \in SUBSET Threads
        /\ restarts' \in [Slots -> Nat]
    BY DEF RestartCreate, Goto, TypeOK, CallStates
  <2>4. copies' \in Int /\ lost' \in Nat /\ fails' \in 0 .. MaxFails
    BY MaxFailsAssumption DEF RestartCreate, Goto, TypeOK
  <2> QED
    BY <2>1, <2>2, <2>3, <2>4 DEF TypeOK
<1>2. BootHolder'
  BY DEF RestartCreate, Goto, BootHolder, Holding, TypeOK
<1>3. MutexWithActor'
  BY DEF RestartCreate, Goto, MutexWithActor, TypeOK
<1>4. WorkerInLiveSlot'
  BY DEF RestartCreate, Goto, WorkerInLiveSlot, BootHolder, MutexWithActor, Holding, TypeOK
<1>5. LiveActorHasWorker'
  BY DEF RestartCreate, Goto, LiveActorHasWorker, BootHolder, WorkerInLiveSlot, Holding, TypeOK
<1>6. OnceOwner'
  <2>1. \A u \in Threads \ {t} : arg'[u] = arg[u] /\ pc'[u] = pc[u]
    BY DEF RestartCreate, Goto, TypeOK
  <2>2. \A r \in Slots : restarts'[r] # restarts[r] => r = arg[t] /\ t \in sup
    BY DEF RestartCreate, TypeOK
  <2>3. pc'[t] = "idle" /\ sup' = sup \ {t} /\ once' = once
    BY DEF RestartCreate, Goto, TypeOK
  <2>4. \A u \in sup' : once'[arg'[u]] /\ restarts'[arg'[u]] = 0
    BY <2>1, <2>2, <2>3 DEF OnceOwner, TypeOK
  <2> QED
    BY <2>1, <2>2, <2>3, <2>4 DEF OnceOwner, TypeOK
<1>7. SuperviseOnce'
  BY DEF RestartCreate, Goto, SuperviseOnce, OnceOwner, BootHolder, Holding, TypeOK
<1> QED
  BY <1>1, <1>2, <1>3, <1>4, <1>5, <1>6, <1>7

LEMMA SuperviseStep ==
  ASSUME IInv, NEW t \in Threads, NEW s \in Slots, Supervise(t, s)
  PROVE  IInv'
<1> USE SlotsFacts, NoThreadAssumption DEF IInv
<1>1. TypeOK'
  BY DEF Supervise, CanCall, Goto, slotVars, heapVars, TypeOK, WorkerStates, CallStates
<1>2. BootHolder'
  BY DEF Supervise, CanCall, Goto, slotVars, heapVars, BootHolder, Holding, TypeOK
<1>3. MutexWithActor'
  BY DEF Supervise, CanCall, Goto, slotVars, heapVars, MutexWithActor, TypeOK
<1>4. WorkerInLiveSlot'
  BY DEF Supervise, CanCall, Goto, slotVars, heapVars, WorkerInLiveSlot, BootHolder, MutexWithActor, Holding, TypeOK
<1>5. LiveActorHasWorker'
  BY DEF Supervise, CanCall, Goto, slotVars, heapVars, LiveActorHasWorker, BootHolder, WorkerInLiveSlot, Holding, TypeOK
<1>6. OnceOwner'
  BY DEF Supervise, CanCall, Goto, slotVars, heapVars, OnceOwner, BootHolder, Holding, TypeOK
<1>7. SuperviseOnce'
  BY DEF Supervise, CanCall, Goto, slotVars, heapVars, SuperviseOnce, OnceOwner, BootHolder, Holding, TypeOK
<1> QED
  BY <1>1, <1>2, <1>3, <1>4, <1>5, <1>6, <1>7

LEMMA SuperviseGoneStep ==
  ASSUME IInv, NEW t \in Threads, SuperviseGone(t)
  PROVE  IInv'
<1> USE SlotsFacts, NoThreadAssumption DEF IInv
<1>1. TypeOK'
  BY DEF SuperviseGone, Goto, slotVars, heapVars, TypeOK, WorkerStates, CallStates
<1>2. BootHolder'
  BY DEF SuperviseGone, Goto, slotVars, heapVars, BootHolder, Holding, TypeOK
<1>3. MutexWithActor'
  BY DEF SuperviseGone, Goto, slotVars, heapVars, MutexWithActor, TypeOK
<1>4. WorkerInLiveSlot'
  BY DEF SuperviseGone, Goto, slotVars, heapVars, WorkerInLiveSlot, BootHolder, MutexWithActor, Holding, TypeOK
<1>5. LiveActorHasWorker'
  BY DEF SuperviseGone, Goto, slotVars, heapVars, LiveActorHasWorker, BootHolder, WorkerInLiveSlot, Holding, TypeOK
<1>6. OnceOwner'
  BY DEF SuperviseGone, Goto, slotVars, heapVars, OnceOwner, BootHolder, Holding, TypeOK
<1>7. SuperviseOnce'
  BY DEF SuperviseGone, Goto, slotVars, heapVars, SuperviseOnce, OnceOwner, BootHolder, Holding, TypeOK
<1> QED
  BY <1>1, <1>2, <1>3, <1>4, <1>5, <1>6, <1>7

LEMMA StutterStep == ASSUME IInv, UNCHANGED vars PROVE IInv'
<1> USE DEF vars, slotVars, callVars, heapVars, supVars
<1>1. TypeOK'
  BY DEF IInv, TypeOK
<1>2. BootHolder'
  BY DEF IInv, BootHolder, Holding
<1>3. MutexWithActor'
  BY DEF IInv, MutexWithActor
<1>4. WorkerInLiveSlot'
  BY DEF IInv, WorkerInLiveSlot
<1>5. LiveActorHasWorker'
  BY DEF IInv, LiveActorHasWorker
<1>6. OnceOwner'
  BY DEF IInv, OnceOwner
<1>7. SuperviseOnce'
  BY DEF IInv, SuperviseOnce
<1> QED
  BY <1>1, <1>2, <1>3, <1>4, <1>5, <1>6, <1>7 DEF IInv

(***************************************************************************)
(* The invariant of the actor table: it holds in every state.              *)
(***************************************************************************)
THEOREM Safety == Spec => []IInv
<1>1. ASSUME IInv, [Next]_vars PROVE IInv'
  <2>1. CASE \E s \in Slots : Worker(s) \/ SpuriousWake(s)
    BY <1>1, <2>1, WorkerLoopStep DEF Worker, WorkerStart, WorkerWake, SpuriousWake
  <2>2. CASE \E t \in Threads, s \in Slots :
               Spawn(t, s) \/ Recv(t, s) \/ Supervise(t, s) \/ \E m \in Msgs : Send(t, s, m)
    BY <1>1, <2>2, SpawnStep, RecvStep, SuperviseStep, SendStep
  <2>3. CASE \E t \in Threads, s \in Slots : DestroyStop(t, s) \/ RestartStop(t, s)
    BY <1>1, <2>3, StopWorkerStep DEF DestroyStop, RestartStop, CanCall
  <2>4. CASE \E t \in Threads : SuperviseRestart(t)
    <3>1. PICK t \in Threads : SuperviseRestart(t)
      BY <2>4
    <3>2. arg[t] \in Slots
      BY <1>1 DEF IInv, TypeOK
    <3> QED
      BY <1>1, <3>1, <3>2, StopWorkerStep DEF SuperviseRestart
  <2>5. CASE \E t \in Threads : SuperviseGone(t)
    BY <1>1, <2>5, SuperviseGoneStep
  <2>6. CASE \E t \in Threads : DestroyJoin(t) \/ RestartJoin(t)
    BY <1>1, <2>6, JoinStep DEF DestroyJoin, RestartJoin
  <2>7. CASE \E t \in Threads : DestroyDrain(t) \/ RestartCreate(t)
    BY <1>1, <2>7, DestroyDrainStep, RestartCreateStep
  <2>8. CASE UNCHANGED vars
    BY <1>1, <2>8, StutterStep
  <2> QED
    BY <1>1, <2>1, <2>2, <2>3, <2>4, <2>5, <2>6, <2>7, <2>8 DEF Next, Finish
<1> QED
  BY InitIInv, <1>1, PTL DEF Spec

(***************************************************************************)
(* No worker outlives its actor (oo_actor_destroy, oo_actor_restart).      *)
(***************************************************************************)
THEOREM WorkerCorrect == Spec => []WorkerInLiveSlot
<1>1. IInv => WorkerInLiveSlot
  BY DEF IInv
<1> QED
  BY Safety, <1>1, PTL

(***************************************************************************)
(* A live actor has a worker, except under g_act_boot.                     *)
(***************************************************************************)
THEOREM LiveCorrect == Spec => []LiveActorHasWorker
<1>1. IInv => LiveActorHasWorker
  BY DEF IInv
<1> QED
  BY Safety, <1>1, PTL

(***************************************************************************)
(* At most one oo_otp_supervise restarts an actor.                         *)
(***************************************************************************)
THEOREM SuperviseCorrect == Spec => []SuperviseOnce
<1>1. IInv => SuperviseOnce
  BY DEF IInv
<1> QED
  BY Safety, <1>1, PTL

(***************************************************************************)
(* As long as an actor lives, its mailbox changes only by a send at its    *)
(* end or a receive at its front; a restart leaves it alone.               *)
(***************************************************************************)
THEOREM MailboxCorrect == Spec => MailboxStays
<1>1. ASSUME IInv, [Next]_vars, NEW r \in Slots, live[r], live'[r], box'[r] # box[r]
      PROVE  \/ \E m \in Msgs : box'[r] = Append(box[r], m)
             \/ box[r] # << >> /\ box'[r] = Tail(box[r])
  <2>1. box \in [Slots -> Seq(Msgs)] /\ live \in [Slots -> BOOLEAN]
    BY <1>1 DEF IInv, TypeOK
  <2>2. ASSUME NEW t \in Threads, NEW s \in Slots, NEW m \in Msgs, Send(t, s, m)
        PROVE  box'[r] = Append(box[r], m)
    BY <1>1, <2>1, <2>2 DEF Send
  <2>3. ASSUME NEW t \in Threads, NEW s \in Slots, Recv(t, s)
        PROVE  box[r] # << >> /\ box'[r] = Tail(box[r])
    BY <1>1, <2>1, <2>3 DEF Recv
  <2>4. \A t \in Threads, s \in Slots : ~Spawn(t, s)
    BY <1>1, <2>1 DEF Spawn, FirstFree
  <2>5. \A t \in Threads : ~DestroyDrain(t)
    BY <1>1, <2>1 DEF DestroyDrain
  <2>6. \A t \in Threads, s \in Slots : ~Supervise(t, s) /\ ~DestroyStop(t, s) /\ ~RestartStop(t, s)
    BY <1>1 DEF Supervise, DestroyStop, RestartStop, StopWorker, slotVars
  <2>7. \A t \in Threads : /\ ~SuperviseRestart(t) /\ ~SuperviseGone(t)
                         /\ ~DestroyJoin(t) /\ ~RestartJoin(t) /\ ~RestartCreate(t)
    BY <1>1 DEF SuperviseRestart, StopWorker, SuperviseGone, slotVars,
                DestroyJoin, RestartJoin, Join, RestartCreate
  <2>8. \A s \in Slots : ~Worker(s) /\ ~SpuriousWake(s)
    BY <1>1 DEF Worker, WorkerStart, WorkerWake, SpuriousWake, WorkerLoop
  <2>9. ~UNCHANGED vars
    BY <1>1 DEF vars, slotVars
  <2> QED
    BY <1>1, <2>2, <2>3, <2>4, <2>5, <2>6, <2>7, <2>8, <2>9 DEF Next, Finish
<1>2. IInv /\ [Next]_vars =>
        [\A s \in Slots :
           live[s] /\ live'[s] => \/ box'[s] = box[s]
                                  \/ \E m \in Msgs : box'[s] = Append(box[s], m)
                                  \/ box[s] # << >> /\ box'[s] = Tail(box[s])]_vars
  BY <1>1
<1> QED
  BY Safety, <1>2, PTL DEF Spec, MailboxStays

-----------------------------------------------------------------------------
\* The queue lengths are natural numbers, and so is their sum.
LEMMA QueuedFacts ==
  ASSUME TypeOK
  PROVE  QueuedCopies \in [Slots -> Nat] /\ IsFiniteSet(Slots) /\ SumFunction(QueuedCopies) \in Nat
<1>1. IsFiniteSet(Slots)
  BY NSlotsAssumption, FS_Interval DEF Slots
<1>2. QueuedCopies \in [Slots -> Nat]
  BY DEF TypeOK, QueuedCopies
<1> QED
  BY <1>1, <1>2, SumOfNaturals

\* A step that changes the mailbox of one slot changes the sum by the difference of its lengths.
LEMMA OneMailbox ==
  ASSUME TypeOK, NEW s \in Slots, NEW q, Len(q) \in Nat, box' = [box EXCEPT ![s] = q]
  PROVE  SumFunction(QueuedCopies)' = SumFunction(QueuedCopies) - Len(box[s]) + Len(q)
<1> DEFINE w == [QueuedCopies EXCEPT ![s] = Len(q)]
<1>1. QueuedCopies' = w
  BY DEF TypeOK, QueuedCopies
<1>2. QueuedCopies \in [Slots -> Int] /\ IsFiniteSet(Slots) /\ Len(q) \in Int
  BY QueuedFacts
<1>3. SumFunction(w) = SumFunction(QueuedCopies) - QueuedCopies[s] + Len(q)
  BY <1>2, SumChange
<1>4. QueuedCopies[s] = Len(box[s])
  BY DEF QueuedCopies
<1> QED
  BY <1>1, <1>3, <1>4

(***************************************************************************)
(* oo_actor_send's copies are all accounted for: each one is in a mailbox, *)
(* was released by a receive or a destroy, or was forgotten by a spawn     *)
(* into a slot whose restart had failed.                                   *)
(***************************************************************************)
THEOREM CopiesCorrect == Spec => []CopiesBalanced
<1>1. Init => CopiesBalanced
  <2> SUFFICES ASSUME Init PROVE CopiesBalanced
    OBVIOUS
  <2>1. TypeOK
    BY InitIInv DEF IInv
  <2>2. \A s \in Slots : QueuedCopies[s] = 0
    BY DEF Init, QueuedCopies
  <2>3. SumFunction(QueuedCopies) = 0
    BY <2>1, <2>2, QueuedFacts, SumOfNaturals
  <2> QED
    BY <2>3 DEF Init, CopiesBalanced
<1>2. ASSUME IInv, CopiesBalanced, [Next]_vars PROVE CopiesBalanced'
  <2>0. TypeOK /\ copies \in Int /\ lost \in Nat /\ SumFunction(QueuedCopies) \in Nat
    BY <1>2, QueuedFacts DEF IInv, TypeOK
  <2>1. CASE UNCHANGED <<box, copies, lost>>
    <3>1. QueuedCopies' = QueuedCopies
      BY <2>1 DEF QueuedCopies
    <3> QED
      BY <1>2, <2>1, <3>1 DEF CopiesBalanced
  <2>2. ASSUME NEW t \in Threads, NEW s \in Slots, Spawn(t, s) PROVE CopiesBalanced'
    <3>1. box' = [box EXCEPT ![s] = << >>] /\ lost' = lost + Len(box[s]) /\ copies' = copies
      BY <2>2 DEF Spawn
    <3>2. Len(<< >>) = 0 /\ Len(box[s]) \in Nat
      BY <2>0 DEF TypeOK
    <3>3. SumFunction(QueuedCopies)' = SumFunction(QueuedCopies) - Len(box[s]) + 0
      BY <2>0, <3>1, <3>2, OneMailbox
    <3> QED
      BY <1>2, <2>0, <3>1, <3>2, <3>3 DEF CopiesBalanced
  <2>3. ASSUME NEW t \in Threads, NEW s \in Slots, NEW m \in Msgs, Send(t, s, m) PROVE CopiesBalanced'
    <3>1. box' = [box EXCEPT ![s] = Append(box[s], m)] /\ lost' = lost /\ copies' = copies + 1
      BY <2>3 DEF Send
    <3>2. Len(box[s]) \in Nat /\ Len(Append(box[s], m)) = Len(box[s]) + 1 /\ Len(Append(box[s], m)) \in Nat
      BY <2>0 DEF TypeOK
    <3>3. SumFunction(QueuedCopies)' = SumFunction(QueuedCopies) - Len(box[s]) + Len(Append(box[s], m))
      BY <2>0, <3>1, <3>2, OneMailbox
    <3> QED
      BY <1>2, <2>0, <3>1, <3>2, <3>3 DEF CopiesBalanced
  <2>4. ASSUME NEW t \in Threads, NEW s \in Slots, Recv(t, s) PROVE CopiesBalanced'
    <3>1. box' = [box EXCEPT ![s] = Tail(box[s])] /\ lost' = lost /\ copies' = copies - 1 /\ box[s] # << >>
      BY <2>4 DEF Recv
    <3>2. Len(box[s]) \in Nat /\ Len(Tail(box[s])) = Len(box[s]) - 1 /\ Len(Tail(box[s])) \in Nat
      BY <2>0, <3>1 DEF TypeOK
    <3>3. SumFunction(QueuedCopies)' = SumFunction(QueuedCopies) - Len(box[s]) + Len(Tail(box[s]))
      BY <2>0, <3>1, <3>2, OneMailbox
    <3> QED
      BY <1>2, <2>0, <3>1, <3>2, <3>3 DEF CopiesBalanced
  <2>5. ASSUME NEW t \in Threads, DestroyDrain(t) PROVE CopiesBalanced'
    <3> DEFINE s == arg[t]
    <3>1. s \in Slots /\ Len(box[s]) \in Nat /\ Len(<< >>) = 0
      BY <2>0 DEF TypeOK
    <3>2. box' = [box EXCEPT ![s] = << >>] /\ lost' = lost /\ copies' = copies - Len(box[s])
      BY <2>5 DEF DestroyDrain
    <3> HIDE DEF s
    <3>3. SumFunction(QueuedCopies)' = SumFunction(QueuedCopies) - Len(box[s]) + 0
      BY <2>0, <3>1, <3>2, OneMailbox
    <3> QED
      BY <1>2, <2>0, <3>1, <3>2, <3>3 DEF CopiesBalanced
  <2>6. \/ \E t \in Threads, s \in Slots : Spawn(t, s) \/ Recv(t, s) \/ \E m \in Msgs : Send(t, s, m)
        \/ \E t \in Threads : DestroyDrain(t)
        \/ UNCHANGED <<box, copies, lost>>
    BY <1>2 DEF Next, Finish, Worker, WorkerStart, WorkerWake, SpuriousWake, WorkerLoop, DestroyStop,
                RestartStop, StopWorker, Supervise, SuperviseRestart, SuperviseGone, DestroyJoin, RestartJoin,
                Join, RestartCreate, vars, slotVars, heapVars
  <2> QED
    BY <2>1, <2>2, <2>3, <2>4, <2>5, <2>6
<1> QED
  BY Safety, <1>1, <1>2, PTL DEF Spec
=============================================================================
