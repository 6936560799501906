--------------------------- MODULE SystemProofs ---------------------------
(***************************************************************************)
(* Proofs about a program's threads, processes and services and about the  *)
(* guards around it, for any number of threads, callers, slots, children,  *)
(* clients, descriptors, files and keys.                                   *)
(*                                                                         *)
(* Threads and services: a worker keeps its slot, a call of oo_sys_exec    *)
(* settles its child and its output, an answer of the varlink daemon goes  *)
(* to who asked, and the ARC protocol keeps counts exact and frees once.   *)
(*                                                                         *)
(* Guards: the sandbox never claims more than the kernel enforces and      *)
(* never loosens, a capability gate lets through the holders of its token  *)
(* and nobody else, a registered library is loaded, a text is interned     *)
(* once, what is sealed opens exactly under its own keys, a path is        *)
(* confined as the environment says whatever the directory cache holds,    *)
(* and a derived path capability only narrows.                             *)
(***************************************************************************)
EXTENDS WeakRef, Joinable, Exec, Varlink, Sandbox, Caps, Ffi, Strings, Seal,
        Confine, Attenuate, SetFacts, FiniteSetTheorems, SequenceTheorems, TLAPS

(***************************************************************************)
(* Joinable threads.                                                       *)
(***************************************************************************)
JTypeOK ==
  /\ thrBoot \in Callers \cup {NoOne}
  /\ slotMu \in [JSlots -> {"worker", NoOne}]
  /\ live \in [JSlots -> BOOLEAN] /\ stopReq \in [JSlots -> BOOLEAN]
  /\ muReady \in SUBSET JSlots
  /\ worker \in [JSlots -> {"none", "start", "wait", "woken", "run", "ended"}]
  /\ jpc \in [Callers -> {"idle", "create", "lock", "live", "join"}]
  /\ jslot \in [Callers -> Nat]
  /\ spawns \in Nat

\* A caller in the middle of a call holds g_thr_boot, for a slot of the table.
JBootHeld == \A c \in Callers : jpc[c] # "idle" => thrBoot = c /\ jslot[c] \in JSlots

\* A slot with a worker has its mutex, and is live until its join waits for the worker.
JWorkerSlot ==
  \A s \in JSlots : worker[s] # "none" =>
    /\ s \in muReady
    /\ live[s] \/ \E c \in Callers : jpc[c] = "join" /\ jslot[c] = s

\* The slot of a spawn is taken and has no worker yet.
JCreateEmpty == \A c \in Callers : jpc[c] = "create" =>
  live[jslot[c]] /\ jslot[c] \in muReady /\ worker[jslot[c]] = "none"

JIInv == JTypeOK /\ JBootHeld /\ JWorkerSlot /\ JCreateEmpty

\* The first state satisfies the inductive invariant.
LEMMA JInitIInv == JInit => JIInv
BY JoinAssumption DEF JInit, JIInv, JTypeOK, JBootHeld, JWorkerSlot, JCreateEmpty

\* Every step of a caller or of a worker keeps the inductive invariant.
LEMMA JStepIInv == JIInv /\ [JNext]_joinVars => JIInv'
<1> SUFFICES ASSUME JIInv, [JNext]_joinVars PROVE JIInv'
  OBVIOUS
<1> USE JoinAssumption DEF JIInv
<1>1. ASSUME NEW c \in Callers, oo_thread_spawn(c) PROVE JIInv'
  <2>1. CASE UNCHANGED joinVars
    BY <2>1 DEF joinVars, JTypeOK, JBootHeld, JWorkerSlot, JCreateEmpty
  <2>2. ASSUME NEW slot \in JSlots, FirstNotLive(slot), thrBoot = NoOne, jpc[c] = "idle",
               live' = [live EXCEPT ![slot] = TRUE],
               stopReq' = [stopReq EXCEPT ![slot] = FALSE],
               muReady' = muReady \cup {slot},
               jslot' = [jslot EXCEPT ![c] = slot],
               thrBoot' = c, JGoto(c, "create"), spawns' = spawns + 1,
               UNCHANGED <<slotMu, worker>>
        PROVE  JIInv'
    <3>1. \A d \in Callers : jpc[d] = "idle"
      BY <2>2 DEF JBootHeld
    <3>2. worker[slot] = "none"
      BY <2>2, <3>1 DEF JWorkerSlot, FirstNotLive
    <3>3. JTypeOK'
      BY <2>2 DEF JTypeOK, JGoto
    <3>4. JBootHeld' /\ JCreateEmpty'
      BY <2>2, <3>1, <3>2 DEF JTypeOK, JGoto, JBootHeld, JCreateEmpty
    <3>5. JWorkerSlot'
      BY <2>2, <3>1, <3>2 DEF JTypeOK, JGoto, JWorkerSlot
    <3> QED
      BY <3>3, <3>4, <3>5
  <2> QED
    BY <1>1, <2>1, <2>2 DEF oo_thread_spawn
<1>2. ASSUME NEW c \in Callers, SpawnCreate(c) PROVE JIInv'
  <2>1. jslot[c] \in JSlots /\ live[jslot[c]] /\ worker[jslot[c]] = "none" /\ \A d \in Callers : d # c => jpc[d] = "idle"
    BY <1>2 DEF SpawnCreate, JBootHeld, JCreateEmpty
  <2>2. JTypeOK'
    BY <1>2, <2>1 DEF SpawnCreate, JGoto, JTypeOK
  <2>3. JBootHeld' /\ JCreateEmpty'
    BY <1>2, <2>1 DEF SpawnCreate, JGoto, JTypeOK, JBootHeld, JCreateEmpty
  <2>4. JWorkerSlot'
    <3>1. \A s \in JSlots : worker[s] # "none" => s # jslot[c] /\ s \in muReady /\ live[s]
      BY <1>2, <2>1 DEF SpawnCreate, JWorkerSlot
    <3>2. jslot[c] \in muReady
      BY <1>2 DEF SpawnCreate, JCreateEmpty
    <3>3. \A s \in JSlots : worker'[s] # "none" => s \in muReady' /\ live'[s]
      BY <1>2, <2>1, <3>1, <3>2 DEF SpawnCreate, JTypeOK
    <3> QED
      BY <3>3 DEF JWorkerSlot
  <2> QED
    BY <2>2, <2>3, <2>4
<1>3. ASSUME NEW c \in Callers, NEW s \in JSlots, oo_thread_join(c, s) PROVE JIInv'
  BY <1>3 DEF oo_thread_join, JGoto, JTypeOK, JBootHeld, JWorkerSlot, JCreateEmpty
<1>4. ASSUME NEW c \in Callers, JoinSignal(c) PROVE JIInv'
  <2>1. jslot[c] \in JSlots /\ \A d \in Callers : d # c => jpc[d] = "idle"
    BY <1>4 DEF JoinSignal, JBootHeld
  <2> QED
    BY <1>4, <2>1 DEF JoinSignal, JGoto, JTypeOK, JBootHeld, JWorkerSlot, JCreateEmpty
<1>5. ASSUME NEW c \in Callers, JoinNotLive(c) PROVE JIInv'
  <2>1. jslot[c] \in JSlots /\ \A d \in Callers : d # c => jpc[d] = "idle"
    BY <1>5 DEF JoinNotLive, JBootHeld
  <2> QED
    BY <1>5, <2>1 DEF JoinNotLive, JGoto, JTypeOK, JBootHeld, JWorkerSlot, JCreateEmpty
<1>6. ASSUME NEW c \in Callers, JoinDone(c) PROVE JIInv'
  <2>1. jslot[c] \in JSlots /\ \A d \in Callers : d # c => jpc[d] = "idle"
    BY <1>6 DEF JoinDone, JBootHeld
  <2>2. \A s \in JSlots : worker[s] # "none" /\ s # jslot[c] => s \in muReady /\ live[s]
    BY <1>6, <2>1 DEF JoinDone, JWorkerSlot
  <2>3. JTypeOK' /\ JBootHeld' /\ JCreateEmpty'
    BY <1>6, <2>1 DEF JoinDone, JGoto, JTypeOK, JBootHeld, JCreateEmpty
  <2>4. \A s \in JSlots : worker'[s] # "none" => s # jslot[c] /\ worker[s] # "none"
    BY <1>6, <2>1 DEF JoinDone, JTypeOK
  <2>5. JWorkerSlot'
    BY <1>6, <2>2, <2>4 DEF JoinDone, JWorkerSlot
  <2> QED
    BY <2>3, <2>5
<1>7. ASSUME NEW s \in JSlots, WorkerLock(s) PROVE JIInv'
  BY <1>7 DEF WorkerLock, JTypeOK, JBootHeld, JWorkerSlot, JCreateEmpty
<1>8. ASSUME NEW s \in JSlots, WorkerTest(s) PROVE JIInv'
  BY <1>8 DEF WorkerTest, JTypeOK, JBootHeld, JWorkerSlot, JCreateEmpty
<1>9. CASE UNCHANGED joinVars
  BY <1>9 DEF joinVars, JTypeOK, JBootHeld, JWorkerSlot, JCreateEmpty
<1> QED
  BY <1>1, <1>2, <1>3, <1>4, <1>5, <1>6, <1>7, <1>8, <1>9 DEF JNext, CallerStep, WorkerStep

(***************************************************************************)
(* No worker of oo_thread_spawn outlives its slot, and no slot is handed   *)
(* out while its worker has not been joined.                               *)
(***************************************************************************)
THEOREM WorkerKeepsSlotCorrect == JSpec => []WorkerKeepsSlot
<1>1. JIInv => WorkerKeepsSlot
  BY DEF JIInv, JWorkerSlot, JCreateEmpty, WorkerKeepsSlot
<1> QED
  BY JInitIInv, JStepIInv, <1>1, PTL DEF JSpec

-----------------------------------------------------------------------------
(***************************************************************************)
(* oo_sys_exec.  Every part of the invariant is about one thread, its pipe *)
(* and its child.                                                          *)
(***************************************************************************)
ChildStates == {"none", "running", "done", "failed", "killed", "reaped"}
EndedStates == {"done", "failed", "killed"}

ETypeOK ==
  /\ epc \in [ExecThreads -> {"idle", "fork", "close_w", "read", "close_r", "wait"}]
  /\ ends \in [ExecThreads -> SUBSET {"r", "w"}]
  /\ inPipe \in [ExecThreads -> Nat] /\ got \in [ExecThreads -> Nat]
  /\ child \in [ExecThreads -> ChildStates]
  /\ keeps \in [ExecThreads -> SUBSET (ExecThreads \X {"r", "w"})]
  /\ left \in [ExecThreads -> Nat] /\ total \in [ExecThreads -> Nat]
  /\ result \in [ExecThreads -> {"none", "ok", "err"}]
  /\ cut \in [ExecThreads -> BOOLEAN] /\ execs \in [ExecThreads -> Nat]

\* The ends a call holds, and what became of its child, at each place of the call.
EPlace(t) ==
  /\ epc[t] \in {"idle", "wait"} => ends[t] = {}
  /\ epc[t] = "fork" => child[t] = "none" /\ got[t] = 0 /\ inPipe[t] = 0
  /\ epc[t] \in {"close_w", "read", "close_r", "wait"} => child[t] \in {"running"} \cup EndedStates
  /\ epc[t] = "idle" /\ ~cut[t] => child[t] \in {"none", "reaped"}
  /\ epc[t] \in {"fork", "close_w"} => ends[t] = {"r", "w"}
  /\ epc[t] \in {"read", "close_r"} => ends[t] = {"r"}
  /\ epc[t] # "idle" => result[t] = "none"

\* What the child wrote is in the pipe or was read; a running child holds its write end.
EFlow(t) ==
  /\ got[t] =< MaxOut /\ inPipe[t] =< PipeCap
  /\ child[t] # "none" => got[t] + inPipe[t] + left[t] = total[t]
  /\ child[t] = "running" => <<t, "w">> \in keeps[t]
  /\ child[t] = "done" => left[t] = 0

\* The loop ended at the limit or at a true end of file, unless it was cut short.
EEnd(t) ==
  /\ epc[t] \in {"close_r", "wait"} /\ ~cut[t] =>
       got[t] = MaxOut \/ (inPipe[t] = 0 /\ child[t] # "running")
  /\ epc[t] = "idle" /\ result[t] = "ok" /\ ~cut[t] =>
       got[t] = Lesser(total[t], MaxOut) /\ total[t] =< MaxOut + PipeCap

EIInv == ETypeOK /\ \A t \in ExecThreads : EPlace(t) /\ EFlow(t) /\ EEnd(t)

\* The first state satisfies the inductive invariant.
LEMMA EInitIInv == ExecInit => EIInv
BY ExecAssumption DEF ExecInit, EIInv, ETypeOK, ChildStates, EPlace, EFlow, EEnd

\* A step of a call or of its child leaves the other threads' calls as they are.
EOthers(t) == \A u \in ExecThreads : u # t =>
  /\ epc'[u] = epc[u] /\ ends'[u] = ends[u] /\ inPipe'[u] = inPipe[u] /\ got'[u] = got[u]
  /\ child'[u] = child[u] /\ keeps'[u] = keeps[u] /\ left'[u] = left[u] /\ total'[u] = total[u]
  /\ result'[u] = result[u] /\ cut'[u] = cut[u]

\* So the invariant has to be shown for the thread of the step only.
LEMMA EOneThread ==
  ASSUME EIInv, NEW t \in ExecThreads, ETypeOK', EOthers(t), EPlace(t)', EFlow(t)', EEnd(t)'
  PROVE  EIInv'
<1> SUFFICES ASSUME NEW u \in ExecThreads, u # t
             PROVE  EPlace(u)' /\ EFlow(u)' /\ EEnd(u)'
  BY DEF EIInv
<1> QED
  BY DEF EIInv, EOthers, EPlace, EFlow, EEnd

\* Every step keeps the inductive invariant.
LEMMA EStepIInv == EIInv /\ [ExecNext]_execVars => EIInv'
<1> SUFFICES ASSUME EIInv, [ExecNext]_execVars PROVE EIInv'
  OBVIOUS
<1> USE ExecAssumption DEF ChildStates, EndedStates
<1>1. ASSUME NEW t \in ExecThreads, ExecPipe(t) PROVE EIInv'
  <2>1. ETypeOK' /\ EOthers(t)
    BY <1>1 DEF ExecPipe, EIInv, ETypeOK, EOthers
  <2>2. EPlace(t)' /\ EFlow(t)' /\ EEnd(t)'
    BY <1>1 DEF ExecPipe, EIInv, ETypeOK, EPlace, EFlow, EEnd
  <2> QED
    BY <2>1, <2>2, EOneThread
<1>2. ASSUME NEW t \in ExecThreads, ExecFails(t) PROVE EIInv'
  <2>1. ETypeOK' /\ EOthers(t)
    BY <1>2 DEF ExecFails, EIInv, ETypeOK, EOthers
  <2>2. EPlace(t)' /\ EFlow(t)' /\ EEnd(t)'
    BY <1>2 DEF ExecFails, EIInv, ETypeOK, EPlace, EFlow, EEnd
  <2> QED
    BY <2>1, <2>2, EOneThread
<1>3. ASSUME NEW t \in ExecThreads, ExecFork(t) PROVE EIInv'
  <2>1. ETypeOK' /\ EOthers(t)
    BY <1>3 DEF ExecFork, EIInv, ETypeOK, EOthers
  <2>2. EPlace(t)' /\ EEnd(t)'
    BY <1>3 DEF ExecFork, EIInv, ETypeOK, EPlace, EEnd
  <2>3. EFlow(t)'
    <3>1. keeps'[t] = {<<t, "w">>} \cup {e \in (ExecThreads \ {t}) \X {"r", "w"} : e[2] \in ends[e[1]]}
      BY <1>3 DEF ExecFork, EIInv, ETypeOK
    <3>2. <<t, "w">> \in keeps'[t]
      BY <3>1, Zenon
    <3>3. got'[t] = 0 /\ inPipe'[t] = 0 /\ child'[t] = "running"
      BY <1>3 DEF ExecFork, EIInv, ETypeOK, EPlace
    <3>4. PICK n \in Outputs[t] : left' = [left EXCEPT ![t] = n] /\ total' = [total EXCEPT ![t] = n]
      BY <1>3 DEF ExecFork
    <3>5. n \in Nat /\ left'[t] = n /\ total'[t] = n
      BY <3>4 DEF EIInv, ETypeOK
    <3> QED
      BY <3>2, <3>3, <3>5 DEF EFlow
  <2> QED
    BY <2>1, <2>2, <2>3, EOneThread
<1>4. ASSUME NEW t \in ExecThreads, ExecCloseW(t) PROVE EIInv'
  <2>1. ETypeOK' /\ EOthers(t)
    BY <1>4 DEF ExecCloseW, EIInv, ETypeOK, EOthers
  <2>2. EPlace(t)' /\ EFlow(t)' /\ EEnd(t)'
    BY <1>4 DEF ExecCloseW, EIInv, ETypeOK, EPlace, EFlow, EEnd
  <2> QED
    BY <2>1, <2>2, EOneThread
<1>5. ASSUME NEW t \in ExecThreads, ExecRead(t) PROVE EIInv'
  <2> DEFINE n == Lesser(inPipe[t], MaxOut - got[t])
  <2>1. got[t] \in Nat /\ inPipe[t] \in Nat /\ left[t] \in Nat /\ total[t] \in Nat
    BY DEF EIInv, ETypeOK
  <2>2. CASE /\ got[t] < MaxOut /\ inPipe[t] > 0
             /\ got' = [got EXCEPT ![t] = @ + n] /\ inPipe' = [inPipe EXCEPT ![t] = @ - n]
             /\ UNCHANGED <<epc, cut>>
    <3>1. n \in Nat /\ inPipe[t] - n \in Nat /\ got[t] + n \in Nat /\ got[t] + n =< MaxOut
      BY <2>1, <2>2 DEF Lesser
    <3>2. got'[t] = got[t] + n /\ inPipe'[t] = inPipe[t] - n
      BY <2>2 DEF EIInv, ETypeOK
    <3> HIDE DEF n
    <3>3. ETypeOK' /\ EOthers(t)
      BY <1>5, <2>1, <2>2, <3>1 DEF ExecRead, EIInv, ETypeOK, EOthers
    <3>4. EPlace(t)' /\ EFlow(t)' /\ EEnd(t)'
      BY <1>5, <2>1, <2>2, <3>1, <3>2 DEF ExecRead, EIInv, EPlace, EFlow, EEnd
    <3> QED
      BY <3>3, <3>4, EOneThread
  <2>3. CASE /\ got[t] >= MaxOut \/ (inPipe[t] = 0 /\ ~Held(t, "w"))
             /\ epc' = [epc EXCEPT ![t] = "close_r"]
             /\ UNCHANGED <<got, inPipe, cut>>
    <3>1. ETypeOK' /\ EOthers(t)
      BY <1>5, <2>3 DEF ExecRead, EIInv, ETypeOK, EOthers
    <3>2. EPlace(t)' /\ EFlow(t)'
      BY <1>5, <2>3 DEF ExecRead, EIInv, ETypeOK, EPlace, EFlow
    <3>3. got[t] = MaxOut \/ (inPipe[t] = 0 /\ child[t] # "running")
      BY <2>1, <2>3 DEF Held, EIInv, EFlow
    <3>4. EEnd(t)'
      BY <1>5, <2>3, <3>3 DEF ExecRead, EIInv, ETypeOK, EEnd
    <3> QED
      BY <3>1, <3>2, <3>4, EOneThread
  <2>4. CASE /\ got[t] < MaxOut /\ inPipe[t] = 0
             /\ cut' = [cut EXCEPT ![t] = TRUE]
             /\ epc' = [epc EXCEPT ![t] = "close_r"]
             /\ UNCHANGED <<got, inPipe>>
    <3>1. ETypeOK' /\ EOthers(t)
      BY <1>5, <2>4 DEF ExecRead, EIInv, ETypeOK, EOthers
    <3>2. EPlace(t)' /\ EFlow(t)' /\ EEnd(t)'
      BY <1>5, <2>4 DEF ExecRead, EIInv, ETypeOK, EPlace, EFlow, EEnd
    <3> QED
      BY <3>1, <3>2, EOneThread
  <2> QED
    BY <1>5, <2>2, <2>3, <2>4 DEF ExecRead
<1>6. ASSUME NEW t \in ExecThreads, ExecCloseR(t) PROVE EIInv'
  <2>1. ETypeOK' /\ EOthers(t)
    BY <1>6 DEF ExecCloseR, EIInv, ETypeOK, EOthers
  <2>2. EPlace(t)' /\ EFlow(t)' /\ EEnd(t)'
    BY <1>6 DEF ExecCloseR, EIInv, ETypeOK, EPlace, EFlow, EEnd
  <2> QED
    BY <2>1, <2>2, EOneThread
<1>7. ASSUME NEW t \in ExecThreads, ExecWaitpid(t) PROVE EIInv'
  <2>1. ETypeOK' /\ EOthers(t)
    BY <1>7 DEF ExecWaitpid, EIInv, ETypeOK, EOthers
  <2>2. EPlace(t)' /\ EFlow(t)'
    BY <1>7 DEF ExecWaitpid, EIInv, ETypeOK, EPlace, EFlow
  <2>3. EEnd(t)'
    <3>1. SUFFICES ASSUME child[t] = "done", ~cut[t]
                   PROVE  got[t] = Lesser(total[t], MaxOut) /\ total[t] =< MaxOut + PipeCap
      BY <1>7 DEF ExecWaitpid, EIInv, ETypeOK, EPlace, EEnd
    <3>2. got[t] \in Nat /\ inPipe[t] \in Nat /\ left[t] \in Nat /\ total[t] \in Nat /\ EFlow(t)
      BY DEF EIInv, ETypeOK
    <3>3. got[t] = MaxOut \/ inPipe[t] = 0
      BY <1>7, <3>1 DEF ExecWaitpid, EIInv, EEnd
    <3> QED
      BY <3>1, <3>2, <3>3 DEF Lesser, EFlow
  <2> QED
    BY <2>1, <2>2, <2>3, EOneThread
<1>8. ASSUME NEW t \in ExecThreads, ChildWrites(t) PROVE EIInv'
  <2>1. ETypeOK' /\ EOthers(t)
    BY <1>8 DEF ChildWrites, EIInv, ETypeOK, EOthers
  <2>2. EPlace(t)' /\ EFlow(t)' /\ EEnd(t)'
    BY <1>8 DEF ChildWrites, EIInv, ETypeOK, EPlace, EFlow, EEnd
  <2> QED
    BY <2>1, <2>2, EOneThread
<1>9. ASSUME NEW t \in ExecThreads, ChildEnds(t) PROVE EIInv'
  <2>1. ETypeOK' /\ EOthers(t)
    BY <1>9 DEF ChildEnds, EIInv, ETypeOK, EOthers
  <2>2. EPlace(t)' /\ EFlow(t)' /\ EEnd(t)'
    BY <1>9 DEF ChildEnds, EIInv, ETypeOK, EPlace, EFlow, EEnd
  <2> QED
    BY <2>1, <2>2, EOneThread
<1>10. CASE UNCHANGED execVars
  BY <1>10 DEF execVars, EIInv, ETypeOK, EPlace, EFlow, EEnd
<1> QED
  BY <1>1, <1>2, <1>3, <1>4, <1>5, <1>6, <1>7, <1>8, <1>9, <1>10 DEF ExecNext, ExecStep

(***************************************************************************)
(* A returned oo_sys_exec holds no pipe end and, unless a signal cut it    *)
(* short, left no zombie, and what it answers Ok with is the whole output  *)
(* up to the limit; whatever the other threads' children keep open.        *)
(***************************************************************************)
THEOREM ExecSettledCorrect == ExecSpec => []ExecSettled
<1>1. EIInv => ExecSettled
  BY DEF EIInv, EPlace, EEnd, ExecSettled
<1> QED
  BY EInitIInv, EStepIInv, <1>1, PTL DEF ExecSpec
-----------------------------------------------------------------------------
(***************************************************************************)
(* The varlink daemon.                                                     *)
(***************************************************************************)
Tasks == ({"run", "close"} \X Clients) \cup {NoTask}

VlTypeOK ==
  /\ client \in [Clients -> {"new", "queued", "open", "asked", "left", "gone", "answered", "refused"}]
  /\ conn \in [Conns -> Clients \cup {NoClient}]
  /\ watched \in SUBSET Conns
  /\ batch \in Seq(Conns \cup {Listen})
  /\ dpc \in {"poll", "serve", "inline", "off"}
  /\ inl \in Conns \cup {Listen}
  /\ vlWorker \in [Conns -> Tasks]

\* A descriptor that the loop watches or a worker owns is connected.
VlConnected == \A f \in Conns : conn[f] = NoClient => f \notin watched /\ vlWorker[f] = NoTask

(* The loop handles each event of a batch once; while it runs a worker     *)
(* itself, the event of that worker is still the first.                    *)
VlBatch ==
  /\ \A i, j \in 1 .. Len(batch) : batch[i] = batch[j] => i = j
  /\ dpc \in {"serve", "inline"} <=> Len(batch) > 0
  /\ dpc = "inline" => inl \in Conns /\ batch[1] = inl /\ vlWorker[inl] # NoTask

VlIInv == VlTypeOK /\ VlConnected /\ VlBatch /\ AnswerToAsker

\* The tasks of a worker: none, a client's run or its close.
LEMMA TaskFacts ==
  /\ \A k \in Clients : <<"run", k>> \in Tasks /\ <<"run", k>> # NoTask /\ <<"run", k>>[2] = k
  /\ \A w \in Tasks : w # NoTask <=> w[1] \in {"run", "close"}
  /\ \A w \in Tasks : w # NoTask => /\ w[2] \in Clients /\ <<"close", w[2]>> \in Tasks
                                    /\ <<"close", w[2]>> # NoTask /\ <<"close", w[2]>>[2] = w[2]
  BY VarlinkAssumption DEF Tasks, NoTask

\* The rest of a batch.
LEMMA TailFacts ==
  ASSUME VlIInv, Len(batch) > 0
  PROVE  /\ Len(batch) \in Nat /\ Len(Tail(batch)) = Len(batch) - 1
         /\ Tail(batch) \in Seq(Conns \cup {Listen})
         /\ Head(batch) = batch[1] /\ batch[1] \in Conns \cup {Listen}
         /\ \A i \in 1 .. Len(Tail(batch)) : /\ Tail(batch)[i] = batch[i + 1] /\ i + 1 \in 1 .. Len(batch)
                                             /\ i + 1 > 1 /\ batch[i + 1] # batch[1]
         /\ \A i, j \in 1 .. Len(Tail(batch)) : Tail(batch)[i] = Tail(batch)[j] => i = j
<1>1. batch \in Seq(Conns \cup {Listen}) /\ batch # << >> /\ Len(batch) \in Nat
  BY DEF VlIInv, VlTypeOK
<1>2. /\ Len(Tail(batch)) = Len(batch) - 1 /\ Tail(batch) \in Seq(Conns \cup {Listen})
      /\ \A i \in 1 .. Len(Tail(batch)) : Tail(batch)[i] = batch[i + 1]
  BY <1>1, HeadTailProperties
<1>3. Head(batch) = batch[1] /\ batch[1] \in Conns \cup {Listen}
  BY <1>1, HeadTailProperties, ElementOfSeq
<1>4. \A i, j \in 1 .. Len(batch) : batch[i] = batch[j] => i = j
  BY DEF VlIInv, VlBatch
<1>5. \A i \in 1 .. Len(Tail(batch)) : /\ i + 1 \in 1 .. Len(batch) /\ i + 1 > 1 /\ 1 \in 1 .. Len(batch)
                                       /\ i + 1 # 1
  BY <1>1, <1>2
<1>6. \A i, j \in 1 .. Len(Tail(batch)) : i + 1 = j + 1 => i = j
  OBVIOUS
<1> QED
  BY <1>1, <1>2, <1>3, <1>4, <1>5, <1>6

\* The daemon starts in its invariant.
LEMMA VlInitIInv == VlInit => VlIInv
<1> SUFFICES ASSUME VlInit PROVE VlIInv
  OBVIOUS
<1>1. VlTypeOK
  BY DEF VlInit, VlTypeOK, Tasks
<1> QED
  BY <1>1 DEF VlInit, VlIInv, VlConnected, VlBatch, AnswerToAsker

(* Handling the first event of the batch: what the rest of the invariant   *)
(* needs, given what happens to the descriptors.                           *)
LEMMA VlRest ==
  ASSUME VlIInv, Len(batch) > 0, Rest,
         \A f \in Conns : f \in watched /\ f # Head(batch) => f \in watched'
  PROVE  /\ batch' \in Seq(Conns \cup {Listen}) /\ dpc' \in {"poll", "serve"}
         /\ VlBatch'
         /\ \A f \in Conns : \A i \in 1 .. Len(batch') : batch'[i] = f => f \in watched'
<1>1. dpc' \in {"poll", "serve"} /\ (dpc' = "serve" <=> Len(batch) # 1) /\ batch' = Tail(batch)
  BY DEF Rest
<1>2. VlBatch'
  <2>1. dpc' \in {"serve", "inline"} <=> Len(batch') > 0
    <3>1. Len(batch) \in Nat /\ Len(batch') = Len(batch) - 1
      BY <1>1, TailFacts
    <3>2. dpc' \in {"serve", "inline"} <=> Len(batch) # 1
      BY <1>1
    <3> QED
      BY <3>1, <3>2
  <2>2. \A i, j \in 1 .. Len(batch') : batch'[i] = batch'[j] => i = j
    BY <1>1, TailFacts
  <2> QED
    BY <1>1, <2>1, <2>2 DEF VlBatch
<1>3. ASSUME NEW f \in Conns, NEW i \in 1 .. Len(batch'), batch'[i] = f PROVE f \in watched'
  <2>1. f = batch[i + 1] /\ i + 1 \in 1 .. Len(batch) /\ i + 1 > 1 /\ f # Head(batch)
    BY <1>1, <1>3, TailFacts
  <2>2. f \in watched
    BY <2>1 DEF VlIInv, AnswerToAsker
  <2> QED
    BY <2>1, <2>2
<1> QED
  BY <1>1, <1>2, <1>3, TailFacts

\* epoll_wait gives each watched number at most once.
LEMMA VlPollKeeps == ASSUME VlIInv, DaemonPoll PROVE VlIInv'
<1> USE DEF VlIInv
<1>1. CASE ~running
  <2>1. Len(batch) = 0 \/ Len(batch) > 0
    BY DEF VlTypeOK
  <2> QED
    BY <1>1, <2>1 DEF DaemonPoll, VlTypeOK, VlConnected, VlBatch, AnswerToAsker
<1>2. CASE running
  <2>1. Ready \subseteq watched \cup {Listen} /\ Ready # {}
    BY <1>2 DEF DaemonPoll, Ready
  <2>2. IsFiniteSet(Ready) /\ Cardinality(Ready) \in Nat /\ Cardinality(Ready) # 0
    <3>1. IsFiniteSet(0 .. NConns) /\ Ready \in SUBSET (0 .. NConns)
      BY <2>1, FS_Interval, VarlinkAssumption DEF VlTypeOK, Conns, Listen
    <3> QED
      BY <2>1, <3>1, FS_Subset, FS_CardinalityType, FS_EmptySet
  <2> DEFINE n == Cardinality(Ready)
  <2>3. PICK order \in [1 .. n -> Ready] :
           /\ batch' = order /\ \A i, j \in DOMAIN order : order[i] = order[j] => i = j
    BY <1>2 DEF DaemonPoll
  <2>4. dpc' = "serve" /\ UNCHANGED <<client, conn, watched, inl, running, vlWorker>>
    BY <1>2 DEF DaemonPoll
  <2> HIDE DEF n
  <2>5. n \in Nat /\ n > 0
    BY <2>2 DEF n
  <2>6. Ready \subseteq Conns \cup {Listen}
    BY <2>1 DEF VlTypeOK
  <2>7. order \in Seq(Conns \cup {Listen}) /\ Len(order) = n /\ DOMAIN order = 1 .. n
    <3>1. order \in [1 .. n -> Conns \cup {Listen}]
      BY <2>6
    <3> QED
      BY <2>5, <3>1
  <2>8. VlTypeOK' /\ VlConnected'
    BY <2>3, <2>4, <2>7 DEF VlTypeOK, VlConnected
  <2>9. VlBatch'
    BY <2>3, <2>4, <2>5, <2>7 DEF VlBatch
  <2>10. AnswerToAsker'
    <3>1. \A f \in Conns : f # Listen
      BY DEF Conns, Listen
    <3> QED
      BY <2>1, <2>3, <2>4, <2>7, <3>1 DEF AnswerToAsker
  <2> QED
    BY <2>8, <2>9, <2>10
<1> QED
  BY <1>1, <1>2

\* An accepted client gets a number nobody is connected by.
LEMMA VlAcceptKeeps == ASSUME VlIInv, DaemonAccept PROVE VlIInv'
<1> USE DEF VlIInv
<1>1. Len(batch) > 0 /\ Head(batch) = Listen /\ Rest /\ UNCHANGED <<inl, running, vlWorker>>
  BY DEF DaemonAccept, VlBatch
<1>2. ASSUME UNCHANGED <<conn, watched>>,
             client' = client \/ \E k \in Clients : client' = [client EXCEPT ![k] = "refused"]
      PROVE  VlIInv'
  <2>0. \A f \in Conns : f \in watched /\ f # Head(batch) => f \in watched'
    BY <1>2
  <2>1. client' \in [Clients -> {"new", "queued", "open", "asked", "left", "gone", "answered", "refused"}]
    BY <1>2 DEF VlTypeOK
  <2>2. VlTypeOK' /\ VlConnected' /\ VlBatch'
    BY <1>1, <1>2, <2>0, <2>1, VlRest DEF VlTypeOK, VlConnected
  <2>3. AnswerToAsker'
    BY <1>1, <1>2, <2>0, VlRest DEF AnswerToAsker
  <2> QED
    BY <2>2, <2>3
<1>3. ASSUME NEW k \in Clients, FreeConns # {}, client' = [client EXCEPT ![k] = "open"],
             conn' = [conn EXCEPT ![Min(FreeConns)] = k], watched' = watched \cup {Min(FreeConns)}
      PROVE  VlIInv'
  <2>1. PICK f \in Conns : f = Min(FreeConns) /\ conn[f] = NoClient
    <3>1. FreeConns \in SUBSET Nat
      BY DEF FreeConns, Conns
    <3>2. Min(FreeConns) \in FreeConns
      BY <1>3, <3>1, MinProperties
    <3> QED
      BY <3>2 DEF FreeConns
  <2>2. conn' = [conn EXCEPT ![f] = k] /\ watched' = watched \cup {f} /\ k # NoClient
    BY <1>3, <2>1, VarlinkAssumption
  <2>3. vlWorker[f] = NoTask
    BY <2>1 DEF VlConnected
  <2>4. VlTypeOK'
    BY <1>1, <1>3, <2>2, VlRest DEF VlTypeOK
  <2>5. VlConnected'
    BY <1>1, <2>2 DEF VlConnected, VlTypeOK
  <2>6. AnswerToAsker'
    BY <1>1, <2>1, <2>2, <2>3, VlRest DEF AnswerToAsker, VlTypeOK
  <2>7. VlBatch'
    BY <1>1, <2>2, VlRest
  <2> QED
    BY <2>4, <2>5, <2>6, <2>7
<1> QED
  BY <1>2, <1>3 DEF DaemonAccept

\* The descriptor of the first event, when it is not the listening one.
LEMMA FirstEvent ==
  ASSUME VlIInv, dpc = "serve", Head(batch) # Listen
  PROVE  /\ Len(batch) > 0 /\ Head(batch) \in Conns /\ Head(batch) \in watched
         /\ vlWorker[Head(batch)] = NoTask /\ conn[Head(batch)] \in Clients
<1>1. Len(batch) > 0
  BY DEF VlIInv, VlBatch
<1>2. Head(batch) = batch[1] /\ Head(batch) \in Conns /\ 1 \in 1 .. Len(batch)
  BY <1>1, TailFacts
<1>3. Head(batch) \in watched
  BY <1>2 DEF VlIInv, AnswerToAsker
<1> QED
  BY <1>1, <1>2, <1>3 DEF VlIInv, VlTypeOK, VlConnected, AnswerToAsker

\* A hangup or a request is that of the client connected by the number.
LEMMA VlServeKeeps == ASSUME VlIInv, DaemonHangup \/ DaemonRequest PROVE VlIInv'
<1> USE DEF VlIInv
<1>1. dpc = "serve" /\ Head(batch) # Listen /\ UNCHANGED client
  BY DEF DaemonHangup, DaemonRequest
<1>2. PICK f \in Conns : /\ f = Head(batch) /\ f \in watched /\ vlWorker[f] = NoTask /\ conn[f] \in Clients
                         /\ Len(batch) > 0
  BY <1>1, FirstEvent
<1>3. CASE ConnClosed(f) /\ Rest /\ UNCHANGED <<vlWorker, inl>>
  <2>1. /\ conn' = [conn EXCEPT ![f] = NoClient] /\ watched' = watched \ {f}
        /\ UNCHANGED <<client, vlWorker, inl>>
    BY <1>1, <1>3 DEF ConnClosed
  <2>2. VlTypeOK' /\ VlBatch'
    BY <1>2, <1>3, <2>1, VlRest DEF VlTypeOK
  <2>3. VlConnected'
    BY <1>2, <2>1 DEF VlConnected, VlTypeOK
  <2>4. AnswerToAsker'
    BY <1>2, <1>3, <2>1, VlRest DEF AnswerToAsker, VlTypeOK
  <2> QED
    BY <2>2, <2>3, <2>4
<1>4. ASSUME vlWorker' = [vlWorker EXCEPT ![f] = <<"run", conn[f]>>], watched' = watched \ {f},
             UNCHANGED conn,
             \/ Rest /\ UNCHANGED inl
             \/ dpc' = "inline" /\ inl' = f /\ UNCHANGED batch
      PROVE  VlIInv'
  <2>1. <<"run", conn[f]>> \in Tasks /\ <<"run", conn[f]>> # NoTask /\ <<"run", conn[f]>>[2] = conn[f]
    BY <1>2, TaskFacts
  <2>2. /\ \A g \in Conns : vlWorker'[g] = IF g = f THEN <<"run", conn[f]>> ELSE vlWorker[g]
        /\ vlWorker' \in [Conns -> Tasks]
    BY <1>4, <2>1 DEF VlTypeOK
  <2>3. conn[f] # NoClient
    BY <1>2, VarlinkAssumption
  <2>4. VlConnected'
    BY <1>4, <2>2, <2>3 DEF VlConnected
  <2>5. /\ batch' \in Seq(Conns \cup {Listen}) /\ dpc' \in {"poll", "serve", "inline"}
        /\ inl' \in Conns \cup {Listen} /\ VlBatch'
        /\ \A g \in Conns : \A i \in 1 .. Len(batch') :
             batch'[i] = g /\ (dpc' = "serve" \/ i > 1) => g \in watched'
    <3>1. CASE Rest /\ UNCHANGED inl
      <4>1. \A g \in Conns : g \in watched /\ g # Head(batch) => g \in watched'
        BY <1>2, <1>4
      <4> QED
        BY <1>2, <3>1, <4>1, VlRest DEF VlTypeOK
    <3>2. CASE dpc' = "inline" /\ inl' = f /\ UNCHANGED batch
      <4>1. batch[1] = f /\ vlWorker'[f] # NoTask
        BY <1>2, <2>1, <2>2, TailFacts
      <4>2. VlBatch'
        BY <1>1, <1>2, <3>2, <4>1 DEF VlBatch
      <4>3. ASSUME NEW g \in Conns, NEW i \in 1 .. Len(batch'), batch'[i] = g, i > 1 PROVE g \in watched'
        <5>1. g \in watched
          BY <3>2, <4>3 DEF AnswerToAsker
        <5>2. g # f
          BY <1>2, <3>2, <4>1, <4>3, TailFacts DEF VlBatch
        <5> QED
          BY <1>4, <5>1, <5>2
      <4> QED
        BY <3>2, <4>2, <4>3 DEF VlTypeOK
    <3> QED
      BY <1>4, <3>1, <3>2
  <2>6. VlTypeOK'
    BY <1>1, <1>4, <2>2, <2>5 DEF VlTypeOK
  <2>7. ASSUME NEW g \in Conns
        PROVE  /\ vlWorker'[g] # NoTask => conn'[g] = vlWorker'[g][2]
               /\ conn'[g] # NoClient => (g \in watched') # (vlWorker'[g] # NoTask)
    <3>1. CASE g = f
      BY <1>4, <2>1, <2>2, <3>1
    <3>2. CASE g # f
      BY <1>4, <2>2, <3>2 DEF AnswerToAsker
    <3> QED
      BY <3>1, <3>2
  <2> QED
    BY <2>4, <2>5, <2>6, <2>7 DEF AnswerToAsker
<1> QED
  BY <1>2, <1>3, <1>4 DEF DaemonHangup, DaemonRequest

\* A worker answers and closes its own client.
LEMMA VlWorkerKeeps == ASSUME VlIInv, NEW f \in Conns, WorkerAnswers(f) \/ WorkerCloses(f) PROVE VlIInv'
<1> USE DEF VlIInv
<1>1. vlWorker[f] \in Tasks /\ vlWorker[f] # NoTask /\ vlWorker[f][2] \in Clients
  BY TaskFacts DEF VlTypeOK, WorkerAnswers, WorkerCloses
<1>2. conn[f] = vlWorker[f][2] /\ conn[f] # NoClient /\ f \notin watched
  BY <1>1, VarlinkAssumption DEF AnswerToAsker
<1>3. CASE WorkerAnswers(f)
  <2>1. PICK w \in Tasks : w = <<"close", vlWorker[f][2]>> /\ w # NoTask /\ w[2] = vlWorker[f][2]
    BY <1>1, TaskFacts
  <2>2. /\ \A g \in Conns : vlWorker'[g] = IF g = f THEN w ELSE vlWorker[g]
        /\ vlWorker' \in [Conns -> Tasks]
        /\ UNCHANGED <<conn, watched, batch, dpc, inl>>
    BY <1>3, <2>1 DEF WorkerAnswers, VlTypeOK
  <2>3. client' \in [Clients -> {"new", "queued", "open", "asked", "left", "gone", "answered", "refused"}]
    BY <1>1, <1>2, <1>3 DEF WorkerAnswers, VlTypeOK
  <2>4. VlTypeOK' /\ VlConnected' /\ VlBatch'
    BY <1>2, <2>1, <2>2, <2>3 DEF VlTypeOK, VlConnected, VlBatch
  <2>5. AnswerToAsker'
    BY <1>1, <2>1, <2>2 DEF AnswerToAsker
  <2> QED
    BY <2>4, <2>5
<1>4. CASE WorkerCloses(f)
  <2>1. /\ vlWorker' = [vlWorker EXCEPT ![f] = NoTask] /\ NoTask \in Tasks
        /\ conn' = [conn EXCEPT ![f] = NoClient] /\ watched' = watched
        /\ UNCHANGED <<client, inl>>
    BY <1>2, <1>4 DEF WorkerCloses, ConnClosed, Tasks
  <2>2. /\ batch' \in Seq(Conns \cup {Listen}) /\ dpc' \in {"poll", "serve", "inline", "off"} /\ VlBatch'
        /\ \A g \in Conns : \A i \in 1 .. Len(batch') :
             batch'[i] = g /\ (dpc' = "serve" \/ i > 1) => g \in watched'
    <3>1. CASE dpc = "inline" /\ inl = f
      <4>1. Rest /\ Len(batch) > 0
        BY <1>4, <3>1 DEF WorkerCloses, VlBatch
      <4> QED
        BY <2>1, <4>1, VlRest
    <3>2. CASE ~ (dpc = "inline" /\ inl = f)
      <4>1. UNCHANGED <<dpc, batch>>
        BY <1>4, <3>2 DEF WorkerCloses
      <4>2. VlBatch'
        BY <2>1, <3>2, <4>1 DEF VlBatch, VlTypeOK
      <4> QED
        BY <2>1, <4>1, <4>2 DEF VlTypeOK, AnswerToAsker
    <3> QED
      BY <3>1, <3>2
  <2>3. VlTypeOK' /\ VlConnected'
    BY <1>2, <2>1, <2>2 DEF VlTypeOK, VlConnected
  <2>4. AnswerToAsker'
    BY <2>1, <2>2 DEF AnswerToAsker, VlTypeOK
  <2> QED
    BY <2>2, <2>3, <2>4
<1> QED
  BY <1>3, <1>4

\* Every step of daemon, workers and clients keeps the invariant.
LEMMA VlStepIInv == VlIInv /\ [VlNext]_vlVars => VlIInv'
<1> SUFFICES ASSUME VlIInv, [VlNext]_vlVars PROVE VlIInv'
  OBVIOUS
<1>1. ASSUME UNCHANGED <<conn, watched, batch, dpc, inl, vlWorker>>,
             client' \in [Clients -> {"new", "queued", "open", "asked", "left", "gone", "answered", "refused"}]
      PROVE  VlIInv'
  BY <1>1 DEF VlIInv, VlTypeOK, VlConnected, VlBatch, AnswerToAsker
<1>2. CASE UNCHANGED vlVars
  BY <1>1, <1>2 DEF vlVars, VlIInv, VlTypeOK
<1>3. ASSUME NEW k \in Clients, ClientConnects(k) \/ ClientMoves(k) PROVE VlIInv'
  BY <1>1, <1>3 DEF ClientConnects, ClientMoves, VlIInv, VlTypeOK
<1>4. CASE Stop
  BY <1>1, <1>4 DEF Stop, VlIInv, VlTypeOK
<1> QED
  BY <1>2, <1>3, <1>4, VlPollKeeps, VlAcceptKeeps, VlServeKeeps, VlWorkerKeeps DEF VlNext

(***************************************************************************)
(* A worker answers the client that asked, and a connection belongs to the *)
(* loop or to one worker, although numbers are reused at once and a batch  *)
(* of events outlives the descriptors closed while it is handled.          *)
(***************************************************************************)
THEOREM AnswerCorrect == VlSpec => []AnswerToAsker
<1>1. VlIInv => AnswerToAsker
  BY DEF VlIInv
<1> QED
  BY <1>1, VlInitIInv, VlStepIInv, PTL DEF VlSpec
-----------------------------------------------------------------------------
(***************************************************************************)
(* The ARC protocol of core/mem/weak.c counts exactly, runs the destructor *)
(* at most once and never under a strong reference, and frees the block at *)
(* most once and never under anybody's feet.                               *)
(***************************************************************************)

(***************************************************************************)
(* Counting tokens.                                                        *)
(***************************************************************************)
LEMMA CardFacts ==
  ASSUME NEW A \in SUBSET Refs
  PROVE  /\ Cardinality(A) \in Nat
         /\ Cardinality(A) = 0 <=> A = {}
         /\ \A r \in Refs : r \notin A => Cardinality(A \cup {r}) = Cardinality(A) + 1
         /\ \A r \in A : Cardinality(A \ {r}) = Cardinality(A) - 1
         /\ \A r \in A : Cardinality(A) = 1 => A = {r}
<1>1. IsFiniteSet(A)
  BY RefsAssumption, FS_Subset
<1>2. Cardinality(A) \in Nat /\ (Cardinality(A) = 0 <=> A = {})
  BY <1>1, FS_CardinalityType, FS_EmptySet
<1>3. \A r \in Refs : r \notin A => Cardinality(A \cup {r}) = Cardinality(A) + 1
  BY <1>1, FS_AddElement
<1>4. \A r \in A : Cardinality(A \ {r}) = Cardinality(A) - 1
  BY <1>1, FS_RemoveElement
<1>5. ASSUME NEW r \in A, Cardinality(A) = 1 PROVE A = {r}
  <2>1. IsFiniteSet(A \ {r}) /\ Cardinality(A \ {r}) = 0
    BY <1>1, <1>4, <1>5, FS_Subset
  <2>2. A \ {r} = {}
    BY <2>1, FS_EmptySet
  <2> QED
    BY <2>2
<1> QED
  BY <1>2, <1>3, <1>4, <1>5

\* A control block starts with one strong reference.
LEMMA InitIInv == Init => IInv
<1> SUFFICES ASSUME Init PROVE IInv
  OBVIOUS
<1>1. PICK r \in Refs, t \in Threads :
        S = {r} /\ owner = [q \in Refs |-> IF q = r THEN t ELSE None]
  BY DEF Init
<1>2. Cardinality(S) = 1 /\ Cardinality(W) = 0
  BY <1>1, FS_Singleton, FS_EmptySet DEF Init
<1>3. TypeOK
  BY <1>1 DEF Init, TypeOK, PcStates
<1>4. Ending = {} /\ Closing = {}
  BY DEF Init, Ending, Closing
<1>5. CountsExact
  BY <1>1, <1>2 DEF Init, CountsExact
<1>6. PayloadLive /\ NoUseAfterFree /\ OneEnder /\ OneCloser
  BY <1>4 DEF Init, PayloadLive, NoUseAfterFree, OneEnder, OneCloser
<1>7. OperandsHeld
  BY DEF Init, OperandsHeld
<1> QED
  BY <1>3, <1>5, <1>6, <1>7 DEF IInv

(***************************************************************************)
(* Types.                                                                  *)
(***************************************************************************)
LEMMA TypeStep == TypeOK /\ [Next]_vars => TypeOK'
<1> SUFFICES ASSUME TypeOK, [Next]_vars PROVE TypeOK'
  OBVIOUS
<1> USE DEF TypeOK, PcStates, Goto, counts, locals
<1>1. ASSUME NEW t \in Threads, RetainLoad(t) \/ UpgradeLoad(t) \/ CasFail(t) PROVE TypeOK'
  BY <1>1 DEF RetainLoad, UpgradeLoad, CasFail
<1>2. ASSUME NEW t \in Threads, Continue(t) PROVE TypeOK'
  <2>1. CASE Dtor(t) \/ DropHold(t) \/ FreeBlock(t)
    BY <2>1 DEF Dtor, DropHold, FreeBlock
  <2>2. CASE CreateLoad(t) \/ CreateUndo(t) \/ WeakReleaseLoad(t)
    BY <2>2 DEF CreateLoad, CreateUndo, WeakReleaseLoad
  <2> QED
    BY <1>2, <2>1, <2>2 DEF Continue
<1>3. ASSUME NEW t \in Threads, NEW r \in Refs, RetainCas(t, r) \/ UpgradeCas(t, r) PROVE TypeOK'
  BY <1>3 DEF RetainCas, UpgradeCas
<1>4. ASSUME NEW t \in Threads, NEW r \in Refs, Release(t, r) PROVE TypeOK'
  BY <1>4 DEF Release
<1>5. ASSUME NEW t \in Threads, NEW r \in Refs, CreateAdd(t, r) PROVE TypeOK'
  BY <1>5 DEF CreateAdd
<1>6. ASSUME NEW t \in Threads, NEW r \in Refs, WeakRetain(t, r) \/ WeakRelease(t, r) PROVE TypeOK'
  BY <1>6 DEF WeakRetain, WeakRelease
<1>7. ASSUME NEW t \in Threads, NEW u \in Threads, NEW r \in Refs, Pass(t, u, r) PROVE TypeOK'
  BY <1>7 DEF Pass
<1>8. CASE UNCHANGED vars
  BY <1>8 DEF vars
<1> QED
  BY <1>1, <1>2, <1>3, <1>4, <1>5, <1>6, <1>7, <1>8 DEF Next

-----------------------------------------------------------------------------
(***************************************************************************)
(* The inductive step: one step per action, one per conjunct below it.     *)
(***************************************************************************)
LEMMA IInvStep == IInv /\ [Next]_vars => IInv'
<1> SUFFICES ASSUME IInv, [Next]_vars PROVE IInv'
  OBVIOUS
<1> DEFINE Frame == /\ CountsExact /\ PayloadLive /\ NoUseAfterFree
                   /\ OneEnder /\ OneCloser /\ OperandsHeld
<1>0. TypeOK'
  BY TypeStep DEF IInv
<1>a. /\ strong \in Nat /\ (strong = 0 <=> S = {})
      /\ weak \in Nat
      /\ weak = 1 /\ W # {} => S = {} /\ Ending = {} /\ Cardinality(W) = 1
      /\ weak = 1 /\ Ending # {} => W = {}
  BY CardFacts DEF IInv, TypeOK, CountsExact
<1>b. \A r \in S : strong = 1 => S = {r}
  BY CardFacts DEF IInv, TypeOK, CountsExact
<1>c. \A r \in W : Cardinality(W) = 1 => W = {r}
  BY CardFacts DEF IInv, TypeOK
<1> USE DEF Goto, counts, locals, HoldsStrong, HoldsWeak, Free
<1>1. ASSUME NEW t \in Threads, RetainLoad(t) PROVE Frame'
  <2>1. CountsExact'
    BY <1>1 DEF RetainLoad, IInv, CountsExact
  <2>2. PayloadLive'
    BY <1>1 DEF RetainLoad, IInv, PayloadLive
  <2>3. NoUseAfterFree'
    BY <1>1 DEF RetainLoad, IInv, NoUseAfterFree
  <2>4. OneEnder'
    BY <1>1 DEF RetainLoad, IInv, OneEnder, Ending
  <2>5. OneCloser'
    BY <1>1 DEF RetainLoad, IInv, OneCloser, Closing
  <2>6. OperandsHeld'
    BY <1>a, <1>1 DEF RetainLoad, IInv, TypeOK, OperandsHeld
  <2> QED
    BY <2>1, <2>2, <2>3, <2>4, <2>5, <2>6
<1>2. ASSUME NEW t \in Threads, UpgradeLoad(t) PROVE Frame'
  <2>1. CountsExact'
    BY <1>2, CardFacts DEF UpgradeLoad, IInv, CountsExact
  <2>2. PayloadLive'
    BY <1>2 DEF UpgradeLoad, IInv, PayloadLive
  <2>3. NoUseAfterFree'
    BY <1>2 DEF UpgradeLoad, IInv, NoUseAfterFree
  <2>4. OneEnder'
    BY <1>2 DEF UpgradeLoad, IInv, OneEnder, Ending
  <2>5. OneCloser'
    BY <1>2 DEF UpgradeLoad, IInv, OneCloser, Closing
  <2>6. OperandsHeld'
    BY <1>a, <1>2 DEF UpgradeLoad, IInv, TypeOK, OperandsHeld
  <2> QED
    BY <2>1, <2>2, <2>3, <2>4, <2>5, <2>6
<1>3. ASSUME NEW t \in Threads, CasFail(t) PROVE Frame'
  <2>1. CountsExact'
    BY <1>3 DEF CasFail, IInv, TypeOK, CountsExact, Ending
  <2>2. PayloadLive'
    BY <1>3 DEF CasFail, IInv, PayloadLive
  <2>3. NoUseAfterFree'
    BY <1>3 DEF CasFail, IInv, NoUseAfterFree
  <2>4. OneEnder'
    BY <1>3 DEF CasFail, IInv, TypeOK, OneEnder, Ending
  <2>5. OneCloser'
    BY <1>3 DEF CasFail, IInv, TypeOK, OneCloser, Ending, Closing
  <2>6. OperandsHeld'
    BY <1>a, <1>3 DEF CasFail, IInv, TypeOK, OperandsHeld
  <2> QED
    BY <2>1, <2>2, <2>3, <2>4, <2>5, <2>6
<1>4. ASSUME NEW t \in Threads, NEW r \in Refs, RetainCas(t, r) PROVE Frame'
  <2>1. CountsExact'
    <3>1. S # {} /\ Cardinality(S') = Cardinality(S) + 1
      BY <1>4, CardFacts DEF RetainCas, IInv, TypeOK, OperandsHeld
    <3>2. Ending' = Ending
      BY <1>4 DEF RetainCas, IInv, TypeOK, Ending
    <3> QED
      BY <1>4, <3>1, <3>2 DEF RetainCas, IInv, CountsExact
  <2>2. PayloadLive'
    BY <1>4 DEF RetainCas, IInv, PayloadLive, OperandsHeld
  <2>3. NoUseAfterFree'
    BY <1>4 DEF RetainCas, IInv, NoUseAfterFree
  <2>4. OneEnder'
    BY <1>4 DEF RetainCas, IInv, OneEnder, OperandsHeld, Ending
  <2>5. OneCloser'
    BY <1>4 DEF RetainCas, IInv, OneCloser, OperandsHeld, Closing
  <2>6. OperandsHeld'
    BY <1>4 DEF RetainCas, IInv, TypeOK, OperandsHeld
  <2> QED
    BY <2>1, <2>2, <2>3, <2>4, <2>5, <2>6
<1>5. ASSUME NEW t \in Threads, NEW r \in Refs, UpgradeCas(t, r) PROVE Frame'
  <2>1. CountsExact'
    <3>1. S # {} /\ Cardinality(S') = Cardinality(S) + 1
      BY <1>a, <1>5, CardFacts DEF UpgradeCas, IInv, TypeOK, OperandsHeld
    <3>2. Ending' = Ending
      BY <1>5 DEF UpgradeCas, IInv, TypeOK, Ending
    <3> QED
      BY <1>5, <3>1, <3>2 DEF UpgradeCas, IInv, CountsExact
  <2>2. PayloadLive'
    BY <1>a, <1>5 DEF UpgradeCas, IInv, PayloadLive, OperandsHeld
  <2>3. NoUseAfterFree'
    BY <1>5 DEF UpgradeCas, IInv, NoUseAfterFree
  <2>4. OneEnder'
    BY <1>a, <1>5 DEF UpgradeCas, IInv, OneEnder, OperandsHeld, Ending
  <2>5. OneCloser'
    BY <1>5 DEF UpgradeCas, IInv, OneCloser, OperandsHeld, Closing
  <2>6. OperandsHeld'
    BY <1>5 DEF UpgradeCas, IInv, TypeOK, OperandsHeld
  <2> QED
    BY <2>1, <2>2, <2>3, <2>4, <2>5, <2>6
<1>6. ASSUME NEW t \in Threads, NEW r \in Refs, Release(t, r) PROVE Frame'
  <2>1. CountsExact'
    BY <1>6, CardFacts DEF Release, IInv, TypeOK, CountsExact, Ending
  <2>2. PayloadLive'
    BY <1>6 DEF Release, IInv, PayloadLive
  <2>3. NoUseAfterFree'
    BY <1>6 DEF Release, IInv, NoUseAfterFree
  <2>4. OneEnder'
    <3>1. Ending = {} /\ frees = 0 /\ dtors = 0
      BY <1>6 DEF Release, IInv, OneEnder, NoUseAfterFree, PayloadLive, TypeOK
    <3>2. Ending' \subseteq {t} /\ (t \in Ending' => S' = {})
      BY <1>b, <1>6, <3>1 DEF Release, IInv, TypeOK, Ending
    <3> QED
      BY <1>6, <3>1, <3>2 DEF Release, OneEnder, Ending
  <2>5. OneCloser'
    BY <1>6 DEF Release, IInv, OneCloser, Closing
  <2>6. OperandsHeld'
    BY <1>6 DEF Release, IInv, OperandsHeld
  <2> QED
    BY <2>1, <2>2, <2>3, <2>4, <2>5, <2>6
<1>7. ASSUME NEW t \in Threads, Dtor(t) PROVE Frame'
  <2>1. CountsExact'
    BY <1>7 DEF Dtor, IInv, CountsExact, Ending
  <2>2. PayloadLive'
    BY <1>7 DEF Dtor, IInv, PayloadLive, OneEnder, Ending
  <2>3. NoUseAfterFree'
    BY <1>7 DEF Dtor, IInv, NoUseAfterFree
  <2>4. OneEnder'
    BY <1>7 DEF Dtor, IInv, TypeOK, OneEnder, Ending
  <2>5. OneCloser'
    BY <1>7 DEF Dtor, IInv, OneCloser, Ending, Closing
  <2>6. OperandsHeld'
    BY <1>7 DEF Dtor, IInv, OperandsHeld
  <2> QED
    BY <2>1, <2>2, <2>3, <2>4, <2>5, <2>6
<1>8. ASSUME NEW t \in Threads, DropHold(t) PROVE Frame'
  <2>1. CountsExact'
    BY <1>8, CardFacts DEF DropHold, IInv, TypeOK, CountsExact, OneEnder, Ending
  <2>2. PayloadLive'
    BY <1>8 DEF DropHold, IInv, PayloadLive
  <2>3. NoUseAfterFree'
    BY <1>8 DEF DropHold, IInv, NoUseAfterFree
  <2>4. OneEnder'
    BY <1>8 DEF DropHold, IInv, OneEnder, Ending
  <2>5. OneCloser'
    BY <1>8, CardFacts DEF DropHold, IInv, TypeOK, CountsExact, OneEnder, OneCloser, Ending, Closing
  <2>6. OperandsHeld'
    BY <1>8 DEF DropHold, IInv, OperandsHeld
  <2> QED
    BY <2>1, <2>2, <2>3, <2>4, <2>5, <2>6
<1>9. ASSUME NEW t \in Threads, FreeBlock(t) PROVE Frame'
  <2>1. CountsExact'
    BY <1>9 DEF FreeBlock, IInv, CountsExact, Ending
  <2>2. PayloadLive'
    BY <1>9 DEF FreeBlock, IInv, PayloadLive
  <2>3. NoUseAfterFree'
    <3>1. t \in Closing /\ frees = 0 /\ S = {} /\ W = {}
      BY <1>9 DEF FreeBlock, IInv, OneCloser, Closing
    <3>2. \A u \in Threads : u # t => pc[u] = "idle"
      BY <3>1 DEF IInv, TypeOK, PcStates, OneCloser, OperandsHeld, Ending, Closing
    <3> QED
      BY <1>9, <3>1, <3>2 DEF FreeBlock, IInv, TypeOK, NoUseAfterFree
  <2>4. OneEnder'
    BY <1>9 DEF FreeBlock, IInv, OneEnder, OneCloser, Ending, Closing
  <2>5. OneCloser'
    BY <1>9 DEF FreeBlock, IInv, TypeOK, OneCloser, Closing
  <2>6. OperandsHeld'
    BY <1>9 DEF FreeBlock, IInv, OperandsHeld
  <2> QED
    BY <2>1, <2>2, <2>3, <2>4, <2>5, <2>6
<1>10. ASSUME NEW t \in Threads, NEW r \in Refs, CreateAdd(t, r) PROVE Frame'
  <2>1. CountsExact'
    BY <1>10, CardFacts DEF CreateAdd, IInv, TypeOK, CountsExact, Ending
  <2>2. PayloadLive'
    BY <1>10 DEF CreateAdd, IInv, PayloadLive
  <2>3. NoUseAfterFree'
    BY <1>10 DEF CreateAdd, IInv, NoUseAfterFree
  <2>4. OneEnder'
    BY <1>10 DEF CreateAdd, IInv, OneEnder, Ending
  <2>5. OneCloser'
    BY <1>10 DEF CreateAdd, IInv, OneCloser, Closing
  <2>6. OperandsHeld'
    BY <1>10 DEF CreateAdd, IInv, TypeOK, OperandsHeld
  <2> QED
    BY <2>1, <2>2, <2>3, <2>4, <2>5, <2>6
<1>11. ASSUME NEW t \in Threads, CreateLoad(t) PROVE Frame'
  <2>1. CountsExact'
    BY <1>11 DEF CreateLoad, IInv, TypeOK, CountsExact, Ending
  <2>2. PayloadLive'
    BY <1>11 DEF CreateLoad, IInv, PayloadLive
  <2>3. NoUseAfterFree'
    BY <1>11 DEF CreateLoad, IInv, NoUseAfterFree
  <2>4. OneEnder'
    BY <1>11 DEF CreateLoad, IInv, TypeOK, OneEnder, Ending
  <2>5. OneCloser'
    BY <1>11 DEF CreateLoad, IInv, TypeOK, OneCloser, Ending, Closing
  <2>6. OperandsHeld'
    BY <1>11 DEF CreateLoad, IInv, TypeOK, OperandsHeld
  <2> QED
    BY <2>1, <2>2, <2>3, <2>4, <2>5, <2>6
<1>12. ASSUME NEW t \in Threads, CreateUndo(t) PROVE Frame'
  <2>1. CountsExact'
    BY <1>12, CardFacts DEF CreateUndo, IInv, TypeOK, CountsExact, OperandsHeld, Ending
  <2>2. PayloadLive'
    BY <1>12 DEF CreateUndo, IInv, PayloadLive
  <2>3. NoUseAfterFree'
    BY <1>12 DEF CreateUndo, IInv, NoUseAfterFree
  <2>4. OneEnder'
    BY <1>12 DEF CreateUndo, IInv, OneEnder, Ending
  <2>5. OneCloser'
    BY <1>12, CardFacts DEF CreateUndo, IInv, TypeOK, CountsExact, PayloadLive, NoUseAfterFree, OneCloser, OperandsHeld, Ending, Closing
  <2>6. OperandsHeld'
    BY <1>12 DEF CreateUndo, IInv, TypeOK, OperandsHeld
  <2> QED
    BY <2>1, <2>2, <2>3, <2>4, <2>5, <2>6
<1>13. ASSUME NEW t \in Threads, NEW r \in Refs, WeakRetain(t, r) PROVE Frame'
  <2>1. CountsExact'
    BY <1>13, CardFacts DEF WeakRetain, IInv, TypeOK, CountsExact, Ending
  <2>2. PayloadLive'
    BY <1>13 DEF WeakRetain, IInv, PayloadLive
  <2>3. NoUseAfterFree'
    BY <1>13 DEF WeakRetain, IInv, NoUseAfterFree
  <2>4. OneEnder'
    BY <1>13 DEF WeakRetain, IInv, OneEnder, Ending
  <2>5. OneCloser'
    BY <1>13 DEF WeakRetain, IInv, OneCloser, Closing
  <2>6. OperandsHeld'
    BY <1>13 DEF WeakRetain, IInv, OperandsHeld
  <2> QED
    BY <2>1, <2>2, <2>3, <2>4, <2>5, <2>6
<1>14. ASSUME NEW t \in Threads, NEW r \in Refs, WeakRelease(t, r) PROVE Frame'
  <2>1. CountsExact'
    BY <1>14, CardFacts DEF WeakRelease, IInv, TypeOK, CountsExact, Ending
  <2>2. PayloadLive'
    BY <1>14 DEF WeakRelease, IInv, PayloadLive
  <2>3. NoUseAfterFree'
    BY <1>14 DEF WeakRelease, IInv, NoUseAfterFree
  <2>4. OneEnder'
    BY <1>14 DEF WeakRelease, IInv, OneEnder, Ending
  <2>5. OneCloser'
    <3>1. frees = 0 /\ Closing = {}
      BY <1>14 DEF WeakRelease, IInv, OneCloser, NoUseAfterFree, TypeOK
    <3>2. t \in Closing' => S = {} /\ Ending = {} /\ W' = {}
      BY <1>a, <1>c, <1>14 DEF WeakRelease, IInv, TypeOK, Closing
    <3>3. Ending' = Ending /\ Closing' \subseteq Closing \cup {t}
      BY <1>14 DEF WeakRelease, IInv, TypeOK, Ending, Closing
    <3> QED
      BY <1>14, <3>1, <3>2, <3>3 DEF WeakRelease, OneCloser
  <2>6. OperandsHeld'
    BY <1>14 DEF WeakRelease, IInv, OperandsHeld
  <2> QED
    BY <2>1, <2>2, <2>3, <2>4, <2>5, <2>6
<1>15. ASSUME NEW t \in Threads, WeakReleaseLoad(t) PROVE Frame'
  <2>1. CountsExact'
    BY <1>15 DEF WeakReleaseLoad, IInv, CountsExact, Ending
  <2>2. PayloadLive'
    BY <1>15 DEF WeakReleaseLoad, IInv, PayloadLive
  <2>3. NoUseAfterFree'
    BY <1>15 DEF WeakReleaseLoad, IInv, NoUseAfterFree
  <2>4. OneEnder'
    BY <1>15 DEF WeakReleaseLoad, IInv, OneEnder, Ending
  <2>5. OneCloser'
    BY <1>15 DEF WeakReleaseLoad, IInv, OneCloser, Ending, Closing
  <2>6. OperandsHeld'
    BY <1>15 DEF WeakReleaseLoad, IInv, OperandsHeld
  <2> QED
    BY <2>1, <2>2, <2>3, <2>4, <2>5, <2>6
<1>16. ASSUME NEW t \in Threads, NEW u \in Threads, NEW r \in Refs, Pass(t, u, r) PROVE Frame'
  <2>1. CountsExact'
    BY <1>16 DEF Pass, IInv, CountsExact, Ending
  <2>2. PayloadLive'
    BY <1>16 DEF Pass, IInv, PayloadLive
  <2>3. NoUseAfterFree'
    BY <1>16 DEF Pass, IInv, NoUseAfterFree
  <2>4. OneEnder'
    BY <1>16 DEF Pass, IInv, OneEnder, Ending
  <2>5. OneCloser'
    BY <1>16 DEF Pass, IInv, OneCloser, Closing
  <2>6. OperandsHeld'
    BY <1>16 DEF Pass, IInv, OperandsHeld
  <2> QED
    BY <2>1, <2>2, <2>3, <2>4, <2>5, <2>6
<1>17. CASE UNCHANGED vars
  BY <1>0, <1>17 DEF vars, IInv, CountsExact, PayloadLive, NoUseAfterFree, OneEnder, OneCloser, OperandsHeld, Ending, Closing
<1> QED
  BY <1>0, <1>1, <1>2, <1>3, <1>4, <1>5, <1>6, <1>7, <1>8, <1>9, <1>10, <1>11, <1>12, <1>13, <1>14, <1>15, <1>16, <1>17 DEF Next, Continue, IInv

(***************************************************************************)
(* The inductive invariant holds in every reachable state.                 *)
(***************************************************************************)
THEOREM Safety == Spec => []IInv
  BY InitIInv, IInvStep, PTL DEF Spec

(***************************************************************************)
(* strong_count and weak_count are the numbers of references, and one more *)
(* weak count while strong owners, or the last of them, still hold it.     *)
(***************************************************************************)
THEOREM CountsCorrect == Spec => []CountsExact
<1>1. IInv => CountsExact
  BY DEF IInv
<1> QED
  BY <1>1, Safety, PTL

(***************************************************************************)
(* The destructor runs at most once and never while a strong reference is  *)
(* held, however upgrades and releases interleave.                         *)
(***************************************************************************)
THEOREM PayloadCorrect == Spec => []PayloadLive
<1>1. IInv => PayloadLive
  BY DEF IInv
<1> QED
  BY <1>1, Safety, PTL

(***************************************************************************)
(* The control block is freed at most once, when no reference and no       *)
(* operation that could touch it is left.                                  *)
(***************************************************************************)
THEOREM FreeCorrect == Spec => []NoUseAfterFree
<1>1. IInv => NoUseAfterFree
  BY DEF IInv
<1> QED
  BY <1>1, Safety, PTL

-----------------------------------------------------------------------------
(***************************************************************************)
(* The sandbox.                                                            *)
(***************************************************************************)
\* Types of what the kernel keeps and of the status; a configuration lists listed paths only.
SbTypeOK ==
  /\ fsAllow \subseteq SbFiles \X Rights /\ allowed \subseteq Classes
  /\ soft \in Int /\ hard \in Int
  /\ status \in [enforced : BOOLEAN, quotas : BOOLEAN]
  /\ sloc.rd \subseteq {"rdir", "dev"} /\ sloc.wd \subseteq {"wdir"}
  /\ sloc.mem \in Limits \cup {0}

\* What is known at each place of the matrix, and of the limit: nobody sets only the soft one.
SbProgress ==
  /\ soft = hard
  /\ capOn => filtered
  /\ spc \in {"limits", "status"} => filtered
  /\ spc = "status" /\ sloc.mem > 0 => soft < NoLimit

\* The invariant of the sandbox.
SbIInv == SbTypeOK /\ SbProgress /\ SandboxClaimsTrue

(* NoLimit is above every limit a program can ask for. *)
LEMMA NoLimitAbove == NoLimit \in Int /\ \A v \in Limits \cup {0} : v \in Int /\ v < NoLimit
<1>1. PICK m \in Limits : \A v \in Limits : v <= m
  BY LimitsAssumption
<1>2. Max(Limits) \in Limits /\ \A v \in Limits : Max(Limits) >= v
  <2>1. \E x \in Limits : \A y \in Limits : x >= y
    BY <1>1, LimitsAssumption
  <2> QED BY <2>1 DEF Max
<1> DEFINE top == Max(Limits)
<1>3. top \in Nat /\ NoLimit = top + 1 /\ \A v \in Limits : v \in Nat /\ v <= top
  <2>1. top \in Nat
    BY <1>2, LimitsAssumption
  <2>2. \A v \in Limits : v \in Nat /\ v <= top
    BY <1>2, <2>1, LimitsAssumption
  <2> QED BY <2>1, <2>2 DEF NoLimit
<1> HIDE DEF top
<1> QED BY <1>3

(* A layer keeps none of the handled rights of a name no rule lists. *)
LEMMA RestrictedUnlisted ==
  ASSUME NEW rd \in SUBSET {"rdir", "dev"}, NEW wd \in SUBSET {"wdir"}
  PROVE  \A r \in ll_handled_fs : <<"other", r>> \notin Restricted(RuleSet(rd, wd))
<1>1. ASSUME NEW r PROVE <<"other", r>> \notin RuleSet(rd, wd)
  <2>1. ASSUME NEW f \in {"rdir", "dev", "wdir"}, NEW bits PROVE <<"other", r>> \notin ll_add_one(f, bits)
    BY <2>1 DEF ll_add_one
  <2>2. \A f \in rd : <<"other", r>> \notin ll_add_one(f, ll_read_bits)
    BY <2>1
  <2>3. \A f \in wd : <<"other", r>> \notin ll_add_one(f, ll_write_bits)
    BY <2>1
  <2>4. <<"other", r>> \notin UNION {ll_add_one(f, ll_read_bits) : f \in rd}
    BY <2>2, Zenon
  <2>5. <<"other", r>> \notin UNION {ll_add_one(f, ll_write_bits) : f \in wd}
    BY <2>3, Zenon
  <2> QED BY <2>4, <2>5, Zenon DEF RuleSet
<1> QED BY <1>1 DEF Restricted

(* setrlimit keeps both limits together and brings them down, or refuses a value above them. *)
LEMMA RlimitSets ==
  ASSUME soft \in Int, hard = soft, NEW v \in Limits, oo_rlimit_set_mem_mb(v)
  PROVE  soft' \in Int /\ hard' = soft' /\ soft' <= soft /\ soft' < NoLimit
BY NoLimitAbove, LimitsAssumption DEF oo_rlimit_set_mem_mb

(* The invariant holds at the start. *)
LEMMA SbInitial == SbInit => SbIInv
<1> SUFFICES ASSUME SbInit PROVE SbIInv
  OBVIOUS
<1>1. status.enforced = FALSE /\ status.quotas = FALSE /\ status \in [enforced : BOOLEAN, quotas : BOOLEAN]
  BY DEF SbInit, NoStatus
<1>2. sloc.rd = {} /\ sloc.wd = {} /\ sloc.mem = 0
  BY DEF SbInit, NoConfig
<1>3. SbTypeOK
  BY <1>1, <1>2, NoLimitAbove DEF SbInit, SbTypeOK
<1>4. SbProgress
  BY <1>2 DEF SbInit, SbProgress
<1>5. SandboxClaimsTrue
  BY <1>1 DEF SbInit, SandboxClaimsTrue
<1> QED BY <1>3, <1>4, <1>5 DEF SbIInv

(* Every step keeps the invariant and loosens nothing. *)
LEMMA SbStep ==
  ASSUME SbIInv, [SbNext]_sbVars
  PROVE  SbIInv' /\ soft' <= soft /\ allowed' \subseteq allowed /\ fsAllow' \subseteq fsAllow
<1> DEFINE Kept == SbIInv' /\ soft' <= soft /\ allowed' \subseteq allowed /\ fsAllow' \subseteq fsAllow
<1> USE DEF SbIInv, SbTypeOK, SbProgress, SandboxClaimsTrue
<1> USE DEF kernelVars, capfVars, noteVars, sandVars, SandMuFree, SGoto, SReturn, NoConfig
<1>1. CASE oodar_cap_drop
  <2>1. SbTypeOK' /\ soft' <= soft /\ allowed' \subseteq allowed /\ fsAllow' \subseteq fsAllow
    BY <1>1 DEF oodar_cap_drop
  <2>2. SbProgress'
    BY <1>1 DEF oodar_cap_drop
  <2>3. SandboxClaimsTrue'
    BY <1>1 DEF oodar_cap_drop, ll_handled_fs
  <2> QED BY <2>1, <2>2, <2>3
<1>2. CASE SbNote
  BY <1>2 DEF SbNote, ll_handled_fs
<1>3. CASE oo_sandbox_apply
  <2>0. status' \in [enforced : BOOLEAN, quotas : BOOLEAN]
    BY <1>3 DEF oo_sandbox_apply
  <2>1. SbTypeOK' /\ soft' <= soft /\ allowed' \subseteq allowed /\ fsAllow' \subseteq fsAllow
    BY <1>3, <2>0 DEF oo_sandbox_apply, sand_install_seccomp, capf_install
  <2>2. SbProgress'
    BY <1>3 DEF oo_sandbox_apply, sand_install_seccomp, capf_install
  <2>3. SandboxClaimsTrue'
    BY <1>3 DEF oo_sandbox_apply, sand_install_seccomp, capf_install, ll_handled_fs
  <2> QED BY <2>1, <2>2, <2>3
<1>4. CASE RawRestrict
  BY <1>4 DEF RawRestrict, Restricted, ll_handled_fs
<1>5. CASE oo_seccomp_apply_raw
  BY <1>5 DEF oo_seccomp_apply_raw, capf_install, ll_handled_fs
<1>6. ASSUME NEW v \in Limits, oo_sandbox_set_quotas(v) PROVE Kept
  <2>1. soft' \in Int /\ hard' = soft' /\ soft' <= soft /\ soft' < NoLimit
    BY <1>6, RlimitSets DEF oo_sandbox_set_quotas
  <2> QED BY <1>6, <2>1 DEF oo_sandbox_set_quotas, ll_handled_fs
<1>7. ASSUME NEW v \in Limits, RlimitCall(v) PROVE Kept
  <2>1. soft' \in Int /\ hard' = soft' /\ soft' <= soft /\ soft' < NoLimit
    BY <1>7, RlimitSets DEF RlimitCall
  <2> QED BY <1>7, <2>1 DEF RlimitCall, ll_handled_fs
<1>8. ASSUME NEW c, c.rd \subseteq {"rdir", "dev"}, c.wd \subseteq {"wdir"}, c.mem \in Limits \cup {0},
             oo_sandbox_apply_matrix(c)
      PROVE  Kept
  BY <1>8 DEF oo_sandbox_apply_matrix, ll_handled_fs
<1>9. ASSUME NEW c \in Configs, oo_sandbox_apply_matrix(c) PROVE Kept
  BY <1>9, <1>8 DEF Configs
<1>10. ASSUME NEW m \in Masks, oo_sandbox_restrict_caps(m) PROVE Kept
  <2> DEFINE c == [mask |-> m, rd |-> {}, wd |-> {}, mem |-> 0]
  <2>1. c.rd \subseteq {"rdir", "dev"} /\ c.wd \subseteq {"wdir"} /\ c.mem \in Limits \cup {0}
    OBVIOUS
  <2>2. oo_sandbox_apply_matrix(c)
    BY <1>10 DEF oo_sandbox_restrict_caps
  <2> HIDE DEF c
  <2> QED BY <1>8, <2>1, <2>2
<1>11. CASE oo_landlock_restrict
  <2>1. fsAllow' \subseteq fsAllow
    BY <1>11 DEF oo_landlock_restrict, Restricted
  <2>2. \A r \in ll_handled_fs : <<"other", r>> \notin Restricted(RuleSet(sloc.rd, sloc.wd))
    BY RestrictedUnlisted
  <2>3. ll_handled_fs' = ll_handled_fs
    BY <1>11 DEF oo_landlock_restrict, ll_handled_fs
  <2>4. SbTypeOK'
    BY <1>11, <2>1 DEF oo_landlock_restrict
  <2>5. SbProgress'
    BY <1>11 DEF oo_landlock_restrict
  <2>6. \A r : <<"other", r>> \in fsAllow' => <<"other", r>> \in fsAllow
    BY <2>1
  <2>7. (llApplied => layers /\ \A r \in ll_handled_fs : <<"other", r>> \notin fsAllow)'
    BY <1>11, <2>2, <2>3, <2>6 DEF oo_landlock_restrict
  <2>8. SandboxClaimsTrue'
    BY <1>11, <2>7 DEF oo_landlock_restrict
  <2> QED BY <1>11, <2>1, <2>4, <2>5, <2>8 DEF oo_landlock_restrict
<1>12. CASE SbSeccomp
  <2>1. SbTypeOK' /\ soft' <= soft /\ allowed' \subseteq allowed /\ fsAllow' \subseteq fsAllow
    BY <1>12 DEF SbSeccomp, CapApply, capf_install
  <2>2. SbProgress'
    BY <1>12 DEF SbSeccomp, CapApply, capf_install
  <2>3. SandboxClaimsTrue'
    BY <1>12 DEF SbSeccomp, CapApply, capf_install, ll_handled_fs
  <2> QED BY <2>1, <2>2, <2>3
<1>13. CASE SbSandboxed
  BY <1>13 DEF SbSandboxed, ll_handled_fs
<1>14. CASE SbLimits
  <2>1. CASE sloc.mem > 0
    <3>1. sloc.mem \in Limits
      BY <2>1
    <3>2. soft' \in Int /\ hard' = soft' /\ soft' <= soft /\ soft' < NoLimit
      BY <1>14, <2>1, <3>1, RlimitSets DEF SbLimits
    <3> QED BY <1>14, <3>2 DEF SbLimits, ll_handled_fs
  <2>2. CASE ~ (sloc.mem > 0)
    BY <1>14, <2>2 DEF SbLimits, ll_handled_fs
  <2> QED BY <2>1, <2>2
<1>15. CASE SbStatus
  BY <1>15 DEF SbStatus, sand_update_status_from_config, ll_handled_fs
<1>16. CASE UNCHANGED sbVars
  BY <1>16 DEF sbVars, ll_handled_fs
<1> QED BY <1>1, <1>2, <1>3, <1>4, <1>5, <1>6, <1>7, <1>9, <1>10, <1>11, <1>12, <1>13, <1>14, <1>15, <1>16 DEF SbNext

(***************************************************************************)
(* What the library remembers of the sandbox is true of the kernel, for    *)
(* every set of masks, limits and Landlock versions.                       *)
(***************************************************************************)
THEOREM SandboxCorrect == SbSpec => []SandboxClaimsTrue
<1>1. SbIInv => SandboxClaimsTrue
  BY DEF SbIInv
<1> QED BY <1>1, SbInitial, SbStep, PTL DEF SbSpec

(***************************************************************************)
(* No step raises the memory limit or gives back a right or a system call. *)
(***************************************************************************)
THEOREM TightensCorrect == SbSpec => OnlyTightens
<1>1. SbIInv /\ [SbNext]_sbVars
        => [soft' <= soft /\ allowed' \subseteq allowed /\ fsAllow' \subseteq fsAllow]_sbVars
  BY SbStep
<1>2. SbIInv /\ [SbNext]_sbVars => SbIInv'
  BY SbStep
<1> QED BY <1>1, <1>2, SbInitial, PTL DEF SbSpec, OnlyTightens
-----------------------------------------------------------------------------
(* Capability tokens.                                                      *)

Token(k) == [kind |-> k, draw |-> 1]
InGate(t) == cpc[t] \in {"check", "bridge", "passed", "refused"}

\* A store is filled once; it is wiped only while exit() runs; only drawn tokens are given out.
CapStores ==
  /\ once \subseteq Stores /\ DOMAIN drawn = Stores
  /\ \A s \in Stores : drawn[s] = (IF s \in once THEN 1 ELSE 0)
  /\ wiped # {} => exiting
  /\ DOMAIN cpc = CapThreads /\ DOMAIN cloc = CapThreads
CapHanded == \A x \in handed : \E k \in Kinds : x = Token(k) /\ StoreOf(k) \in once

\* What a thread in a gate holds: the tokens it read are the gate's, and as long as nobody has
\* called exit, one that was given out before the call was there to be read.
CapLocal(t) ==
  LET c == cloc[t] IN
  /\ InGate(t) => c.gate \in Kinds /\ c.got \in handed \cup {Zero, Forged}
  /\ cpc[t] \in {"check", "bridge"} =>
       /\ c.want \in {Zero, Token(c.gate)}
       /\ c.alt \in {Zero, Token(AliasOf(c.gate))}
       /\ ~ exiting /\ c.got \in handed =>
            /\ c.got.kind = c.gate => c.got = c.want
            /\ c.got.kind = AliasOf(c.gate) => c.got = c.alt
  /\ cpc[t] = "bridge" => c.got # Zero /\ c.got \in {c.want, c.alt}
  /\ cpc[t] = "passed" => c.got \in handed /\ c.got.kind \in {c.gate, AliasOf(c.gate)}
  /\ cpc[t] = "refused" /\ ~ exiting => ~ (c.got \in handed /\ c.got.kind \in {c.gate, AliasOf(c.gate)})

\* The invariant of the gates.
CapIInv == CapStores /\ CapHanded /\ \A t \in CapThreads : CapLocal(t)

(* A kind is neither of the names that stand for no token. *)
LEMMA KindsNamed == \A k \in Kinds : k # "none" /\ k # "forged" /\ AliasOf(k) # "forged"
BY KindsAssumption DEF LanguageOf, ROWS, AliasOf

(* Zero and a forged value are never given out. *)
LEMMA NeverHanded ==
  ASSUME CapHanded
  PROVE  Zero \notin handed /\ Forged \notin handed
BY KindsNamed DEF CapHanded, Zero, Forged, Token

(* pthread_once: filling a store keeps what is known of the stores. *)
LEMMA StoreFilled ==
  ASSUME CapStores, NEW s \in Stores, StoreInit(s)
  PROVE  /\ once' \subseteq Stores /\ DOMAIN drawn' = Stores
         /\ \A r \in Stores : drawn'[r] = (IF r \in once' THEN 1 ELSE 0)
         /\ once \subseteq once' /\ s \in once'
BY DEF CapStores, StoreInit

(* A thread that does not move keeps what it knows while tokens are given out. *)
LEMMA CapOthers ==
  ASSUME NEW u \in CapThreads, CapLocal(u), CapHanded, CapHanded',
         cpc'[u] = cpc[u], cloc'[u] = cloc[u], handed \subseteq handed', exiting => exiting'
  PROVE  CapLocal(u)'
<1>1. Zero \notin handed /\ Forged \notin handed
  BY NeverHanded
<1>2. Zero \notin handed' /\ Forged \notin handed'
  BY KindsNamed DEF CapHanded, Zero, Forged, Token
<1>3. InGate(u) => (cloc[u].got \in handed' <=> cloc[u].got \in handed)
  BY <1>1, <1>2 DEF CapLocal
<1> QED BY <1>3 DEF CapLocal, InGate

(* Kinds and their stores. *)
LEMMA StoreOfIn == \A k : StoreOf(k) \in Stores
BY DEF StoreOf, Stores

(* The invariant holds at the start. *)
LEMMA CapInitial == CapInit => CapIInv
BY DEF CapInit, CapIInv, CapStores, CapHanded, CapLocal, InGate

(* A grant keeps the invariant. *)
LEMMA CapGrantStep ==
  ASSUME CapIInv, NEW t \in CapThreads, NEW k \in Kinds, CapGrant(t, k)
  PROVE  CapIInv'
<1>1. once' \subseteq Stores /\ DOMAIN drawn' = Stores /\ once \subseteq once' /\ StoreOf(k) \in once'
      /\ \A r \in Stores : drawn'[r] = (IF r \in once' THEN 1 ELSE 0)
  BY StoreFilled, StoreOfIn DEF CapIInv, CapGrant
<1>2. CapStores'
  BY <1>1 DEF CapIInv, CapStores, CapGrant
<1>3. drawn'[StoreOf(k)] = 1
  BY <1>1, StoreOfIn
<1>4. handed \subseteq handed' /\ \A x \in handed' : x \in handed \/ x = Token(k)
  BY <1>3 DEF CapGrant, Token
<1>5. CapHanded'
  BY <1>1, <1>4 DEF CapIInv, CapHanded
<1>6. ASSUME NEW u \in CapThreads PROVE CapLocal(u)'
  BY <1>4, <1>5, CapOthers DEF CapIInv, CapGrant
<1> QED BY <1>2, <1>5, <1>6 DEF CapIInv

(* A call reads the token of its gate: if the caller's was given out, that is the one it reads. *)
LEMMA CapRequireStep ==
  ASSUME CapIInv, NEW t \in CapThreads, NEW k \in Kinds, NEW shown \in handed \cup {Zero, Forged},
         oo_cap_require(t, k, shown)
  PROVE  CapIInv'
<1> DEFINE c == [gate |-> k, got |-> shown, want |-> Tok(k),
                 alt |-> IF AliasOf(k) = "none" THEN Zero ELSE Tok(AliasOf(k))]
<1>1. CapStores' /\ CapHanded'
  BY DEF CapIInv, CapStores, CapHanded, oo_cap_require, CGoto
<1>2. \A j : Tok(j) \in {Zero, Token(j)}
  BY StoreOfIn DEF Tok, Token, CapIInv, CapStores
<1>3. ASSUME NEW j, ~ exiting, shown \in handed, shown.kind = j PROVE Tok(j) = shown
  <2>1. PICK i \in Kinds : shown = Token(i) /\ StoreOf(i) \in once
    BY <1>3 DEF CapIInv, CapHanded
  <2>2. i = j
    BY <2>1, <1>3 DEF Token
  <2>3. wiped = {} /\ drawn[StoreOf(i)] = 1
    BY <2>1, <1>3, StoreOfIn DEF CapIInv, CapStores
  <2> QED BY <2>1, <2>2, <2>3 DEF Tok, Token
<1>4. shown \in handed => shown.kind # "none"
  BY KindsNamed DEF CapIInv, CapHanded, Token
<1>5. cpc'[t] = "check" /\ cloc'[t] = c
  BY DEF oo_cap_require, CGoto, CapIInv, CapStores
<1>6. c.gate = k /\ c.got = shown /\ c.want = Tok(k)
      /\ c.alt = IF AliasOf(k) = "none" THEN Zero ELSE Tok(AliasOf(k))
  OBVIOUS
<1>7. handed' = handed /\ exiting' = exiting
  BY DEF oo_cap_require
<1> HIDE DEF c
<1>8. CapLocal(t)'
  BY <1>2, <1>3, <1>4, <1>5, <1>6, <1>7 DEF CapLocal, InGate
<1>9. ASSUME NEW u \in CapThreads, u # t PROVE CapLocal(u)'
  BY <1>9, <1>1, <1>7, CapOthers DEF CapIInv, CapStores, oo_cap_require, CGoto
<1> QED BY <1>1, <1>8, <1>9 DEF CapIInv

(* The gates of the main store: the token against the two that were read. *)
LEMMA DualCheckStep ==
  ASSUME CapIInv, NEW t \in CapThreads, dual_check(t)
  PROVE  CapIInv'
<1>1. once' \subseteq Stores /\ DOMAIN drawn' = Stores /\ once \subseteq once'
      /\ \A r \in Stores : drawn'[r] = (IF r \in once' THEN 1 ELSE 0)
  <2>1. "main" \in Stores
    BY DEF Stores
  <2> QED BY <2>1, StoreFilled DEF CapIInv, dual_check
<1>2. CapStores'
  BY <1>1 DEF CapIInv, CapStores, dual_check, CGoto
<1>3. CapHanded'
  BY <1>1 DEF CapIInv, CapHanded, dual_check
<1>4. handed' = handed /\ exiting' = exiting /\ cloc' = cloc
  BY DEF dual_check
<1>5. Zero \notin handed
  BY NeverHanded DEF CapIInv
<1>6. CapLocal(t) /\ cpc[t] = "check"
  BY DEF CapIInv, dual_check
<1>7. cpc'[t] = IF cloc[t].got # Zero /\ cloc[t].got \in {cloc[t].want, cloc[t].alt} THEN "bridge" ELSE "refused"
  BY DEF CapIInv, CapStores, dual_check, CGoto
<1>8. CapLocal(t)'
  BY <1>4, <1>5, <1>6, <1>7 DEF CapLocal, InGate
<1>9. ASSUME NEW u \in CapThreads, u # t PROVE CapLocal(u)'
  BY <1>9, <1>3, <1>4, CapOthers DEF CapIInv, CapStores, dual_check, CGoto
<1> QED BY <1>2, <1>3, <1>8, <1>9 DEF CapIInv

(* The gates of the small stores: the token against the one in force after the draw. *)
LEMMA SmallGateStep ==
  ASSUME CapIInv, NEW t \in CapThreads, NEW s \in Stores \ {"main"}, SmallGate(t, s)
  PROVE  CapIInv'
<1>1. once' \subseteq Stores /\ DOMAIN drawn' = Stores /\ once \subseteq once'
      /\ \A r \in Stores : drawn'[r] = (IF r \in once' THEN 1 ELSE 0)
  BY StoreFilled DEF CapIInv, SmallGate
<1>2. CapStores'
  BY <1>1 DEF CapIInv, CapStores, SmallGate, CGoto
<1>3. CapHanded'
  BY <1>1 DEF CapIInv, CapHanded, SmallGate
<1>4. handed' = handed /\ exiting' = exiting /\ cloc' = cloc /\ wiped' = wiped
  BY DEF SmallGate
<1> DEFINE c == cloc[t]
<1>5. CapLocal(t) /\ cpc[t] = "check" /\ StoreOf(c.gate) = s /\ c.gate \in Kinds
      /\ c.got \in handed \cup {Zero, Forged}
  BY DEF CapIInv, SmallGate, CapLocal, InGate
<1>6. cpc'[t] = IF c.got # Zero /\ c.got = Tok(c.gate)' THEN "passed" ELSE "refused"
  BY <1>4 DEF CapIInv, CapStores, SmallGate, CGoto
<1>7. AliasOf(c.gate) = "none"
  BY <1>5 DEF StoreOf, AliasOf, Stores
<1>8. c.got \in handed => \E i \in Kinds : c.got = Token(i) /\ StoreOf(i) \in once' /\ i # "none"
  BY <1>1, KindsNamed DEF CapIInv, CapHanded
<1>9. Tok(c.gate)' \in {Zero, Token(c.gate)}
  BY <1>1, <1>4, StoreOfIn DEF Tok, Token
<1>10. StoreOf(c.gate) \in once' /\ ~ exiting => Tok(c.gate)' = Token(c.gate)
  BY <1>1, <1>4, StoreOfIn DEF Tok, Token, CapIInv, CapStores
<1>11. Zero \notin handed /\ Token(c.gate) # Forged /\ Token(c.gate).kind = c.gate
  BY <1>5, NeverHanded, KindsNamed DEF CapIInv, Token, Forged
<1> HIDE DEF c
<1>12. cpc'[t] = "passed" => c.got \in handed /\ c.got.kind = c.gate
  BY <1>5, <1>6, <1>9, <1>11
<1>13. cpc'[t] = "refused" /\ ~ exiting => ~ (c.got \in handed /\ c.got.kind \in {c.gate, AliasOf(c.gate)})
  <2> SUFFICES ASSUME cpc'[t] = "refused", ~ exiting, c.got \in handed, c.got.kind \in {c.gate, AliasOf(c.gate)}
               PROVE FALSE
    OBVIOUS
  <2>1. PICK i \in Kinds : c.got = Token(i) /\ StoreOf(i) \in once' /\ i # "none"
    BY <1>8
  <2>2. i = c.gate
    BY <2>1, <1>7 DEF Token
  <2> QED BY <1>6, <1>10, <1>11, <2>1, <2>2
<1>14. CapLocal(t)'
  BY <1>4, <1>5, <1>6, <1>12, <1>13 DEF CapLocal, InGate, c
<1>15. ASSUME NEW u \in CapThreads, u # t PROVE CapLocal(u)'
  BY <1>15, <1>3, <1>4, CapOthers DEF CapIInv, CapStores, SmallGate, CGoto
<1> QED BY <1>2, <1>3, <1>14, <1>15 DEF CapIInv

(* The second opinion of the rights table. *)
LEMMA BridgeStep ==
  ASSUME CapIInv, NEW t \in CapThreads, oo_cap_check_with_ocap(t)
  PROVE  CapIInv'
<1> DEFINE c == cloc[t]
<1>1. CapStores' /\ CapHanded'
  BY DEF CapIInv, CapStores, CapHanded, oo_cap_check_with_ocap, CGoto
<1>2. handed' = handed /\ exiting' = exiting /\ cloc' = cloc
  BY DEF oo_cap_check_with_ocap
<1>3. CapLocal(t) /\ cpc[t] = "bridge"
  BY DEF CapIInv, oo_cap_check_with_ocap
<1>4. cpc'[t] = IF Tok(c.got.kind) = c.got /\ LanguageOf(c.got.kind) \in ROWS THEN "passed" ELSE "refused"
  BY DEF CapIInv, CapStores, oo_cap_check_with_ocap, CGoto
<1>5. c.gate \in Kinds /\ c.got \in {Token(c.gate), Token(AliasOf(c.gate))}
  BY <1>3 DEF CapLocal, InGate
<1>6. c.got \in handed
  BY <1>3, <1>5, KindsNamed DEF CapLocal, InGate, Token, Forged
<1>7. c.got.kind \in {c.gate, AliasOf(c.gate)}
  BY <1>5 DEF Token
<1>8. PICK i \in Kinds : c.got = Token(i) /\ StoreOf(i) \in once
  BY <1>6 DEF CapIInv, CapHanded
<1>9. c.got.kind = i
  BY <1>8 DEF Token
<1>10. ~ exiting => Tok(i) = Token(i)
  BY <1>8, StoreOfIn DEF Tok, Token, CapIInv, CapStores
<1>11. ~ exiting => cpc'[t] = "passed"
  BY <1>4, <1>8, <1>9, <1>10, KindsAssumption
<1>12. CapLocal(t)'
  BY <1>2, <1>3, <1>4, <1>6, <1>7, <1>11 DEF CapLocal, InGate
<1>13. ASSUME NEW u \in CapThreads, u # t PROVE CapLocal(u)'
  BY <1>13, <1>1, <1>2, CapOthers DEF CapIInv, CapStores, oo_cap_check_with_ocap, CGoto
<1> QED BY <1>1, <1>12, <1>13 DEF CapIInv

(* A gate returns, or its refusal or the program calls exit. *)
LEMMA CapLeaveStep ==
  ASSUME CapIInv, NEW t \in CapThreads, CapReturn(t) \/ CapExit(t)
  PROVE  CapIInv'
<1>1. CapStores' /\ CapHanded'
  BY DEF CapIInv, CapStores, CapHanded, CapReturn, CapExit, CGoto
<1>2. handed' = handed /\ (exiting => exiting')
  BY DEF CapReturn, CapExit
<1>3. cpc'[t] \in {"idle", "gone"}
  BY DEF CapIInv, CapStores, CapReturn, CapExit, CGoto
<1>4. CapLocal(t)'
  BY <1>3 DEF CapLocal, InGate
<1>5. ASSUME NEW u \in CapThreads, u # t PROVE CapLocal(u)'
  BY <1>5, <1>1, <1>2, CapOthers DEF CapIInv, CapStores, CapReturn, CapExit, CGoto
<1> QED BY <1>1, <1>4, <1>5 DEF CapIInv

(* An exit handler wipes a store. *)
LEMMA ZeroizeStep ==
  ASSUME CapIInv, NEW s \in Stores, Zeroize(s)
  PROVE  CapIInv'
<1>1. CapStores' /\ CapHanded'
  BY DEF CapIInv, CapStores, CapHanded, Zeroize
<1>2. ASSUME NEW u \in CapThreads PROVE CapLocal(u)'
  BY <1>1, CapOthers DEF CapIInv, Zeroize
<1> QED BY <1>1, <1>2 DEF CapIInv

(***************************************************************************)
(* A gate lets through the holders of its token and nobody else, for every *)
(* number of threads and every set of kinds.                               *)
(***************************************************************************)
THEOREM GateCorrect == CapSpec => []GateExact
<1>1. CapIInv /\ [CapNext]_capVars => CapIInv'
  <2> SUFFICES ASSUME CapIInv, [CapNext]_capVars PROVE CapIInv'
    OBVIOUS
  <2>0. {"main", "tr", "alloc", "ffi"} = Stores
    BY DEF Stores
  <2>1. ASSUME NEW t \in CapThreads, NEW k \in Kinds,
               oo_cap_grant(t, k) \/ oo_cap_grant_time(t, k) \/ oo_cap_grant_alloc(t, k) \/ oo_cap_grant_ffi(t, k)
        PROVE CapIInv'
    BY <2>1, CapGrantStep DEF oo_cap_grant, oo_cap_grant_time, oo_cap_grant_alloc, oo_cap_grant_ffi
  <2>2. ASSUME NEW t \in CapThreads, NEW k \in Kinds, NEW shown \in handed \cup {Zero, Forged}, oo_cap_require(t, k, shown)
        PROVE CapIInv'
    BY <2>2, CapRequireStep
  <2>3. ASSUME NEW t \in CapThreads, oo_cap_require_time(t) \/ oo_cap_require_alloc(t) \/ oo_cap_require_ffi(t)
        PROVE CapIInv'
    BY <2>0, <2>3, SmallGateStep DEF oo_cap_require_time, oo_cap_require_alloc, oo_cap_require_ffi
  <2>4. ASSUME NEW t \in CapThreads, dual_check(t) \/ oo_cap_check_with_ocap(t) \/ CapReturn(t) \/ CapExit(t)
        PROVE CapIInv'
    BY <2>4, DualCheckStep, BridgeStep, CapLeaveStep
  <2>5. ASSUME caps_zeroize \/ tr_zeroize \/ alloc_zeroize \/ ffi_zeroize PROVE CapIInv'
    BY <2>0, <2>5, ZeroizeStep DEF caps_zeroize, tr_zeroize, alloc_zeroize, ffi_zeroize
  <2>6. ASSUME UNCHANGED capVars PROVE CapIInv'
    BY <2>6 DEF capVars, CapIInv, CapStores, CapHanded, CapLocal, InGate
  <2> QED BY <2>1, <2>2, <2>3, <2>4, <2>5, <2>6 DEF CapNext
<1>2. CapIInv => GateExact
  BY DEF CapIInv, CapLocal, GateExact
<1> QED BY <1>1, <1>2, CapInitial, PTL DEF CapSpec
-----------------------------------------------------------------------------
(* Loaded libraries.                                                       *)

\* A thread in a call knows its library.
FfiTypeOK ==
  /\ slots \in [1 .. FfiSlots -> Libs \cup {NoLib}]
  /\ refs \in [Libs -> Int]
  /\ DOMAIN ffiPc = FfiThreads /\ DOMAIN ffiLib = FfiThreads
  /\ \A t \in FfiThreads : ffiPc[t] # "idle" => ffiLib[t] \in Libs

\* The invariant of the table of handles.
FfiIInv == FfiTypeOK /\ RegisteredLoaded

Claiming == {"register", "full", "close"}
One(b) == IF b THEN 1 ELSE 0
\* Only thread t moves, and its library changes only with it.
OnlyMoves(t) == \A u \in FfiThreads \ {t} : ffiPc'[u] = ffiPc[u] /\ ffiLib'[u] = ffiLib[u]

(* The sets that are counted are finite. *)
LEMMA FfiFinite ==
  ASSUME NEW l
  PROVE  /\ IsFiniteSet(SlotsOf(l)) /\ Cardinality(SlotsOf(l)) \in Nat
         /\ IsFiniteSet(Claims(l)) /\ Cardinality(Claims(l)) \in Nat
<1>1. IsFiniteSet(1 .. FfiSlots)
  BY FS_Interval, FfiAssumption
<1>2. SlotsOf(l) \in SUBSET (1 .. FfiSlots) /\ Claims(l) \in SUBSET FfiThreads
  BY DEF SlotsOf, Claims
<1>3. IsFiniteSet(SlotsOf(l)) /\ IsFiniteSet(Claims(l))
  BY <1>1, <1>2, FS_Subset, FfiAssumption
<1> QED BY <1>3, FS_CardinalityType

(* A thread that comes to claim its library is one claim more. *)
LEMMA ClaimGained ==
  ASSUME NEW t \in FfiThreads, OnlyMoves(t), ffiPc[t] \notin Claiming, ffiPc'[t] \in Claiming, NEW l
  PROVE  Cardinality(Claims(l)') = Cardinality(Claims(l)) + One(ffiLib'[t] = l)
<1>1. t \notin Claims(l)
  BY DEF Claims, Claiming
<1>2. Claims(l)' = IF ffiLib'[t] = l THEN Claims(l) \cup {t} ELSE Claims(l)
  BY DEF Claims, Claiming, OnlyMoves
<1>3. IsFiniteSet(Claims(l)) /\ Cardinality(Claims(l)) \in Nat
  BY FfiFinite
<1>4. Cardinality(Claims(l) \cup {t}) = Cardinality(Claims(l)) + 1
  BY <1>1, <1>3, FS_AddElement
<1> QED BY <1>2, <1>3, <1>4 DEF One

(* A thread that gives its claim up is one claim less. *)
LEMMA ClaimLost ==
  ASSUME NEW t \in FfiThreads, OnlyMoves(t), ffiPc[t] \in Claiming, ffiPc'[t] \notin Claiming, NEW l
  PROVE  Cardinality(Claims(l)') = Cardinality(Claims(l)) - One(ffiLib[t] = l)
<1>1. t \in Claims(l) <=> ffiLib[t] = l
  BY DEF Claims, Claiming
<1>2. Claims(l)' = Claims(l) \ {t}
  BY DEF Claims, Claiming, OnlyMoves
<1>3. IsFiniteSet(Claims(l)) /\ Cardinality(Claims(l)) \in Nat
  BY FfiFinite
<1>4. Cardinality(Claims(l) \ {t}) = IF t \in Claims(l) THEN Cardinality(Claims(l)) - 1 ELSE Cardinality(Claims(l))
  BY <1>3, FS_RemoveElement
<1> QED BY <1>1, <1>2, <1>3, <1>4 DEF One

(* Any other move of a thread changes no claim. *)
LEMMA ClaimKept ==
  ASSUME NEW t \in FfiThreads, OnlyMoves(t), NEW l,
         \/ ffiPc[t] \notin Claiming /\ ffiPc'[t] \notin Claiming
         \/ ffiPc[t] \in Claiming /\ ffiPc'[t] \in Claiming /\ ffiLib'[t] = ffiLib[t]
  PROVE  Claims(l)' = Claims(l)
BY DEF Claims, Claiming, OnlyMoves

(* The invariant holds at the start. *)
LEMMA FfiInitial == FfiInit => FfiIInv
<1> SUFFICES ASSUME FfiInit PROVE FfiIInv
  OBVIOUS
<1>1. FfiTypeOK
  BY FfiAssumption DEF FfiInit, FfiTypeOK
<1>2. \A l \in Libs : SlotsOf(l) = {} /\ Claims(l) = {} /\ refs[l] = 0
  BY FfiAssumption DEF FfiInit, SlotsOf, Claims
<1> QED BY <1>1, <1>2, FS_EmptySet DEF FfiIInv, RegisteredLoaded

(* A step that leaves the table and the claims alone and takes no reference. *)
LEMMA FfiQuiet ==
  ASSUME FfiIInv, slots' = slots, refs' = refs, NEW t \in FfiThreads, OnlyMoves(t),
         ffiPc'[t] \notin Claiming \/ (ffiPc[t] \in Claiming /\ ffiLib'[t] = ffiLib[t])
  PROVE  RegisteredLoaded'
<1> SUFFICES ASSUME NEW l \in Libs
             PROVE  Cardinality(SlotsOf(l)') <= 1
                    /\ refs'[l] >= Cardinality(SlotsOf(l)') + Cardinality(Claims(l)')
  BY DEF RegisteredLoaded
<1>1. SlotsOf(l)' = SlotsOf(l)
  BY DEF SlotsOf
<1>2. Claims(l)' \subseteq Claims(l)
  BY DEF Claims, Claiming, OnlyMoves
<1>3. Cardinality(Claims(l)') <= Cardinality(Claims(l)) /\ Cardinality(Claims(l)') \in Nat
  <2>1. Claims(l)' \in SUBSET Claims(l) /\ IsFiniteSet(Claims(l))
    BY <1>2, FfiFinite
  <2> QED BY <2>1, FS_Subset, FS_CardinalityType
<1> DEFINE a == Cardinality(SlotsOf(l))
           b == Cardinality(Claims(l))
           d == Cardinality(Claims(l)')
<1>4. a <= 1 /\ refs[l] >= a + b /\ a \in Nat /\ b \in Nat /\ d \in Nat /\ d <= b
  BY <1>3, FfiFinite DEF FfiIInv, RegisteredLoaded
<1>5. refs[l] \in Int /\ refs'[l] = refs[l] /\ Cardinality(SlotsOf(l)') = a
  BY <1>1 DEF FfiIInv, FfiTypeOK
<1> HIDE DEF a, b, d
<1>6. a <= 1 /\ refs[l] >= a + d
  BY <1>4, <1>5
<1> QED BY <1>5, <1>6 DEF d

(* dlopen has returned a handle: a reference and a claim more. *)
LEMMA FfiLoaded ==
  ASSUME FfiIInv, NEW t \in FfiThreads, At(t, "ctor", "register"), slots' = slots, ffiLib' = ffiLib,
         refs' = [refs EXCEPT ![ffiLib[t]] = @ + 1]
  PROVE  FfiIInv'
<1>1. FfiTypeOK'
  BY DEF FfiIInv, FfiTypeOK, At
<1>2. ffiPc[t] \notin Claiming /\ ffiPc'[t] \in Claiming /\ OnlyMoves(t) /\ ffiLib[t] \in Libs
  BY DEF FfiIInv, FfiTypeOK, At, OnlyMoves, Claiming
<1>3. ASSUME NEW l \in Libs
      PROVE  Cardinality(SlotsOf(l)') <= 1
             /\ refs'[l] >= Cardinality(SlotsOf(l)') + Cardinality(Claims(l)')
  <2>1. Cardinality(Claims(l)') = Cardinality(Claims(l)) + One(ffiLib'[t] = l)
    BY <1>2, ClaimGained
  <2>2. SlotsOf(l)' = SlotsOf(l)
    BY DEF SlotsOf
  <2>3. refs'[l] = refs[l] + One(ffiLib'[t] = l)
    BY DEF FfiIInv, FfiTypeOK, One
  <2>4. refs[l] \in Int /\ One(ffiLib'[t] = l) \in Nat
    BY DEF FfiIInv, FfiTypeOK, One
  <2>5. Cardinality(SlotsOf(l)) \in Nat /\ Cardinality(Claims(l)) \in Nat
    BY FfiFinite
  <2>6. Cardinality(SlotsOf(l)) <= 1 /\ refs[l] >= Cardinality(SlotsOf(l)) + Cardinality(Claims(l))
    BY DEF FfiIInv, RegisteredLoaded
  <2> QED BY <2>1, <2>2, <2>3, <2>4, <2>5, <2>6
<1> QED BY <1>1, <1>3 DEF FfiIInv, RegisteredLoaded

(* A reference is given back by a thread that claims the library. *)
LEMMA FfiGivenBack ==
  ASSUME FfiIInv, NEW t \in FfiThreads, NEW from \in {"full", "close"}, At(t, from, "idle"),
         slots' = slots, ffiLib' = ffiLib, refs' = [refs EXCEPT ![ffiLib[t]] = @ - 1]
  PROVE  FfiIInv'
<1>1. FfiTypeOK'
  BY DEF FfiIInv, FfiTypeOK, At
<1>2. ffiPc[t] \in Claiming /\ ffiPc'[t] \notin Claiming /\ OnlyMoves(t) /\ ffiLib[t] \in Libs
  BY DEF FfiIInv, FfiTypeOK, At, OnlyMoves, Claiming
<1>3. ASSUME NEW l \in Libs
      PROVE  Cardinality(SlotsOf(l)') <= 1
             /\ refs'[l] >= Cardinality(SlotsOf(l)') + Cardinality(Claims(l)')
  <2>1. Cardinality(Claims(l)') = Cardinality(Claims(l)) - One(ffiLib[t] = l)
    BY <1>2, ClaimLost
  <2>2. SlotsOf(l)' = SlotsOf(l)
    BY DEF SlotsOf
  <2>3. refs'[l] = refs[l] - One(ffiLib[t] = l)
    BY DEF FfiIInv, FfiTypeOK, One
  <2>4. refs[l] \in Int /\ One(ffiLib[t] = l) \in Nat
    BY DEF FfiIInv, FfiTypeOK, One
  <2>5. Cardinality(SlotsOf(l)) \in Nat /\ Cardinality(Claims(l)) \in Nat
    BY FfiFinite
  <2>6. Cardinality(SlotsOf(l)) <= 1 /\ refs[l] >= Cardinality(SlotsOf(l)) + Cardinality(Claims(l))
    BY DEF FfiIInv, RegisteredLoaded
  <2> QED BY <2>1, <2>2, <2>3, <2>4, <2>5, <2>6
<1> QED BY <1>1, <1>3 DEF FfiIInv, RegisteredLoaded

(* The claim of an open becomes a registered handle. *)
LEMMA FfiRegistered ==
  ASSUME FfiIInv, NEW t \in FfiThreads, At(t, "register", "idle"), SlotsOf(ffiLib[t]) = {},
         NEW i \in SlotsOf(NoLib), slots' = [slots EXCEPT ![i] = ffiLib[t]],
         refs' = refs, ffiLib' = ffiLib
  PROVE  FfiIInv'
<1>1. ffiPc[t] \in Claiming /\ ffiPc'[t] \notin Claiming /\ OnlyMoves(t) /\ ffiLib[t] \in Libs
      /\ i \in 1 .. FfiSlots /\ slots[i] = NoLib
  BY DEF FfiIInv, FfiTypeOK, At, OnlyMoves, Claiming, SlotsOf
<1>2. FfiTypeOK'
  BY <1>1 DEF FfiIInv, FfiTypeOK, At
<1>3. ASSUME NEW l \in Libs
      PROVE  Cardinality(SlotsOf(l)') <= 1
             /\ refs'[l] >= Cardinality(SlotsOf(l)') + Cardinality(Claims(l)')
  <2>1. Cardinality(Claims(l)') = Cardinality(Claims(l)) - One(ffiLib[t] = l)
    BY <1>1, ClaimLost
  <2>2. SlotsOf(l)' = IF ffiLib[t] = l THEN {i} ELSE SlotsOf(l)
    BY <1>1, FfiAssumption DEF SlotsOf, FfiIInv, FfiTypeOK
  <2>3. Cardinality({i}) = 1 /\ Cardinality({}) = 0
    BY FS_Singleton, FS_EmptySet
  <2>4. refs[l] \in Int
    BY DEF FfiIInv, FfiTypeOK
  <2>5. Cardinality(SlotsOf(l)) \in Nat /\ Cardinality(Claims(l)) \in Nat
    BY FfiFinite
  <2>6. Cardinality(SlotsOf(l)) <= 1 /\ refs[l] >= Cardinality(SlotsOf(l)) + Cardinality(Claims(l))
    BY DEF FfiIInv, RegisteredLoaded
  <2>7. CASE ffiLib[t] = l
    <3>1. SlotsOf(l) = {} /\ SlotsOf(l)' = {i} /\ One(ffiLib[t] = l) = 1
      BY <2>2, <2>7 DEF One
    <3> QED BY <2>1, <2>3, <2>4, <2>5, <2>6, <3>1
  <2>8. CASE ffiLib[t] # l
    <3>1. SlotsOf(l)' = SlotsOf(l) /\ One(ffiLib[t] = l) = 0
      BY <2>2, <2>8 DEF One
    <3> QED BY <2>1, <2>4, <2>5, <2>6, <3>1
  <2> QED BY <2>7, <2>8
<1> QED BY <1>2, <1>3 DEF FfiIInv, RegisteredLoaded

(* The registered handle becomes the claim of a close. *)
LEMMA FfiTaken ==
  ASSUME FfiIInv, NEW t \in FfiThreads, NEW m \in Libs, ffi_handle_take(t, m)
  PROVE  FfiIInv'
<1>1. ffiPc[t] \notin Claiming /\ ffiPc'[t] \in Claiming /\ OnlyMoves(t) /\ ffiLib'[t] = m
  BY DEF FfiIInv, FfiTypeOK, At, OnlyMoves, Claiming, ffi_handle_take
<1>2. FfiTypeOK'
  BY DEF FfiIInv, FfiTypeOK, At, ffi_handle_take
<1>3. ASSUME NEW l \in Libs
      PROVE  Cardinality(SlotsOf(l)') <= 1
             /\ refs'[l] >= Cardinality(SlotsOf(l)') + Cardinality(Claims(l)')
  <2>1. Cardinality(Claims(l)') = Cardinality(Claims(l)) + One(ffiLib'[t] = l)
    BY <1>1, ClaimGained
  <2>2. SlotsOf(l)' = IF m = l THEN {} ELSE SlotsOf(l)
    BY FfiAssumption DEF SlotsOf, FfiIInv, FfiTypeOK, ffi_handle_take
  <2>3. refs'[l] = refs[l] /\ refs[l] \in Int
    BY DEF FfiIInv, FfiTypeOK, ffi_handle_take
  <2>4. Cardinality({}) = 0 /\ IsFiniteSet(SlotsOf(l))
    BY FS_EmptySet, FfiFinite
  <2>5. Cardinality(SlotsOf(l)) \in Nat /\ Cardinality(Claims(l)) \in Nat
    BY FfiFinite
  <2>6. Cardinality(SlotsOf(l)) <= 1 /\ refs[l] >= Cardinality(SlotsOf(l)) + Cardinality(Claims(l))
    BY DEF FfiIInv, RegisteredLoaded
  <2>7. CASE m = l
    <3>1. SlotsOf(l) # {} /\ SlotsOf(l)' = {} /\ One(ffiLib'[t] = l) = 1
      BY <1>1, <2>2, <2>7 DEF One, ffi_handle_take
    <3>2. Cardinality(SlotsOf(l)) # 0
      BY <2>4, <3>1, FS_EmptySet
    <3> QED BY <2>1, <2>3, <2>4, <2>5, <2>6, <3>1, <3>2
  <2>8. CASE m # l
    <3>1. SlotsOf(l)' = SlotsOf(l) /\ One(ffiLib'[t] = l) = 0
      BY <1>1, <2>2, <2>8 DEF One
    <3> QED BY <2>1, <2>3, <2>5, <2>6, <3>1
  <2> QED BY <2>7, <2>8
<1> QED BY <1>2, <1>3 DEF FfiIInv, RegisteredLoaded

(* Every step of a thread keeps the invariant. *)
LEMMA FfiStep ==
  ASSUME FfiIInv, NEW t \in FfiThreads,
         \/ \E l \in Libs : oo_dlopen(t, l) \/ ffi_handle_take(t, l) \/ ffi_handle_lookup(t, l)
         \/ DlopenEnter(t) \/ DlopenLeave(t) \/ ffi_handle_register(t)
         \/ FfiFull(t) \/ oo_dlclose(t) \/ oo_dlsym(t)
  PROVE  FfiIInv'
<1>1. ASSUME NEW from, NEW to, At(t, from, to), ffiLib' = ffiLib, from # "idle", slots' = slots, refs' = refs,
             to \notin Claiming \/ from \in Claiming
      PROVE  FfiIInv'
  <2>1. FfiTypeOK'
    BY <1>1 DEF FfiIInv, FfiTypeOK, At
  <2>2. OnlyMoves(t) /\ ffiPc[t] = from /\ ffiPc'[t] = to
    BY <1>1 DEF FfiIInv, FfiTypeOK, At, OnlyMoves
  <2>3. RegisteredLoaded'
    BY <1>1, <2>2, FfiQuiet
  <2> QED BY <2>1, <2>3 DEF FfiIInv
<1>2. ASSUME NEW l \in Libs, NEW to \in {"load", "sym"}, At(t, "idle", to),
             ffiLib' = [ffiLib EXCEPT ![t] = l], slots' = slots, refs' = refs
      PROVE  FfiIInv'
  <2>1. FfiTypeOK'
    BY <1>2 DEF FfiIInv, FfiTypeOK, At
  <2>2. OnlyMoves(t) /\ ffiPc'[t] \notin Claiming
    BY <1>2 DEF FfiIInv, FfiTypeOK, At, OnlyMoves, Claiming
  <2>3. RegisteredLoaded'
    BY <1>2, <2>2, FfiQuiet
  <2> QED BY <2>1, <2>3 DEF FfiIInv
<1> USE DEF Claiming
<1>3. ASSUME NEW l \in Libs, oo_dlopen(t, l) PROVE FfiIInv'
  BY <1>2, <1>3 DEF oo_dlopen
<1>4. ASSUME NEW l \in Libs, ffi_handle_lookup(t, l) PROVE FfiIInv'
  BY <1>2, <1>4 DEF ffi_handle_lookup
<1>5. CASE DlopenEnter(t)
  BY <1>1, <1>5 DEF DlopenEnter
<1>6. CASE DlopenLeave(t)
  BY <1>1, <1>6, FfiLoaded DEF DlopenLeave
<1>7. CASE ffi_handle_register(t)
  <2>1. CASE At(t, "register", "idle") /\ slots' = slots
    BY <1>1, <1>7, <2>1 DEF ffi_handle_register
  <2>2. CASE At(t, "register", "full") /\ slots' = slots
    BY <1>1, <1>7, <2>2 DEF ffi_handle_register
  <2>3. ASSUME SlotsOf(ffiLib[t]) = {}, At(t, "register", "idle"),
               NEW i \in SlotsOf(NoLib), slots' = [slots EXCEPT ![i] = ffiLib[t]]
        PROVE  FfiIInv'
    BY <1>7, <2>3, FfiRegistered DEF ffi_handle_register
  <2> QED BY <1>7, <2>1, <2>2, <2>3 DEF ffi_handle_register
<1>8. CASE FfiFull(t)
  BY <1>8, FfiGivenBack DEF FfiFull
<1>9. CASE oo_dlclose(t)
  BY <1>1, <1>9, FfiGivenBack DEF oo_dlclose
<1>10. CASE oo_dlsym(t)
  BY <1>1, <1>10 DEF oo_dlsym
<1> QED BY <1>3, <1>4, <1>5, <1>6, <1>7, <1>8, <1>9, <1>10, FfiTaken

(***************************************************************************)
(* Every registered handle and every claim of a thread has a reference of  *)
(* the loader behind it, for every number of threads, libraries and slots. *)
(***************************************************************************)
THEOREM RegisteredCorrect == FfiSpec => []RegisteredLoaded
<1>1. FfiIInv /\ [FfiNext]_ffiVars => FfiIInv'
  <2> SUFFICES ASSUME FfiIInv, [FfiNext]_ffiVars PROVE FfiIInv'
    OBVIOUS
  <2>1. CASE FfiNext
    BY <2>1, FfiStep DEF FfiNext
  <2>2. CASE UNCHANGED ffiVars
    BY <2>2 DEF ffiVars, FfiIInv, FfiTypeOK, RegisteredLoaded, SlotsOf, Claims
  <2> QED BY <2>1, <2>2
<1>2. FfiIInv => RegisteredLoaded
  BY DEF FfiIInv
<1> QED BY <1>1, <1>2, FfiInitial, PTL DEF FfiSpec
-----------------------------------------------------------------------------
(* Interned texts.                                                         *)

Stored == Shorts \cup Longs \cup {OKText, Wiped}
Holding == {"search", "vsearch", "build", "vbuild"}
Building == {"build", "vbuild"}

\* The slabs and the table hold texts; a thread wants one that can be told from a wiped entry.
StrTypeOK ==
  /\ slab \in [StrThreads -> Seq(Stored)] /\ interned \in Seq(Stored)
  /\ DOMAIN strPc = StrThreads
  /\ strWant \in [StrThreads -> Stored \ {Wiped}]

\* A thread past the lock holds it, and the text it is about to publish is not in the table.
StrLocal(t) ==
  /\ strPc[t] \in Holding => internMu = t
  /\ strPc[t] \in Building => \A i \in DOMAIN interned : interned[i] # strWant[t]

SlabUnique(t) ==
  \A i, j \in DOMAIN slab[t] : slab[t][i] = slab[t][j] /\ slab[t][i] # Wiped => i = j
TableUnique ==
  \A i, j \in DOMAIN interned : interned[i] = interned[j] /\ interned[i] # Wiped => i = j

\* The invariant of the interning pool.
StrIInv == /\ StrTypeOK /\ TableUnique
           /\ \A t \in StrThreads : StrLocal(t) /\ SlabUnique(t)

\* Thread t moves, no other one does.
StrMoves(t) == \A u \in StrThreads \ {t} : strPc'[u] = strPc[u] /\ strWant'[u] = strWant[u]
\* The table keeps its entries, some of them wiped.
OnlyWiped == /\ interned' \in Seq(Stored) /\ Len(interned') = Len(interned)
             /\ \A i \in 1 .. Len(interned) : interned'[i] \in {interned[i], Wiped}

(* A new entry at the end that is not there yet keeps the entries distinct. *)
LEMMA AppendUnique ==
  ASSUME NEW s \in Seq(Stored), NEW x \in Stored, \A i \in DOMAIN s : s[i] # x,
         \A i, j \in DOMAIN s : s[i] = s[j] /\ s[i] # Wiped => i = j
  PROVE  /\ Append(s, x) \in Seq(Stored)
         /\ \A i, j \in DOMAIN Append(s, x) : Append(s, x)[i] = Append(s, x)[j] /\ Append(s, x)[i] # Wiped => i = j
<1> DEFINE r == Append(s, x)
<1>1. r \in Seq(Stored) /\ Len(r) = Len(s) + 1 /\ Len(s) \in Nat
  BY AppendProperties, LenProperties
<1>2. DOMAIN s = 1 .. Len(s) /\ DOMAIN r = 1 .. Len(s) + 1
  BY <1>1, LenProperties
<1>3. r[Len(s) + 1] = x /\ \A i \in 1 .. Len(s) : r[i] = s[i]
  BY AppendProperties
<1> HIDE DEF r
<1>4. \A i, j \in 1 .. Len(s) + 1 : r[i] = r[j] /\ r[i] # Wiped => i = j
  BY <1>1, <1>2, <1>3
<1> QED BY <1>1, <1>2, <1>4 DEF r

(* Wiping an entry keeps the others distinct. *)
LEMMA WipeUnique ==
  ASSUME NEW s \in Seq(Stored), NEW n,
         \A i, j \in DOMAIN s : s[i] = s[j] /\ s[i] # Wiped => i = j
  PROVE  LET r == [s EXCEPT ![n] = Wiped]
         IN /\ r \in Seq(Stored) /\ Len(r) = Len(s)
            /\ \A i \in 1 .. Len(s) : r[i] \in {s[i], Wiped}
            /\ \A i, j \in DOMAIN r : r[i] = r[j] /\ r[i] # Wiped => i = j
<1> DEFINE r == [s EXCEPT ![n] = Wiped]
<1>1. Len(s) \in Nat /\ DOMAIN s = 1 .. Len(s) /\ \A i \in 1 .. Len(s) : s[i] \in Stored
  BY LenProperties, ElementOfSeq
<1>2. DOMAIN r = 1 .. Len(s) /\ \A i \in 1 .. Len(s) : r[i] = IF i = n THEN Wiped ELSE s[i]
  BY <1>1
<1>3. Wiped \in Stored
  BY DEF Stored
<1>4. r \in [1 .. Len(s) -> Stored]
  BY <1>1, <1>3
<1>5. r \in Seq(Stored) /\ Len(r) = Len(s)
  BY <1>1, <1>2, <1>4, SeqDef, LenProperties
<1> HIDE DEF r
<1>6. \A i, j \in DOMAIN r : r[i] = r[j] /\ r[i] # Wiped => i = j
  BY <1>1, <1>2
<1>7. \A i \in 1 .. Len(s) : r[i] \in {s[i], Wiped}
  BY <1>2
<1> QED BY <1>5, <1>6, <1>7 DEF r

(* Another thread keeps what it knows when the lock it holds stays with it. *)
LEMMA StrOthers ==
  ASSUME NEW t \in StrThreads, NEW u \in StrThreads \ {t}, StrTypeOK, StrLocal(u), StrMoves(t),
         internMu = u => internMu' = u, internMu = u => OnlyWiped
  PROVE  StrLocal(u)'
<1>1. strPc'[u] = strPc[u] /\ strWant'[u] = strWant[u]
  BY DEF StrMoves
<1>2. strPc'[u] \in Holding => internMu = u /\ internMu' = u
  BY <1>1 DEF StrLocal
<1>3. ASSUME strPc'[u] \in Building, NEW i \in DOMAIN interned' PROVE interned'[i] # strWant'[u]
  <2>1. strPc[u] \in Building /\ internMu = u
    BY <1>1, <1>2, <1>3 DEF Building, Holding
  <2>2. OnlyWiped
    BY <2>1
  <2>3. i \in 1 .. Len(interned) /\ i \in DOMAIN interned
    BY <1>3, <2>2, LenProperties DEF OnlyWiped, StrTypeOK
  <2>4. interned[i] # strWant[u] /\ Wiped # strWant[u]
    BY <2>1, <2>3 DEF StrLocal, StrTypeOK
  <2> QED BY <1>1, <2>2, <2>3, <2>4 DEF OnlyWiped
<1> QED BY <1>2, <1>3 DEF StrLocal

(* The table as it is counts as kept. *)
LEMMA TableKept ==
  ASSUME StrTypeOK, interned' = interned
  PROVE  OnlyWiped
BY DEF StrTypeOK, OnlyWiped

(* The invariant holds at the start. *)
LEMMA StrInitial == StrInit => StrIInv
<1> SUFFICES ASSUME StrInit PROVE StrIInv
  OBVIOUS
<1>1. <<>> \in Seq(Stored) /\ DOMAIN <<>> = {}
  BY EmptySeq, LenProperties
<1>2. StrTypeOK
  BY <1>1, StrAssumption DEF StrInit, StrTypeOK, Stored
<1> QED BY <1>1, <1>2 DEF StrInit, StrIInv, StrLocal, SlabUnique, TableUnique, Holding, Building

(* Up to the table: static storage, the thread's slab, or the start of a walk. *)
LEMMA InternStep ==
  ASSUME StrIInv, NEW t \in StrThreads, NEW x, NEW next \in {"idle", "check"}, NEW walk \in {"walk", "vwalk"},
         oo_str_intern_bytes(t, x, next, walk)
  PROVE  StrIInv'
<1> USE DEF StrIInv
<1>1. interned' = interned /\ internMu' = internMu
  BY DEF oo_str_intern_bytes
<1>2. DOMAIN strPc' = StrThreads /\ strPc'[t] \in {next, walk} /\ StrMoves(t) /\ strWant' \in [StrThreads -> Stored \ {Wiped}]
  BY StrAssumption DEF oo_str_intern_bytes, oo_str_ascii_intern, SlabIntern, TableIntern, Go, StrTypeOK, StrMoves, Stored
<1>3. slab' \in [StrThreads -> Seq(Stored)] /\ \A u \in StrThreads : SlabUnique(u)'
  <2>1. CASE slab' = slab
    BY <2>1 DEF StrTypeOK, SlabUnique
  <2>2. CASE SlabIntern(t, x, next) /\ slab' # slab
    <3>1. x \in Stored /\ ~ SlabHas(t, x) /\ x \in Shorts /\ slab' = [slab EXCEPT ![t] = Append(@, x)]
      BY <2>2 DEF SlabIntern, SlabTakes, Stored
    <3>2. slab[t] \in Seq(Stored) /\ \A i \in DOMAIN slab[t] : slab[t][i] # x
      BY <3>1 DEF SlabHas, Positions, StrTypeOK
    <3>3. \A i, j \in DOMAIN slab[t] : slab[t][i] = slab[t][j] /\ slab[t][i] # Wiped => i = j
      BY DEF SlabUnique
    <3> DEFINE r == Append(slab[t], x)
    <3>4. r \in Seq(Stored) /\ \A i, j \in DOMAIN r : r[i] = r[j] /\ r[i] # Wiped => i = j
      BY <3>1, <3>2, <3>3, AppendUnique
    <3>5. slab'[t] = r /\ \A u \in StrThreads \ {t} : slab'[u] = slab[u]
      BY <3>1 DEF StrTypeOK
    <3> HIDE DEF r
    <3>6. slab' \in [StrThreads -> Seq(Stored)]
      BY <3>1, <3>4, <3>5 DEF StrTypeOK
    <3>7. SlabUnique(t)'
      BY <3>4, <3>5 DEF SlabUnique
    <3>8. \A u \in StrThreads \ {t} : SlabUnique(u)'
      BY <3>5 DEF SlabUnique
    <3> QED BY <3>6, <3>7, <3>8
  <2>3. slab' = slab \/ SlabIntern(t, x, next)
    BY DEF oo_str_intern_bytes, oo_str_ascii_intern, TableIntern
  <2> QED BY <2>1, <2>2, <2>3
<1>4. StrTypeOK' /\ TableUnique'
  BY <1>1, <1>2, <1>3 DEF StrTypeOK, TableUnique
<1>5. StrLocal(t)'
  BY <1>2 DEF StrLocal, Holding, Building
<1>6. ASSUME NEW u \in StrThreads \ {t} PROVE StrLocal(u)'
  BY <1>1, <1>2, TableKept, StrOthers
<1> QED BY <1>3, <1>4, <1>5, <1>6

(* A step of t that leaves slabs and table alone, and the lock with whoever else holds it. *)
LEMMA StrQuiet ==
  ASSUME StrIInv, NEW t \in StrThreads, slab' = slab, interned' = interned, StrMoves(t),
         DOMAIN strPc' = StrThreads, strWant' \in [StrThreads -> Stored \ {Wiped}],
         internMu' = internMu \/ internMu \in {t, NoThread}, StrLocal(t)'
  PROVE  StrIInv'
<1> USE DEF StrIInv
<1>1. StrTypeOK' /\ TableUnique' /\ \A u \in StrThreads : SlabUnique(u)'
  BY DEF StrTypeOK, TableUnique, SlabUnique
<1>2. ASSUME NEW u \in StrThreads \ {t} PROVE StrLocal(u)'
  <2>1. internMu = u => internMu' = u
    BY StrAssumption
  <2> QED BY <2>1, TableKept, StrOthers
<1> QED BY <1>1, <1>2

(* A text is found: the thread is back in its caller. *)
LEMMA FoundMoves ==
  ASSUME StrTypeOK, NEW t \in StrThreads, NEW i, Found(t, i)
  PROVE  /\ DOMAIN strPc' = StrThreads /\ StrMoves(t) /\ strWant' \in [StrThreads -> Stored \ {Wiped}]
         /\ strPc'[t] \in {"idle", "check"}
BY StrAssumption DEF Found, Go, StrTypeOK, StrMoves, Stored

(* The search without the lock. *)
LEMMA WalkStep ==
  ASSUME StrIInv, NEW t \in StrThreads, WalkNode(t)
  PROVE  StrIInv'
<1>1. StrTypeOK /\ slab' = slab /\ interned' = interned /\ internMu' = internMu
  BY DEF StrIInv, WalkNode
<1>2. /\ DOMAIN strPc' = StrThreads /\ StrMoves(t) /\ strWant' \in [StrThreads -> Stored \ {Wiped}]
      /\ strPc'[t] \in {"idle", "check", "walk", "vwalk", "lock", "vlock"}
  <2>1. CASE Found(t, strAt[t])
    BY <1>1, <2>1, FoundMoves
  <2>2. CASE strWant' = strWant /\ (strPc' = strPc \/ Then(t, "lock"))
    <3>1. strPc[t] \in {"walk", "vwalk"}
      BY DEF WalkNode, Phase, Verifying
    <3> QED BY <1>1, <2>2, <3>1 DEF Then, Go, Verifying, StrTypeOK, StrMoves
  <2> QED BY <2>1, <2>2 DEF WalkNode
<1>3. StrLocal(t)'
  BY <1>2 DEF StrLocal, Holding, Building
<1> QED BY <1>1, <1>2, <1>3, StrQuiet

(* The lock is taken. *)
LEMMA LockStep ==
  ASSUME StrIInv, NEW t \in StrThreads, InternLock(t)
  PROVE  StrIInv'
<1>1. /\ StrTypeOK /\ slab' = slab /\ interned' = interned /\ internMu' = t /\ internMu = NoThread
      /\ strWant' = strWant
  BY DEF StrIInv, InternLock
<1>2. DOMAIN strPc' = StrThreads /\ StrMoves(t) /\ strPc'[t] \in {"search", "vsearch"}
  BY <1>1 DEF InternLock, Then, Go, Verifying, StrTypeOK, StrMoves
<1>3. StrLocal(t)'
  BY <1>1, <1>2 DEF StrLocal, Holding, Building
<1> QED BY <1>1, <1>2, <1>3, StrQuiet DEF StrTypeOK

(* The search under the lock: found, or known to be absent. *)
LEMMA SearchStep ==
  ASSUME StrIInv, NEW t \in StrThreads, SearchAgain(t)
  PROVE  StrIInv'
<1>1. StrTypeOK /\ slab' = slab /\ interned' = interned
  BY DEF StrIInv, SearchAgain
<1>2. internMu = t
  BY DEF StrIInv, StrLocal, SearchAgain, Phase, Verifying, Holding
<1>3. ASSUME NEW i, Found(t, i) PROVE StrIInv'
  <2>1. /\ DOMAIN strPc' = StrThreads /\ StrMoves(t) /\ strWant' \in [StrThreads -> Stored \ {Wiped}]
        /\ strPc'[t] \in {"idle", "check"}
    BY <1>1, <1>3, FoundMoves
  <2>2. StrLocal(t)'
    BY <2>1 DEF StrLocal, Holding, Building
  <2> QED BY <1>1, <1>2, <2>1, <2>2, StrQuiet
<1>4. CASE Positions(interned, strWant[t]) = {} /\ Then(t, "build") /\ internMu' = internMu /\ strWant' = strWant
  <2>1. DOMAIN strPc' = StrThreads /\ StrMoves(t)
    BY <1>1, <1>4 DEF Then, Go, StrTypeOK, StrMoves
  <2>2. StrLocal(t)'
    BY <1>1, <1>2, <1>4 DEF StrLocal, Positions
  <2> QED BY <1>1, <1>4, <2>1, <2>2, StrQuiet DEF StrTypeOK
<1> QED BY <1>3, <1>4 DEF SearchAgain

(* The new node. *)
LEMMA PublishStep ==
  ASSUME StrIInv, NEW t \in StrThreads, Publish(t)
  PROVE  StrIInv'
<1>1. StrTypeOK /\ slab' = slab /\ interned' = Append(interned, strWant[t])
  BY DEF StrIInv, Publish
<1>2. internMu = t /\ \A i \in DOMAIN interned : interned[i] # strWant[t]
  BY DEF StrIInv, StrLocal, Publish, Phase, Verifying, Holding, Building
<1>3. /\ DOMAIN strPc' = StrThreads /\ StrMoves(t) /\ strWant' \in [StrThreads -> Stored \ {Wiped}]
      /\ strPc'[t] \in {"idle", "check"}
  BY <1>1, FoundMoves DEF Publish
<1>4. interned \in Seq(Stored) /\ strWant[t] \in Stored
  BY <1>1 DEF StrTypeOK
<1>5. interned' \in Seq(Stored) /\ TableUnique'
  BY <1>1, <1>2, <1>4, AppendUnique DEF TableUnique, StrIInv
<1>6. StrTypeOK' /\ \A u \in StrThreads : SlabUnique(u)'
  BY <1>1, <1>3, <1>5 DEF StrIInv, StrTypeOK, SlabUnique
<1>7. StrLocal(t)'
  BY <1>3 DEF StrLocal, Holding, Building
<1>8. ASSUME NEW u \in StrThreads \ {t} PROVE StrLocal(u)'
  BY <1>2, <1>3, StrOthers DEF StrIInv
<1> QED BY <1>5, <1>6, <1>7, <1>8 DEF StrIInv

(* The verification reads its answer, and wipes it. *)
LEMMA WipeStep ==
  ASSUME StrIInv, NEW t \in StrThreads, WipeAnswer(t)
  PROVE  StrIInv'
<1> DEFINE g == strGot[t]
<1>1. StrTypeOK /\ strWant' = strWant /\ internMu' = internMu
  BY DEF StrIInv, WipeAnswer
<1>2. DOMAIN strPc' = StrThreads /\ StrMoves(t) /\ strPc'[t] = "idle"
  BY <1>1 DEF WipeAnswer, Go, StrTypeOK, StrMoves
<1>3. OnlyWiped /\ TableUnique'
  <2>1. CASE interned' = interned
    BY <1>1, <2>1, TableKept DEF StrIInv, TableUnique
  <2>2. CASE interned' = [interned EXCEPT ![g.at] = Wiped]
    <3>1. interned \in Seq(Stored) /\ \A i, j \in DOMAIN interned : interned[i] = interned[j] /\ interned[i] # Wiped => i = j
      BY <1>1 DEF StrTypeOK, StrIInv, TableUnique
    <3> HIDE DEF g
    <3> QED BY <2>2, <3>1, WipeUnique DEF OnlyWiped, TableUnique
  <2> QED BY <2>1, <2>2 DEF WipeAnswer
<1>4. slab' \in [StrThreads -> Seq(Stored)] /\ \A u \in StrThreads : SlabUnique(u)'
  <2>1. CASE slab' = slab
    BY <1>1, <2>1 DEF StrIInv, StrTypeOK, SlabUnique
  <2>2. CASE slab' = [slab EXCEPT ![t][g.at] = Wiped]
    <3> DEFINE r == [slab[t] EXCEPT ![g.at] = Wiped]
    <3>1. slab[t] \in Seq(Stored) /\ \A i, j \in DOMAIN slab[t] : slab[t][i] = slab[t][j] /\ slab[t][i] # Wiped => i = j
      BY <1>1 DEF StrTypeOK, StrIInv, SlabUnique
    <3>2. slab' = [slab EXCEPT ![t] = r]
      BY <2>2
    <3> HIDE DEF g
    <3>3. r \in Seq(Stored) /\ \A i, j \in DOMAIN r : r[i] = r[j] /\ r[i] # Wiped => i = j
      BY <3>1, WipeUnique
    <3> HIDE DEF r
    <3>4. slab'[t] = r /\ \A u \in StrThreads \ {t} : slab'[u] = slab[u]
      BY <1>1, <3>2 DEF StrTypeOK
    <3>5. slab' \in [StrThreads -> Seq(Stored)]
      BY <1>1, <3>2, <3>3 DEF StrTypeOK
    <3>6. SlabUnique(t)'
      BY <3>3, <3>4 DEF SlabUnique
    <3>7. \A u \in StrThreads \ {t} : SlabUnique(u)'
      BY <3>4 DEF SlabUnique, StrIInv
    <3> QED BY <3>5, <3>6, <3>7
  <2> QED BY <2>1, <2>2 DEF WipeAnswer
<1>5. StrTypeOK'
  BY <1>1, <1>2, <1>3, <1>4 DEF StrTypeOK, OnlyWiped
<1>6. StrLocal(t)'
  BY <1>2 DEF StrLocal, Holding, Building
<1>7. ASSUME NEW u \in StrThreads \ {t} PROVE StrLocal(u)'
  BY <1>1, <1>2, <1>3, StrOthers DEF StrIInv
<1> QED BY <1>3, <1>4, <1>5, <1>6, <1>7 DEF StrIInv

(* The calls that reach the pool, and those that do not. *)
LEMMA StrCallStep ==
  ASSUME StrIInv, NEW t \in StrThreads,
         oo_str_lit(t) \/ oo_byte_slice(t) \/ PqVerify(t) \/ crypto_pq_hmac_self_test(t) \/ ReadAnswer(t)
  PROVE  StrIInv'
<1>1. ASSUME NEW x, NEW next \in {"idle", "check"}, NEW walk \in {"walk", "vwalk"},
             oo_str_intern_bytes(t, x, next, walk)
      PROVE  StrIInv'
  BY <1>1, InternStep
<1>2. ASSUME slab' = slab, interned' = interned, internMu' = internMu, strWant' = strWant,
             NEW to \in {"check", "wipe"}, Go(t, to) \/ strPc' = strPc
      PROVE  StrIInv'
  <2>1. StrTypeOK
    BY DEF StrIInv
  <2>2. DOMAIN strPc' = StrThreads /\ StrMoves(t) /\ (strPc'[t] = to \/ strPc'[t] = strPc[t])
    BY <1>2, <2>1 DEF Go, StrTypeOK, StrMoves
  <2>3. StrLocal(t)'
    BY <1>2, <2>2 DEF StrIInv, StrLocal, Holding, Building
  <2> QED BY <1>2, <2>1, <2>2, <2>3, StrQuiet DEF StrTypeOK
<1>3. ASSUME NEW genuine, crypto_mldsa65_verify_internal(t, genuine) PROVE StrIInv'
  BY <1>1, <1>2, <1>3 DEF crypto_mldsa65_verify_internal
<1>4. CASE oo_str_lit(t)
  BY <1>1, <1>4 DEF oo_str_lit
<1>5. CASE oo_byte_slice(t)
  BY <1>1, <1>2, <1>5 DEF oo_byte_slice
<1>6. CASE PqVerify(t)
  BY <1>2, <1>3, <1>6 DEF PqVerify, strVars
<1>7. CASE crypto_pq_hmac_self_test(t)
  BY <1>3, <1>7 DEF crypto_pq_hmac_self_test
<1>8. CASE ReadAnswer(t)
  BY <1>2, <1>8 DEF ReadAnswer
<1> QED BY <1>4, <1>5, <1>6, <1>7, <1>8

(***************************************************************************)
(* Interning keeps one storage per text, for every number of threads and   *)
(* every set of texts: the search under the lock sees what the one without *)
(* it missed, and wiping an entry makes no second one.                     *)
(***************************************************************************)
THEOREM InternCorrect == StrSpec => []InternUnique
<1>1. StrIInv /\ [StrNext]_strVars => StrIInv'
  <2> SUFFICES ASSUME StrIInv, [StrNext]_strVars PROVE StrIInv'
    OBVIOUS
  <2>1. CASE StrNext
    BY <2>1, StrCallStep, WalkStep, LockStep, SearchStep, PublishStep, WipeStep DEF StrNext
  <2>2. CASE UNCHANGED strVars
    BY <2>2 DEF strVars, StrIInv, StrTypeOK, StrLocal, TableUnique, SlabUnique
  <2> QED BY <2>1, <2>2
<1>2. StrIInv => InternUnique
  BY DEF StrIInv, InternUnique, SlabUnique, TableUnique
<1> QED BY <1>1, <1>2, StrInitial, PTL DEF StrSpec
-----------------------------------------------------------------------------
(* Sealed boxes, MACs and messages.                                        *)

\* What every seal, ciphertext, MAC and message that was made consists of.
BoxMade(m) ==
  LET b == m.box IN
  /\ m.aead \in AeadKeys
  /\ b = [pk |-> b.pk, nonce |-> b.nonce, ct |-> b.ct, tag |-> b.tag, sig |-> b.sig]
  /\ b.pk = m.cap
  /\ "key" \in DOMAIN b.ct
  /\ b.ct.alg = "gcm" /\ b.ct.key = m.aead /\ b.ct.nonce = b.nonce /\ b.ct.p = m.p
  /\ b.tag = Tag("gcm", m.aead, b.nonce, m.cap, b.ct)
  /\ b.sig = Signed(m.cap, SignedParts(m.cap, b.nonce, b.ct, b.tag))
PairMade(m) ==
  /\ m.key \in AeadKeys
  /\ "key" \in DOMAIN m.ct
  /\ m.ct.alg = m.alg /\ m.ct.key = m.key /\ m.ct.nonce = m.nonce /\ m.ct.p = m.p
  /\ m.tag = Tag(m.alg, m.key, m.nonce, m.aad, m.ct)
MacMade(m) == m.sig = Signed(m.pk, aead_load(m.msg)) /\ SignFits(m.msg) /\ m.msg \in SealTexts
RpcMade(m) == m = [mac |-> oo_rpc_mac(m.p), p |-> m.p]

SealMade ==
  /\ \A m \in boxes : BoxMade(m)
  /\ \A m \in pairs : PairMade(m)
  /\ \A m \in macs : MacMade(m)
  /\ \A m \in rpcs : RpcMade(m)

\* What the running seal has computed, and the keys it has in memory.
Running == {"keygen", "nonce", "encrypt", "sign", "pack"}
SealRun ==
  /\ call.at \in Running => call.key \in AeadKeys
  /\ call.at \in {"sign", "pack"} =>
       /\ "key" \in DOMAIN call.ct
       /\ call.ct.alg = "gcm" /\ call.ct.key = call.key /\ call.ct.nonce = call.nonce
       /\ call.ct.p = aead_load(call.pt)
       /\ call.tag = Tag("gcm", call.key, call.nonce, call.cap, call.ct)
SealKeys ==
  /\ secrets \subseteq {"aead", "sk"}
  /\ call.at \notin Running => secrets = {}
  /\ call.at \in {"keygen", "pack"} => "sk" \notin secrets

\* The invariant of sealing.
SealIInv == SealMade /\ SealRun /\ SealKeys /\ OpenExact

\* The places of a call whose answer is being returned.
Answers == {"pq", "aead", "mac", "rpc"}

(* Equal tags were made of equal parts, and equal signatures too. *)
LEMMA TagInjective ==
  ASSUME NEW a, NEW k, NEW n, NEW d, NEW c, NEW a2, NEW k2, NEW n2, NEW d2, NEW c2,
         Tag(a, k, n, d, c) = Tag(a2, k2, n2, d2, c2)
  PROVE  a = a2 /\ k = k2 /\ n = n2 /\ d = d2 /\ c = c2
BY DEF Tag

\* What is signed determines context and message.
LEMMA SignedInjective ==
  ASSUME NEW c, NEW m, NEW c2, NEW m2, Signed(c, m) = Signed(c2, m2)
  PROVE  c = c2 /\ m = m2
BY DEF Signed

\* What is signed of a seal determines its parts.
LEMMA PartsInjective ==
  ASSUME NEW p, NEW n, NEW c, NEW g, NEW p2, NEW n2, NEW c2, NEW g2,
         SignedParts(p, n, c, g) = SignedParts(p2, n2, c2, g2)
  PROVE  p = p2 /\ n = n2 /\ c = c2 /\ g = g2
BY DEF SignedParts

(* A raw ciphertext that looks like hexadecimal digits loads to bytes no key has made. *)
LEMMA LoadedCt ==
  ASSUME NEW ct, "key" \in DOMAIN ct, NEW form
  PROVE  \/ LoadCt(ct, form) = ct /\ ~ (form = "raw" /\ ct.digits)
         \/ LoadCt(ct, form).key = Garbled /\ form = "raw" /\ ct.digits
BY DEF LoadCt

\* The answer an open must give: the plaintext of what was made of these parts, or none.
PqExact(cf, af, cap, key, box, ans) ==
  LET made == {m \in boxes : m.box = box /\ m.cap = cap /\ m.aead = key}
  IN  IF cf # "bad" /\ af # "bad" /\ ~box.ct.digits /\ made # {}
      THEN \A m \in made : ans = m.p ELSE ans = NoText
AeadExact(alg, form, ctform, key, nonce, aad, ct, tag, ans) ==
  LET made == {m \in pairs : /\ m.alg = alg /\ m.key = key /\ m.nonce = nonce /\ m.aad = aad
                             /\ m.ct = ct /\ m.tag = tag}
  IN  IF form # "bad" /\ made # {} /\ (ctform = "hex" \/ ~ct.digits)
      THEN \A m \in made : ans = m.p ELSE ans = NoText
AeadAnswer(alg, form, key, nonce, ct, tag, aad) ==
  IF ~aead_fill(form) THEN NoText ELSE AeadOpen(alg, key, nonce, ct, tag, aad)

(* crypto_pq_aead_open_internal answers with the plaintext of the one seal the box is. *)
LEMMA PqOpenExact ==
  ASSUME SealMade, NEW cf, NEW af, NEW cap, NEW key, NEW box \in BoxesToOpen
  PROVE  PqExact(cf, af, cap, key, box, PqOpenAnswer(cf, cap, af, key, box))
<1> DEFINE ans == PqOpenAnswer(cf, cap, af, key, box)
           made == {m \in boxes : m.box = box /\ m.cap = cap /\ m.aead = key}
<1> SUFFICES IF cf # "bad" /\ af # "bad" /\ ~box.ct.digits /\ made # {}
             THEN \A m \in made : ans = m.p ELSE ans = NoText
  BY DEF PqExact
<1>1. PICK a \in boxes, b \in boxes, c \in boxes, d \in boxes, e \in boxes :
        box = [pk |-> a.box.pk, nonce |-> b.box.nonce, ct |-> c.box.ct, tag |-> d.box.tag, sig |-> e.box.sig]
  BY DEF BoxesToOpen
<1>2. BoxMade(c) /\ BoxMade(e)
  BY DEF SealMade
<1>3. box.ct = c.box.ct /\ "key" \in DOMAIN box.ct /\ box.sig = e.box.sig
  BY <1>1, <1>2 DEF BoxMade
<1> DEFINE refused == \/ ~aead_fill(cf) \/ box.pk # cap
                      \/ ~Verifies(cap, SignedParts(cap, box.nonce, box.ct, box.tag), box.sig)
                      \/ ~aead_fill(af)
           tagged == box.tag = Tag("gcm", key, box.nonce, cap, LoadCt(box.ct, "raw"))
<1>4. ASSUME NEW m \in made
      PROVE  /\ m.p = box.ct.p /\ box.tag = Tag("gcm", key, box.nonce, cap, box.ct) /\ box.pk = cap
             /\ Verifies(cap, SignedParts(cap, box.nonce, box.ct, box.tag), box.sig)
             /\ box.ct.alg = "gcm" /\ box.ct.key = key /\ box.ct.nonce = box.nonce
  <2>1. m \in boxes /\ m.box = box /\ m.cap = cap /\ m.aead = key /\ BoxMade(m)
    BY DEF SealMade
  <2> QED BY <2>1 DEF BoxMade, Verifies
<1>5. CASE refused
  <2>1. ans = NoText
    BY <1>5 DEF PqOpenAnswer
  <2>2. ~ (cf # "bad" /\ af # "bad" /\ made # {})
    BY <1>4, <1>5 DEF aead_fill
  <2> QED BY <2>1, <2>2
<1>6. CASE ~ refused
  <2>1. ans = AeadOpen("gcm", key, box.nonce, LoadCt(box.ct, "raw"), box.tag, cap)
    BY <1>6 DEF PqOpenAnswer, crypto_aes_gcm_open_internal
  <2>2. cf # "bad" /\ af # "bad" /\ box.pk = cap
    BY <1>6 DEF aead_fill
  <2>3. e.box.sig = Signed(cap, SignedParts(cap, box.nonce, box.ct, box.tag))
    BY <1>6, <1>3 DEF Verifies
  <2>4. Signed(e.cap, SignedParts(e.cap, e.box.nonce, e.box.ct, e.box.tag))
          = Signed(cap, SignedParts(cap, box.nonce, box.ct, box.tag))
    BY <1>2, <2>3 DEF BoxMade
  <2>5. e.cap = cap /\ SignedParts(e.cap, e.box.nonce, e.box.ct, e.box.tag)
                         = SignedParts(cap, box.nonce, box.ct, box.tag)
    BY <2>4, SignedInjective
  <2>6. e.box.nonce = box.nonce /\ e.box.ct = box.ct /\ e.box.tag = box.tag
    BY <2>5, PartsInjective
  <2>7. e.box = [pk |-> e.box.pk, nonce |-> e.box.nonce, ct |-> e.box.ct, tag |-> e.box.tag, sig |-> e.box.sig]
        /\ e.box.pk = e.cap
    BY <1>2 DEF BoxMade
  <2>8. box = [pk |-> box.pk, nonce |-> box.nonce, ct |-> box.ct, tag |-> box.tag, sig |-> box.sig]
    BY <1>1
  <2>9. e.box = box
    BY <1>3, <2>2, <2>5, <2>6, <2>7, <2>8
  <2>10. box.tag = Tag("gcm", e.aead, box.nonce, cap, box.ct) /\ e.aead \in AeadKeys /\ box.ct.key = e.aead
         /\ e.p = box.ct.p /\ box.ct.alg = "gcm" /\ box.ct.nonce = box.nonce
    BY <1>2, <2>5, <2>9 DEF BoxMade
  <2> HIDE DEF refused
  <2>11. CASE tagged
    <3>1. key = e.aead /\ LoadCt(box.ct, "raw") = box.ct
      BY <2>10, <2>11, TagInjective
    <3>2. ~box.ct.digits
      BY <1>3, <2>10, <3>1, LoadedCt, SealAssumption
    <3>3. ans = box.ct.p
      BY <2>1, <2>10, <2>11, <3>1 DEF AeadOpen, Decrypt
    <3>4. e \in made
      BY <2>5, <2>9, <3>1
    <3> QED BY <1>4, <2>2, <3>2, <3>3, <3>4
  <2>12. CASE ~ tagged
    <3>1. ans = NoText
      BY <2>1, <2>12 DEF AeadOpen
    <3>2. ~box.ct.digits => LoadCt(box.ct, "raw") = box.ct
      BY <1>3, LoadedCt
    <3>3. ~box.ct.digits => made = {}
      BY <1>4, <2>12, <3>2
    <3> QED BY <3>1, <3>3
  <2> QED BY <2>11, <2>12
<1> QED BY <1>5, <1>6

(* oo_open answers with the plaintext of the ciphertext that was made with these parts. *)
LEMMA AeadOpenExact ==
  ASSUME SealMade, NEW alg, NEW form, NEW ctform, NEW key, NEW nonce, NEW aad,
         NEW m1 \in pairs, NEW m2 \in pairs, ctform \in {"raw", "hex"}
  PROVE  AeadExact(alg, form, ctform, key, nonce, aad, m1.ct, m2.tag,
                   AeadAnswer(alg, form, key, nonce, LoadCt(m1.ct, ctform), m2.tag, aad))
<1> DEFINE ans == AeadAnswer(alg, form, key, nonce, LoadCt(m1.ct, ctform), m2.tag, aad)
           made == {m \in pairs : /\ m.alg = alg /\ m.key = key /\ m.nonce = nonce /\ m.aad = aad
                                  /\ m.ct = m1.ct /\ m.tag = m2.tag}
<1> SUFFICES IF form # "bad" /\ made # {} /\ (ctform = "hex" \/ ~m1.ct.digits)
             THEN \A m \in made : ans = m.p ELSE ans = NoText
  BY DEF AeadExact
<1> USE DEF AeadAnswer
<1>1. PairMade(m1) /\ PairMade(m2)
  BY DEF SealMade
<1>2. "key" \in DOMAIN m1.ct
  BY <1>1 DEF PairMade
<1> DEFINE ct == LoadCt(m1.ct, ctform)
           tagged == m2.tag = Tag(alg, key, nonce, aad, ct)
<1>3. ASSUME NEW m \in made PROVE m.p = m1.ct.p /\ m2.tag = Tag(alg, key, nonce, aad, m1.ct)
  <2>1. m \in pairs /\ m.alg = alg /\ m.key = key /\ m.nonce = nonce /\ m.aad = aad
        /\ m.ct = m1.ct /\ m.tag = m2.tag /\ PairMade(m)
    BY DEF SealMade
  <2> QED BY <2>1 DEF PairMade
<1>4. ct = m1.ct \/ (ct.key = Garbled /\ ~ (ctform = "hex" \/ ~m1.ct.digits))
  BY <1>2, LoadedCt
<1>5. CASE ~aead_fill(form)
  BY <1>5 DEF aead_fill
<1>6. CASE aead_fill(form) /\ tagged
  <2>1. ans = Decrypt(alg, key, nonce, ct)
    BY <1>6 DEF AeadOpen
  <2>2. Tag(m2.alg, m2.key, m2.nonce, m2.aad, m2.ct) = Tag(alg, key, nonce, aad, ct)
    BY <1>1, <1>6 DEF PairMade
  <2>3. m2.alg = alg /\ m2.key = key /\ m2.nonce = nonce /\ m2.aad = aad /\ m2.ct = ct
    BY <2>2, TagInjective
  <2> HIDE DEF ct
  <2>4. ct.key = key /\ key \in AeadKeys /\ ct.alg = alg /\ ct.nonce = nonce
    BY <1>1, <2>3 DEF PairMade
  <2>5. ct = m1.ct
    BY <1>4, <2>4, SealAssumption
  <2>6. m2 \in made
    BY <2>3, <2>5
  <2>7. ans = m1.ct.p
    BY <2>1, <2>4, <2>5 DEF Decrypt
  <2>8. ctform = "hex" \/ ~m1.ct.digits
    BY <1>2, <2>4, <2>5, LoadedCt, SealAssumption DEF ct
  <2>9. form # "bad"
    BY <1>6 DEF aead_fill
  <2> QED BY <1>3, <2>6, <2>7, <2>8, <2>9
<1>7. CASE aead_fill(form) /\ ~ tagged
  <2>1. ans = NoText
    BY <1>7 DEF AeadOpen
  <2>2. (ctform = "hex" \/ ~m1.ct.digits) => made = {}
    BY <1>3, <1>4, <1>7
  <2> QED BY <2>1, <2>2
<1> QED BY <1>5, <1>6, <1>7

(* Without an answer there is nothing to say of it. *)
LEMMA NoAnswer ==
  ASSUME call'.at \notin Answers
  PROVE  OpenExact'
BY Zenon DEF OpenExact, Answers

(* The invariant holds at the start. *)
LEMMA SealInitial == SealInit => SealIInv
<1> SUFFICES ASSUME SealInit PROVE SealIInv
  OBVIOUS
<1>1. call.at = "idle"
  BY DEF SealInit, Idle
<1>2. OpenExact
  BY <1>1, Zenon DEF OpenExact
<1> QED BY <1>1, <1>2 DEF SealInit, SealIInv, SealMade, SealRun, SealKeys, Running

(* A step to a state without an answer that makes nothing new and keeps track of the keys. *)
LEMMA SealQuiet ==
  ASSUME SealMade, boxes' = boxes, pairs' = pairs, macs' = macs, rpcs' = rpcs,
         call'.at \notin Answers, SealRun', SealKeys'
  PROVE  SealIInv'
<1>1. SealMade'
  BY DEF SealMade, BoxMade, PairMade, MacMade, RpcMade
<1> QED BY <1>1, NoAnswer DEF SealIInv

(* The AEAD seal makes a ciphertext of its parts. *)
LEMMA SealCallStep ==
  ASSUME SealIInv, oo_seal
  PROVE  SealIInv'
<1>1. PICK alg \in Algs, form \in Forms, key \in AeadKeys, nonce \in Nonces,
           pt \in SealTexts, aad \in CapKeys, digits \in BOOLEAN :
             SealCall(alg, form, key, nonce, pt, aad, digits)
  BY Zenon DEF oo_seal
<1> DEFINE ct == Encrypt(alg, key, nonce, aead_load(pt), digits)
           new == [alg |-> alg, key |-> key, nonce |-> nonce, aad |-> aad, p |-> aead_load(pt),
                   ct |-> ct, tag |-> Tag(alg, key, nonce, aad, ct)]
<1>2. pairs' = pairs \cup {new}
  BY <1>1 DEF SealCall, AeadSeal, crypto_aes_gcm_seal_internal, crypto_chacha20poly1305_seal_internal, Algs
<1>3. PairMade(new)
  BY DEF PairMade, Encrypt
<1> HIDE DEF new
<1>4. call' = call /\ call = Idle /\ secrets' = secrets /\ boxes' = boxes /\ macs' = macs /\ rpcs' = rpcs
  BY DEF oo_seal
<1>5. \A m \in pairs' : PairMade(m)
  BY <1>2, <1>3 DEF SealIInv, SealMade
<1>6. SealMade'
  BY <1>4, <1>5 DEF SealIInv, SealMade, BoxMade, PairMade, MacMade, RpcMade
<1>7. call'.at = "idle"
  BY <1>4 DEF Idle
<1>8. SealRun' /\ SealKeys'
  BY <1>4, <1>7 DEF SealIInv, SealRun, SealKeys, Running
<1>9. OpenExact'
  BY <1>7, NoAnswer DEF Answers
<1> QED BY <1>6, <1>8, <1>9 DEF SealIInv

(* A post-quantum MAC and a capability message are made of their parts. *)
LEMMA MacStep ==
  ASSUME SealIInv, PqMac \/ oo_cap_rpc_send
  PROVE  SealIInv'
<1>1. call' = call /\ call = Idle /\ secrets' = secrets /\ boxes' = boxes /\ pairs' = pairs
  BY DEF PqMac, oo_cap_rpc_send
<1>2. call'.at = "idle"
  BY <1>1 DEF Idle
<1>3. \A m \in macs' : MacMade(m)
  <2>1. CASE PqMac
    <3>1. PICK cf \in Forms, cap \in CapKeys, msg \in SealTexts :
            SignFits(msg) /\ macs' = macs \cup {[pk |-> cap, sig |-> Signed(cap, aead_load(msg)), msg |-> msg]}
      BY <2>1 DEF PqMac
    <3>2. MacMade([pk |-> cap, sig |-> Signed(cap, aead_load(msg)), msg |-> msg])
      BY <3>1 DEF MacMade
    <3> QED BY <3>1, <3>2 DEF SealIInv, SealMade
  <2>2. CASE oo_cap_rpc_send
    BY <2>2 DEF oo_cap_rpc_send, SealIInv, SealMade
  <2> QED BY <2>1, <2>2
<1>4. \A m \in rpcs' : RpcMade(m)
  BY DEF PqMac, oo_cap_rpc_send, SealIInv, SealMade, RpcMade
<1>5. SealMade'
  BY <1>1, <1>3, <1>4 DEF SealIInv, SealMade, BoxMade, PairMade, MacMade, RpcMade
<1>6. SealRun' /\ SealKeys'
  BY <1>1, <1>2 DEF SealIInv, SealRun, SealKeys, Running
<1>7. OpenExact'
  BY <1>2, NoAnswer DEF Answers
<1> QED BY <1>5, <1>6, <1>7 DEF SealIInv

(* The running seal up to the signature. *)
LEMMA PqRunStep ==
  ASSUME SealIInv, PqSeal \/ PqSealKeygen \/ PqSealNonce \/ PqSealEncrypt \/ PqSealSign \/ Answered
  PROVE  SealIInv'
<1> USE DEF SealIInv
<1>1. boxes' = boxes /\ pairs' = pairs /\ macs' = macs /\ rpcs' = rpcs
  BY DEF PqSeal, PqSealKeygen, PqSealNonce, PqSealEncrypt, PqSealSign, Answered
<1>2. ASSUME call'.at \notin Answers, SealRun', SealKeys' PROVE SealIInv'
  BY <1>1, <1>2, SealQuiet
<1> USE DEF SealRun, SealKeys, Running, Answers, Done, Idle
<1>3. CASE PqSeal
  <2>1. call.at = "idle" /\ secrets = {}
    BY <1>3 DEF PqSeal
  <2>2. CASE call' = call /\ secrets' = secrets
    BY <1>2, <2>1, <2>2
  <2>3. ASSUME NEW cf, NEW cap, NEW key \in AeadKeys, NEW pt,
               call' = [at |-> "keygen", cf |-> cf, cap |-> cap, key |-> key, pt |-> pt], secrets' = {"aead"}
        PROVE  SealIInv'
    BY <1>2, <2>3
  <2> QED BY <1>3, <2>2, <2>3 DEF PqSeal
<1>4. CASE PqSealKeygen
  <2>1. CASE call' = [call EXCEPT !.at = "nonce"] /\ secrets' = secrets \cup {"sk"}
    <3>1. call.at = "keygen" /\ call.key \in AeadKeys
      BY <1>4 DEF PqSealKeygen
    <3>2. call'.at \notin {"sign", "pack", "keygen"} /\ call'.key = call.key /\ call'.at \in {"keygen", "nonce"}
      BY <2>1, <3>1
    <3> QED BY <1>2, <2>1, <3>1, <3>2
  <2>2. CASE Done /\ secrets' = secrets \ {"aead"}
    BY <1>2, <1>4, <2>2 DEF PqSealKeygen
  <2> QED BY <1>4, <2>1, <2>2 DEF PqSealKeygen
<1>5. CASE PqSealNonce
  <2>1. CASE Done /\ secrets' = secrets \ {"aead", "sk"}
    BY <1>2, <2>1
  <2>2. ASSUME NEW n, secrets' = secrets,
               call' = [at |-> "encrypt", cap |-> call.cap, key |-> call.key, pt |-> call.pt, nonce |-> n]
        PROVE  SealIInv'
    <3>1. call.at = "nonce" /\ call.key \in AeadKeys
      BY <1>5 DEF PqSealNonce
    <3> QED BY <1>2, <2>2, <3>1
  <2> QED BY <1>5, <2>1, <2>2 DEF PqSealNonce
<1>6. CASE PqSealEncrypt
  <2>1. PICK digits \in BOOLEAN :
          LET r == crypto_aes_gcm_seal_internal(call.key, call.nonce, call.pt, call.cap, digits)
          IN  call' = [at |-> "sign", cap |-> call.cap, key |-> call.key, pt |-> call.pt,
                       nonce |-> call.nonce, ct |-> r.ct, tag |-> r.tag]
    BY <1>6 DEF PqSealEncrypt
  <2> DEFINE ct == Encrypt("gcm", call.key, call.nonce, aead_load(call.pt), digits)
  <2>2. /\ call'.at = "sign" /\ call'.cap = call.cap /\ call'.key = call.key /\ call'.pt = call.pt
        /\ call'.nonce = call.nonce /\ call'.ct = ct
        /\ call'.tag = Tag("gcm", call.key, call.nonce, call.cap, ct)
    BY <2>1 DEF crypto_aes_gcm_seal_internal, AeadSeal
  <2>3. "key" \in DOMAIN ct /\ ct.alg = "gcm" /\ ct.key = call.key /\ ct.nonce = call.nonce
        /\ ct.p = aead_load(call.pt)
    BY DEF Encrypt
  <2> HIDE DEF ct
  <2>4. secrets' = secrets /\ call.at = "encrypt"
    BY <1>6 DEF PqSealEncrypt
  <2> QED BY <1>2, <2>2, <2>3, <2>4
<1>7. CASE PqSealSign
  <2>1. CASE call' = [call EXCEPT !.at = "pack"] /\ secrets' = secrets \ {"sk"}
    <3>1. call.at = "sign"
      BY <1>7 DEF PqSealSign
    <3>2. call'.at \notin {"sign", "keygen"} /\ call'.at \in {"sign", "pack"} /\ call'.key = call.key
          /\ call'.ct = call.ct /\ call'.tag = call.tag /\ call'.cap = call.cap /\ call'.nonce = call.nonce
          /\ call'.pt = call.pt
      BY <2>1, <3>1
    <3> QED BY <1>2, <2>1, <3>1, <3>2
  <2>2. CASE Done /\ secrets' = secrets \ {"sk", "aead"}
    BY <1>2, <1>7, <2>2 DEF PqSealSign
  <2> QED BY <1>7, <2>1, <2>2 DEF PqSealSign
<1>8. CASE Answered
  BY <1>2, <1>8 DEF Answered
<1> QED BY <1>3, <1>4, <1>5, <1>6, <1>7, <1>8

(* The finished seal is made of its parts. *)
LEMMA PackStep ==
  ASSUME SealIInv, PqSealPack
  PROVE  SealIInv'
<1> DEFINE sig == Signed(call.cap, SignedParts(call.cap, call.nonce, call.ct, call.tag))
           new == [cap |-> call.cap, aead |-> call.key, p |-> aead_load(call.pt),
                   box |-> [pk |-> call.cap, nonce |-> call.nonce, ct |-> call.ct,
                            tag |-> call.tag, sig |-> sig]]
<1>1. boxes' = boxes \cup {new} /\ secrets' = secrets \ {"aead"} /\ call' = Idle
      /\ pairs' = pairs /\ macs' = macs /\ rpcs' = rpcs /\ call.at = "pack"
  BY DEF PqSealPack, Done
<1>2. BoxMade(new)
  BY <1>1 DEF BoxMade, SealIInv, SealRun, Running
<1> HIDE DEF new
<1>3. \A m \in boxes' : BoxMade(m)
  BY <1>1, <1>2 DEF SealIInv, SealMade
<1>4. SealMade'
  BY <1>1, <1>3 DEF SealIInv, SealMade, BoxMade, PairMade, MacMade, RpcMade
<1>5. call'.at = "idle" /\ secrets' = {}
  BY <1>1 DEF Idle, SealIInv, SealKeys
<1>6. SealRun' /\ SealKeys'
  BY <1>5 DEF SealRun, SealKeys, Running
<1>7. OpenExact'
  BY <1>5, NoAnswer DEF Answers
<1> QED BY <1>4, <1>6, <1>7 DEF SealIInv

(* Opening, verifying and receiving: the answer is exact. *)
LEMMA AnswerStep ==
  ASSUME SealIInv, PqOpen \/ oo_open \/ PqMacVerify \/ oo_cap_rpc_recv
  PROVE  SealIInv'
<1>1. call = Idle /\ secrets' = secrets /\ boxes' = boxes /\ pairs' = pairs /\ macs' = macs /\ rpcs' = rpcs
  BY DEF PqOpen, oo_open, PqMacVerify, oo_cap_rpc_recv
<1>2. SealMade /\ secrets = {}
  BY <1>1 DEF SealIInv, SealKeys, Idle, Running
<1>3. SealMade'
  BY <1>1, <1>2 DEF SealMade, BoxMade, PairMade, MacMade, RpcMade
<1>4. call'.at \in Answers
  BY DEF PqOpen, oo_open, PqMacVerify, oo_cap_rpc_recv, Answers
<1>5. SealRun' /\ SealKeys'
  BY <1>1, <1>2, <1>4 DEF SealRun, SealKeys, Running, Answers
<1>6. CASE PqOpen
  <2>1. PICK cf \in Forms, af \in Forms, cap \in CapKeys, key \in AeadKeys, box \in BoxesToOpen :
          call' = [at |-> "pq", cf |-> cf, af |-> af, cap |-> cap, key |-> key,
                   box |-> box, ans |-> PqOpenAnswer(cf, cap, af, key, box)]
    BY <1>6 DEF PqOpen
  <2> DEFINE ans == PqOpenAnswer(cf, cap, af, key, box)
  <2>2. PqExact(cf, af, cap, key, box, ans)
    BY <1>2, PqOpenExact
  <2> HIDE DEF ans
  <2>3. call'.at = "pq" /\ call'.cf = cf /\ call'.af = af /\ call'.cap = cap /\ call'.key = key
        /\ call'.box = box /\ call'.ans = ans
    BY <2>1 DEF ans
  <2>5. OpenExact'
    BY <1>1, <2>2, <2>3 DEF OpenExact, PqExact
  <2> QED BY <1>3, <1>5, <2>5 DEF SealIInv
<1>7. CASE oo_open
  <2>1. PICK alg \in Algs, form \in Forms, ctform \in {"raw", "hex"}, key \in AeadKeys,
             nonce \in Nonces, aad \in CapKeys, m1 \in pairs, m2 \in pairs :
          LET ct  == LoadCt(m1.ct, ctform)
              ans == IF ~aead_fill(form) THEN NoText
                     ELSE IF alg = "gcm"
                     THEN crypto_aes_gcm_open_internal(key, nonce, ct, m2.tag, aad)
                     ELSE crypto_chacha20poly1305_open_internal(key, nonce, ct, m2.tag, aad)
          IN  call' = [at |-> "aead", alg |-> alg, form |-> form, ctform |-> ctform,
                       key |-> key, nonce |-> nonce, aad |-> aad, ct |-> m1.ct,
                       tag |-> m2.tag, ans |-> ans]
    BY <1>7 DEF oo_open
  <2> DEFINE ans == AeadAnswer(alg, form, key, nonce, LoadCt(m1.ct, ctform), m2.tag, aad)
  <2>2. AeadExact(alg, form, ctform, key, nonce, aad, m1.ct, m2.tag, ans)
    BY <1>2, AeadOpenExact
  <2>3. call'.at = "aead" /\ call'.alg = alg /\ call'.form = form /\ call'.ctform = ctform /\ call'.key = key
        /\ call'.nonce = nonce /\ call'.aad = aad /\ call'.ct = m1.ct /\ call'.tag = m2.tag /\ call'.ans = ans
    BY <2>1 DEF Algs, crypto_aes_gcm_open_internal, crypto_chacha20poly1305_open_internal, AeadAnswer
  <2> HIDE DEF ans
  <2>5. OpenExact'
    BY <1>1, <2>2, <2>3 DEF OpenExact, AeadExact
  <2> QED BY <1>3, <1>5, <2>5 DEF SealIInv
<1>8. CASE PqMacVerify
  <2>1. PICK m1 \in macs, m2 \in macs, msg \in SealTexts :
          call' = [at |-> "mac", pk |-> m1.pk, sig |-> m2.sig, msg |-> msg,
                   ok |-> SignFits(msg) /\ Verifies(m1.pk, aead_load(msg), m2.sig)]
    BY <1>8 DEF PqMacVerify
  <2>2. call'.at = "mac" /\ call'.pk = m1.pk /\ call'.sig = m2.sig /\ call'.msg = msg
        /\ (call'.ok <=> SignFits(msg) /\ Verifies(m1.pk, aead_load(msg), m2.sig))
    BY <2>1
  <2>3. ASSUME SignFits(msg), Verifies(m1.pk, aead_load(msg), m2.sig)
        PROVE  m2.pk = m1.pk /\ aead_load(m2.msg) = aead_load(msg)
    <3>1. Signed(m2.pk, aead_load(m2.msg)) = Signed(m1.pk, aead_load(msg))
      BY <1>2, <2>3 DEF Verifies, SealMade, MacMade
    <3> QED BY <3>1, SignedInjective
  <2>4. ASSUME NEW m \in macs, m.pk = m1.pk, m.sig = m2.sig, aead_load(m.msg) = aead_load(msg)
        PROVE  SignFits(msg) /\ Verifies(m1.pk, aead_load(msg), m2.sig)
    <3>1. m.sig = Signed(m.pk, aead_load(m.msg)) /\ SignFits(m.msg) /\ m.msg \in SealTexts
      BY <1>2 DEF SealMade, MacMade
    <3>2. m.msg.b = msg.b
      BY <2>4, <3>1 DEF aead_load, SealTexts
    <3> QED BY <2>4, <3>1, <3>2 DEF SignFits, Verifies
  <2>5. call'.ok <=> \E m \in macs' : /\ m.pk = call'.pk /\ m.sig = call'.sig
                                     /\ aead_load(m.msg) = aead_load(call'.msg)
    BY <1>1, <2>2, <2>3, <2>4
  <2>6. OpenExact'
    BY <2>2, <2>5 DEF OpenExact
  <2> QED BY <1>3, <1>5, <2>6 DEF SealIInv
<1>9. CASE oo_cap_rpc_recv
  <2>1. PICK m \in rpcs, p \in SealTexts, short \in BOOLEAN :
          call' = [at |-> "rpc", mac |-> m.mac, p |-> p, short |-> short,
                   ok |-> ~short /\ m.mac = oo_rpc_mac(p)]
    BY <1>9 DEF oo_cap_rpc_recv
  <2>2. call'.at = "rpc" /\ call'.mac = m.mac /\ call'.p = p /\ (call'.short <=> short)
        /\ (call'.ok <=> ~short /\ m.mac = oo_rpc_mac(p))
    BY <2>1
  <2>3. m.mac = oo_rpc_mac(p) => [mac |-> m.mac, p |-> p] \in rpcs
    <3>1. m = [mac |-> oo_rpc_mac(m.p), p |-> m.p]
      BY <1>2 DEF SealMade, RpcMade
    <3>2. m.mac = oo_rpc_mac(m.p)
      BY <3>1
    <3>3. m.mac = oo_rpc_mac(p) => m.p = p
      BY <3>2 DEF oo_rpc_mac
    <3> QED BY <3>1, <3>2, <3>3
  <2>4. [mac |-> m.mac, p |-> p] \in rpcs => m.mac = oo_rpc_mac(p)
    <3> SUFFICES ASSUME [mac |-> m.mac, p |-> p] \in rpcs PROVE m.mac = oo_rpc_mac(p)
      OBVIOUS
    <3>1. RpcMade([mac |-> m.mac, p |-> p])
      BY <1>2 DEF SealMade
    <3> QED BY <3>1 DEF RpcMade
  <2>5. call'.ok <=> ~call'.short /\ [mac |-> call'.mac, p |-> call'.p] \in rpcs'
    BY <1>1, <2>2, <2>3, <2>4
  <2>6. OpenExact'
    BY <2>2, <2>5 DEF OpenExact
  <2> QED BY <1>3, <1>5, <2>6 DEF SealIInv
<1> QED BY <1>6, <1>7, <1>8, <1>9

(***************************************************************************)
(* A box, a ciphertext, a MAC or a message is accepted exactly when its    *)
(* parts belong together and the keys are its own, and no call leaves a    *)
(* key behind: for any number of seals and every set of keys and payloads. *)
(***************************************************************************)
THEOREM SealCorrect == SealSpec => []SealSound
<1>1. SealIInv /\ [SealNext]_sealVars => SealIInv'
  <2> SUFFICES ASSUME SealIInv, [SealNext]_sealVars PROVE SealIInv'
    OBVIOUS
  <2>1. CASE SealNext
    BY <2>1, SealCallStep, MacStep, PqRunStep, PackStep, AnswerStep DEF SealNext
  <2>2. CASE UNCHANGED sealVars
    BY <2>2 DEF sealVars, SealIInv, SealMade, SealRun, SealKeys, OpenExact,
                BoxMade, PairMade, MacMade, RpcMade
  <2> QED BY <2>1, <2>2
<1>2. SealIInv => SealSound
  BY DEF SealIInv, SealSound, KeysWiped, SealKeys, Idle, Running
<1> QED BY <1>1, <1>2, SealInitial, PTL DEF SealSpec

(***************************************************************************)
(* File confinement.                                                       *)
(***************************************************************************)
\* The provers do not know that a literal is a string.
FsNames  == STRING \cup {"/tmp", "/proc/self", "/a", "/b", "/a/out", "/b/out", "none"}
FsPcs  == {"idle", "lookup", "miss", "judged", "done", "refused"}
FsLocs == [kind : {"none", "read", "write"}, dir : FsNames, policy : BOOLEAN,
           try : Seq(FsNames), ok : BOOLEAN]

FsTypeOK ==
  /\ fsCwd \in Cwds /\ cachedCwd \in Cwds \cup {"none"}
  /\ fsEnv \in [rd : Seq(FsNames), wd : Seq(FsNames), nojail : BOOLEAN, polw : BOOLEAN]
  /\ fpc \in [FsThreads -> FsPcs]
  /\ floc \in [FsThreads -> FsLocs]

\* A cached directory is what its name resolves to from the working directory of the cache.
CacheTrue ==
  \A d \in DOMAIN dirCache :
    /\ d = "out" => cachedCwd \in Cwds
    /\ dirCache[d] = RealDir(d, cachedCwd)

\* One of the directories still to be tried admits dir.
Reaches(dir, try) == \E i \in DOMAIN try : try[i] # "" /\ Under(dir, RealDir(try[i], fsCwd))

\* What the walk has found so far and what is left of it decide as the environment does.
FsWalk(t) ==
  LET c == floc[t] IN
  /\ fpc[t] # "idle" => c.kind \in {"read", "write"}
  /\ fpc[t] \in {"lookup", "miss"} =>
       c.try # <<>> /\ ~c.ok /\ (MayTouch(c.kind, c.dir) <=> Reaches(c.dir, c.try))
  /\ fpc[t] = "miss" => Head(c.try) # "" /\ (Head(c.try) = "out" => cachedCwd = fsCwd)
  /\ fpc[t] = "judged" => (c.ok <=> MayTouch(c.kind, c.dir))

\* The invariant of file confinement.
FsIInv == FsTypeOK /\ CacheTrue /\ (\A t \in FsThreads : FsWalk(t)) /\ FsVerdictExact

(* Every literal of the model, and every string, is one of the names. *)
LEMMA FsNamesAre ==
  /\ \A q \in Seq(STRING) : q \in Seq(FsNames)
  /\ {"/tmp", "/proc/self", "/a", "/b", "/a/out", "/b/out", "none"} \subseteq FsNames
BY DEF FsNames

(* The lists of the environment are sequences of names. *)
LEMMA EnvDirs == ReadDirs \subseteq Seq(FsNames) /\ WriteDirs \subseteq Seq(FsNames)
BY FsNamesAre, DirsAssumption

(* What is tried of one list are /tmp and the entries before the first "/". *)
LEMMA ListOfOpens ==
  ASSUME NEW dirs \in Seq(FsNames)
  PROVE  /\ ListOf(dirs) \in Seq(FsNames) /\ ListOf(dirs) # <<>>
         /\ \A dir : Reaches(dir, ListOf(dirs)) <=> \E r \in {"/tmp"} \cup Opens(dirs) : Under(dir, r)
<1> DEFINE E == {i \in DOMAIN dirs : dirs[i] = "/"} \cup {Len(dirs) + 1}
           m == Min(E)
           q == SubSeq(dirs, 1, m - 1)
           l == <<"/tmp">> \o q
<1>1. Len(dirs) \in Nat /\ DOMAIN dirs = 1 .. Len(dirs) /\ E \in SUBSET Nat /\ E # {}
  OBVIOUS
<1>2. m \in E /\ \A i \in E : m =< i
  BY <1>1, MinProperties
<1>3. m \in 1 .. Len(dirs) + 1
  BY <1>1, <1>2
<1> HIDE DEF m, E
<1>4. q \in Seq(FsNames) /\ Len(q) = m - 1 /\ \A i \in 1 .. m - 1 : q[i] = dirs[i]
  BY <1>1, <1>3, SubSeqProperties
<1> HIDE DEF q
<1>5. l \in Seq(FsNames) /\ Len(l) = m /\ l[1] = "/tmp" /\ \A i \in 2 .. m : l[i] = dirs[i - 1]
  BY <1>3, <1>4, FsNamesAre
<1>6. l = ListOf(dirs) /\ DOMAIN l = 1 .. m
  BY <1>3, <1>5 DEF ListOf, l, q, m, E
<1> HIDE DEF l
<1>7. \A j \in DOMAIN dirs : (\A k \in 1 .. j : dirs[k] # "/") <=> j < m
  BY <1>1, <1>2, <1>3 DEF E
<1>8. ASSUME NEW dir, NEW i \in 1 .. m, l[i] # "", Under(dir, RealDir(l[i], fsCwd))
      PROVE  \E r \in {"/tmp"} \cup Opens(dirs) : Under(dir, r)
  <2>1. CASE i = 1
    BY <1>5, <1>8, <2>1 DEF RealDir
  <2>2. CASE i # 1
    <3>1. i - 1 \in DOMAIN dirs /\ l[i] = dirs[i - 1] /\ i - 1 < m
      BY <1>1, <1>3, <1>5, <2>2
    <3>2. RealDir(l[i], fsCwd) \in Opens(dirs)
      BY <1>7, <1>8, <3>1 DEF Opens
    <3> QED BY <1>8, <3>2
  <2> QED BY <2>1, <2>2
<1>9. ASSUME NEW dir, NEW r \in {"/tmp"} \cup Opens(dirs), Under(dir, r)
      PROVE  \E i \in 1 .. m : l[i] # "" /\ Under(dir, RealDir(l[i], fsCwd))
  <2>1. CASE r = "/tmp"
    <3>1. 1 \in 1 .. m /\ l[1] # "" /\ RealDir(l[1], fsCwd) = r
      BY <1>3, <1>5, <2>1 DEF RealDir
    <3> QED BY <1>9, <3>1, Zenon
  <2>2. CASE r \in Opens(dirs)
    <3>1. PICK j \in DOMAIN dirs : /\ dirs[j] # "" /\ r = RealDir(dirs[j], fsCwd)
                                   /\ \A k \in 1 .. j : dirs[k] # "/"
      BY <2>2 DEF Opens
    <3>2. j < m
      BY <1>7, <3>1, Zenon
    <3>3. j + 1 \in 2 .. m /\ (j + 1) - 1 = j /\ j + 1 \in 1 .. m
      BY <1>1, <1>3, <3>2
    <3>4. l[j + 1] = dirs[j]
      BY <1>5, <3>3
    <3> QED BY <1>9, <3>1, <3>3, <3>4, Zenon
  <2> QED BY <1>9, <2>1, <2>2
<1>10. ListOf(dirs) \in Seq(FsNames) /\ ListOf(dirs) # <<>>
  BY <1>3, <1>5, <1>6
<1>11. \A dir : Reaches(dir, l) <=> \E i \in 1 .. m : l[i] # "" /\ Under(dir, RealDir(l[i], fsCwd))
  BY <1>6, Zenon DEF Reaches
<1>12. \A dir : Reaches(dir, l) <=> \E r \in {"/tmp"} \cup Opens(dirs) : Under(dir, r)
  BY <1>8, <1>9, <1>11, Zenon
<1> QED BY <1>6, <1>10, <1>12

(* A sequence of one element. *)
LEMMA OneElement ==
  ASSUME NEW E, NEW x \in E
  PROVE  <<x>> \in Seq(E) /\ Len(<<x>>) = 1 /\ <<x>>[1] = x
OBVIOUS

(* Of two lists tried one after the other, one admits the directory. *)
LEMMA ReachesBoth ==
  ASSUME NEW p \in Seq(FsNames), NEW q \in Seq(FsNames)
  PROVE  \A dir : Reaches(dir, p \o q) <=> Reaches(dir, p) \/ Reaches(dir, q)
<1>1. /\ p \o q \in Seq(FsNames) /\ DOMAIN (p \o q) = 1 .. Len(p) + Len(q)
      /\ DOMAIN p = 1 .. Len(p) /\ DOMAIN q = 1 .. Len(q) /\ Len(p) \in Nat /\ Len(q) \in Nat
      /\ \A i \in 1 .. Len(p) : (p \o q)[i] = p[i]
      /\ \A i \in 1 .. Len(q) : (p \o q)[Len(p) + i] = q[i]
  BY ConcatProperties
<1>2. \A i \in 1 .. Len(p) + Len(q) : i \in 1 .. Len(p) \/ (i - Len(p) \in 1 .. Len(q) /\ Len(p) + (i - Len(p)) = i)
  BY <1>1
<1>3. \A i \in 1 .. Len(q) : Len(p) + i \in 1 .. Len(p) + Len(q)
  BY <1>1
<1>4. \A i \in 1 .. Len(p) : i \in 1 .. Len(p) + Len(q)
  BY <1>1
<1> HIDE DEF Reaches
<1>5. ASSUME NEW dir, Reaches(dir, p \o q) PROVE Reaches(dir, p) \/ Reaches(dir, q)
  BY <1>1, <1>2, <1>5, Zenon DEF Reaches
<1>6. ASSUME NEW dir, Reaches(dir, p) \/ Reaches(dir, q) PROVE Reaches(dir, p \o q)
  BY <1>1, <1>3, <1>4, <1>6, Zenon DEF Reaches
<1> QED BY <1>5, <1>6

(* A list admits what its first entry or the rest of it admits. *)
LEMMA ReachesRest ==
  ASSUME NEW q \in Seq(FsNames), q # <<>>
  PROVE  /\ Tail(q) \in Seq(FsNames) /\ Head(q) \in FsNames
         /\ \A dir : Reaches(dir, q) <=> \/ Head(q) # "" /\ Under(dir, RealDir(Head(q), fsCwd))
                                         \/ Reaches(dir, Tail(q))
<1>1. /\ Len(q) \in Nat \ {0} /\ DOMAIN q = 1 .. Len(q) /\ Head(q) = q[1]
      /\ Tail(q) \in Seq(FsNames) /\ DOMAIN Tail(q) = 1 .. Len(q) - 1
      /\ \A i \in 1 .. Len(q) - 1 : Tail(q)[i] = q[i + 1]
  BY HeadTailProperties, EmptySeq
<1>2. \A i \in 1 .. Len(q) : i = 1 \/ (i - 1 \in 1 .. Len(q) - 1 /\ (i - 1) + 1 = i)
  BY <1>1
<1>3. 1 \in 1 .. Len(q) /\ \A i \in 1 .. Len(q) - 1 : i + 1 \in 1 .. Len(q)
  BY <1>1
<1>4. Head(q) \in FsNames
  BY <1>1, <1>3
<1>5. ASSUME NEW dir, Reaches(dir, q)
      PROVE  (Head(q) # "" /\ Under(dir, RealDir(Head(q), fsCwd))) \/ Reaches(dir, Tail(q))
  <2>1. PICK i \in 1 .. Len(q) : q[i] # "" /\ Under(dir, RealDir(q[i], fsCwd))
    BY <1>1, <1>5 DEF Reaches
  <2>2. CASE i = 1
    BY <1>1, <2>1, <2>2
  <2>3. CASE i # 1
    <3>1. i - 1 \in 1 .. Len(q) - 1 /\ Tail(q)[i - 1] = q[i]
      BY <1>1, <1>2, <2>3
    <3> QED BY <1>1, <2>1, <3>1, Zenon DEF Reaches
  <2> QED BY <2>2, <2>3
<1>6. ASSUME NEW dir, (Head(q) # "" /\ Under(dir, RealDir(Head(q), fsCwd))) \/ Reaches(dir, Tail(q))
      PROVE  Reaches(dir, q)
  BY <1>1, <1>3, <1>6, Zenon DEF Reaches
<1> QED BY <1>1, <1>4, <1>5, <1>6

(* An empty list admits nothing. *)
LEMMA ReachesNone == \A dir : ~Reaches(dir, <<>>)
BY EmptySeq DEF Reaches

(* The directories of a list decide as the environment does. *)
LEMMA ReadDecides ==
  ASSUME FsTypeOK, ~fsEnv.nojail, NEW dir, dir # "/proc/self"
  PROVE  ReadList \in Seq(FsNames) /\ (MayTouch("read", dir) <=> Reaches(dir, ReadList))
<1> DEFINE rd == fsEnv.rd
           wd == fsEnv.wd
<1>1. rd \in Seq(FsNames) /\ wd \in Seq(FsNames) /\ fsCwd \in FsNames /\ fsCwd \notin {"", "/", "out"}
  BY FsNamesAre DEF FsTypeOK, Cwds
<1>2. MayTouch("read", dir) <=>
        \E r \in {"/tmp"} \cup Opens(rd) \cup Opens(wd)
                 \cup (IF rd \o wd = <<>> THEN {fsCwd} ELSE {}) : Under(dir, r)
  BY DEF MayTouch
<1>3. Opens(<<>>) = {}
  BY EmptySeq DEF Opens
<1> HIDE DEF rd, wd
<1>4. rd \o wd = <<>> <=> rd = <<>> /\ wd = <<>>
  <2>1. rd \o wd \in Seq(FsNames) /\ Len(rd \o wd) = Len(rd) + Len(wd) /\ Len(rd) \in Nat /\ Len(wd) \in Nat
    BY <1>1, ConcatProperties, LenProperties
  <2>2. \A q \in Seq(FsNames) : q = <<>> <=> Len(q) = 0
    BY EmptySeq
  <2>3. rd \o wd = <<>> <=> Len(rd) + Len(wd) = 0
    BY <2>1, <2>2, Zenon
  <2>4. (rd = <<>> <=> Len(rd) = 0) /\ (wd = <<>> <=> Len(wd) = 0)
    BY <1>1, <2>2, Zenon
  <2>5. Len(rd) + Len(wd) = 0 <=> Len(rd) = 0 /\ Len(wd) = 0
    BY <2>1
  <2> QED BY <2>3, <2>4, <2>5, Zenon
<1>5. CASE rd = <<>> /\ wd = <<>>
  <2>1. <<fsCwd>> \in Seq(FsNames) /\ Opens(<<fsCwd>>) = {fsCwd}
    <3> DEFINE q == <<fsCwd>>
    <3>1. q \in Seq(FsNames) /\ Len(q) = 1 /\ q[1] = fsCwd
      BY <1>1, OneElement
    <3> HIDE DEF q
    <3>2. DOMAIN q = {1} /\ 1 .. 1 = {1}
      BY <3>1, LenProperties
    <3>3. {j \in DOMAIN q : q[j] # "" /\ \A k \in 1 .. j : q[k] # "/"} = {1}
      BY <1>1, <3>1, <3>2, Zenon
    <3>4. RealDir(q[1], fsCwd) = fsCwd
      BY <1>1, <3>1 DEF RealDir
    <3>5. Opens(q) = {fsCwd}
      <4> DEFINE J == {j \in DOMAIN q : q[j] # "" /\ \A k \in 1 .. j : q[k] # "/"}
      <4>1. Opens(q) = {RealDir(q[i], fsCwd) : i \in J} /\ J = {1}
        BY <3>3, Zenon DEF Opens
      <4> HIDE DEF J
      <4> QED BY <3>4, <4>1
    <3> QED BY <3>1, <3>5 DEF q
  <2>2. ReadList = ListOf(<<fsCwd>>) \o <<>>
    BY <1>5 DEF ReadList, rd, wd
  <2>3. ReadList = ListOf(<<fsCwd>>)
    BY <2>1, <2>2, ListOfOpens, ConcatEmptySeq
  <2>4. MayTouch("read", dir) <=> \E r \in {"/tmp"} \cup {fsCwd} : Under(dir, r)
    BY <1>2, <1>3, <1>4, <1>5
  <2> QED BY <2>1, <2>3, <2>4, ListOfOpens
<1>6. CASE rd # <<>> /\ wd = <<>>
  <2>1. ReadList = ListOf(rd) \o <<>>
    BY <1>6 DEF ReadList, rd, wd
  <2>2. ReadList = ListOf(rd)
    BY <1>1, <2>1, ListOfOpens, ConcatEmptySeq
  <2>3. MayTouch("read", dir) <=> \E r \in {"/tmp"} \cup Opens(rd) : Under(dir, r)
    BY <1>2, <1>3, <1>4, <1>6
  <2> QED BY <1>1, <2>2, <2>3, ListOfOpens
<1>7. CASE rd = <<>> /\ wd # <<>>
  <2>1. ReadList = <<>> \o ListOf(wd)
    BY <1>7 DEF ReadList, rd, wd
  <2>2. ReadList = ListOf(wd)
    BY <1>1, <2>1, ListOfOpens, ConcatEmptySeq
  <2>3. MayTouch("read", dir) <=> \E r \in {"/tmp"} \cup Opens(wd) : Under(dir, r)
    BY <1>2, <1>3, <1>4, <1>7
  <2> QED BY <1>1, <2>2, <2>3, ListOfOpens
<1>8. CASE rd # <<>> /\ wd # <<>>
  <2>1. ReadList = ListOf(rd) \o ListOf(wd)
    BY <1>8 DEF ReadList, rd, wd
  <2>2. ListOf(rd) \in Seq(FsNames) /\ ListOf(wd) \in Seq(FsNames)
    BY <1>1, ListOfOpens
  <2>3. Reaches(dir, ReadList) <=> Reaches(dir, ListOf(rd)) \/ Reaches(dir, ListOf(wd))
    BY <2>1, <2>2, ReachesBoth
  <2>4. MayTouch("read", dir) <=> \/ \E r \in {"/tmp"} \cup Opens(rd) : Under(dir, r)
                                  \/ \E r \in {"/tmp"} \cup Opens(wd) : Under(dir, r)
    BY <1>2, <1>4, <1>8
  <2> QED BY <1>1, <2>1, <2>2, <2>3, <2>4, ListOfOpens, ConcatProperties
<1> QED BY <1>5, <1>6, <1>7, <1>8

(* The same for writing. *)
LEMMA WriteDecides ==
  ASSUME FsTypeOK, ~fsEnv.nojail, NEW dir
  PROVE  WriteList \in Seq(FsNames) /\ (MayTouch("write", dir) <=> Reaches(dir, WriteList))
<1>1. fsEnv.wd \in Seq(FsNames)
  BY DEF FsTypeOK
<1>2. MayTouch("write", dir) <=> fsEnv.wd # <<>> /\ \E r \in {"/tmp"} \cup Opens(fsEnv.wd) : Under(dir, r)
  BY DEF MayTouch
<1>3. CASE fsEnv.wd = <<>>
  BY <1>2, <1>3, ReachesNone, EmptySeq DEF WriteList
<1>4. CASE fsEnv.wd # <<>>
  BY <1>1, <1>2, <1>4, ListOfOpens DEF WriteList
<1> QED BY <1>3, <1>4

\* Neither the environment nor the directory has changed.
FsStill == fsCwd' = fsCwd /\ fsEnv' = fsEnv

(* While the directory and the environment stay, so do the verdicts. *)
LEMMA StillDecides ==
  ASSUME FsStill
  PROVE  /\ \A kind, dir : MayTouch(kind, dir)' <=> MayTouch(kind, dir)
         /\ \A dir, try : Reaches(dir, try)' <=> Reaches(dir, try)
BY DEF FsStill, MayTouch, Opens, Reaches

(* A refreshed cache is true, and of the present directory. *)
LEMMA RefreshTrue ==
  ASSUME FsIInv, FsStill, NEW used \in BOOLEAN,
         cachedCwd' = fs_get_cached_cwd(used).cwd, dirCache' = fs_get_cached_cwd(used).cache
  PROVE  CacheTrue' /\ cachedCwd' \in {cachedCwd, fsCwd} /\ (used => cachedCwd' = fsCwd)
<1>1. CASE used /\ cachedCwd # fsCwd
  <2>1. cachedCwd' = fsCwd /\ dirCache' = <<>>
    BY <1>1 DEF fs_get_cached_cwd
  <2> QED BY <2>1, EmptySeq DEF CacheTrue
<1>2. CASE ~(used /\ cachedCwd # fsCwd)
  <2>1. cachedCwd' = cachedCwd /\ dirCache' = dirCache
    BY <1>2 DEF fs_get_cached_cwd
  <2> QED BY <1>2, <2>1 DEF FsIInv, CacheTrue, RealDir
<1> QED BY <1>1, <1>2

\* A step of t that keeps to the environment and the cache keeps the others' state.
FsAlone(t) ==
  /\ FsStill /\ cachedCwd' \in {cachedCwd, fsCwd}
  /\ \E l : fpc' = [fpc EXCEPT ![t] = l]
  /\ \E c : floc' = [floc EXCEPT ![t] = c]

(* A step of one thread that does not end its call keeps the invariant. *)
LEMMA FsStep ==
  ASSUME FsIInv, NEW t \in FsThreads, FsAlone(t), CacheTrue',
         fpc'[t] \in FsPcs, floc'[t] \in FsLocs, FsWalk(t)',
         fpc'[t] \notin {"done", "refused"}
  PROVE  FsIInv'
<1>1. /\ FsTypeOK
      /\ \A u \in FsThreads \ {t} : fpc'[u] = fpc[u] /\ floc'[u] = floc[u]
  BY DEF FsIInv, FsTypeOK, FsAlone
<1>2. FsTypeOK'
  BY <1>1 DEF FsTypeOK, FsAlone, FsStill
<1>3. ASSUME NEW u \in FsThreads \ {t} PROVE FsWalk(u)'
  <2>1. FsWalk(u)
    BY DEF FsIInv
  <2>2. cachedCwd = fsCwd => cachedCwd' = fsCwd'
    BY DEF FsAlone, FsStill
  <2> QED BY <1>1, <2>1, <2>2, StillDecides DEF FsWalk, FsAlone, FsStill
<1>4. FsVerdictExact'
  BY <1>1, StillDecides DEF FsIInv, FsVerdictExact, FsAlone, FsStill
<1> QED BY <1>2, <1>3, <1>4 DEF FsIInv

(* A call starts with the whole list before it. *)
LEMMA FsCallStep ==
  ASSUME FsIInv, NEW t \in FsThreads, NEW kind \in {"read", "write"}, NEW p \in FilePaths, FsCall(t, kind, p)
  PROVE  FsIInv'
<1> DEFINE dir == RealDir(p.dir, fsCwd)
           open == fs_jail_disabled \/ (kind = "read" /\ dir = "/proc/self")
           try == IF open THEN <<>> ELSE IF kind = "read" THEN ReadList ELSE WriteList
           used == p.rel /\ try # <<>>
           c == [kind |-> kind, dir |-> dir, policy |-> p.policy, try |-> try, ok |-> open]
<1>1. /\ FsStill
      /\ cachedCwd' = fs_get_cached_cwd(used).cwd /\ dirCache' = fs_get_cached_cwd(used).cache
      /\ floc' = [floc EXCEPT ![t] = c]
      /\ fpc' = [fpc EXCEPT ![t] = IF open \/ try = <<>> THEN "judged" ELSE "lookup"]
  BY DEF FsCall, FsStill
<1>2. FsTypeOK /\ fsEnv.nojail \in BOOLEAN /\ p.policy \in BOOLEAN /\ p.rel \in BOOLEAN /\ dir \in FsNames
  BY FsNamesAre DEF FsIInv, FsTypeOK, FilePaths, RealDir, Cwds, OutOf
<1>3. open \in BOOLEAN /\ used \in BOOLEAN
  BY <1>2 DEF fs_jail_disabled
<1>4. CacheTrue' /\ cachedCwd' \in {cachedCwd, fsCwd}
  BY <1>1, <1>3, RefreshTrue
<1>5. try \in Seq(FsNames) /\ (open => try = <<>> /\ MayTouch(kind, dir))
      /\ (~open => (MayTouch(kind, dir) <=> Reaches(dir, try)))
  <2>1. CASE open
    BY <2>1, EmptySeq DEF MayTouch, fs_jail_disabled
  <2>2. CASE ~open
    BY <1>2, <2>2, ReadDecides, WriteDecides DEF fs_jail_disabled
  <2> QED BY <2>1, <2>2
<1> HIDE DEF try, open, used, dir
<1>6. fpc'[t] = (IF open \/ try = <<>> THEN "judged" ELSE "lookup") /\ floc'[t] = c
  BY <1>1, <1>2 DEF FsTypeOK
<1>7. c \in FsLocs
  BY <1>2, <1>3, <1>5 DEF FsLocs
<1>8. c.kind = kind /\ c.dir = dir /\ c.try = try /\ c.ok = open
  OBVIOUS
<1>9. FsAlone(t)
  BY <1>1, <1>4, Zenon DEF FsAlone
<1> HIDE DEF c
<1>10. FsWalk(t)'
  <2>1. CASE open \/ try = <<>>
    <3>1. fpc'[t] = "judged" /\ floc'[t] = c /\ (open <=> MayTouch(kind, dir))
      BY <1>3, <1>5, <1>6, <2>1, ReachesNone
    <3> QED BY <1>1, <1>8, <3>1, StillDecides DEF FsWalk
  <2>2. CASE ~open /\ try # <<>>
    <3>1. fpc'[t] = "lookup" /\ floc'[t] = c /\ (MayTouch(kind, dir) <=> Reaches(dir, try))
      BY <1>5, <1>6, <2>2
    <3> QED BY <1>1, <1>8, <2>2, <3>1, StillDecides DEF FsWalk
  <2> QED BY <2>1, <2>2
<1> QED BY <1>4, <1>6, <1>7, <1>9, <1>10, FsStep DEF FsPcs

(* Going on to the next directory keeps what is left of the walk decisive. *)
LEMMA FsGoOn ==
  ASSUME FsIInv, NEW t \in FsThreads, fpc[t] \in {"lookup", "miss"}, Head(floc[t].try) # "",
         NEW rd, rd = RealDir(Head(floc[t].try), fsCwd), path_under_dir_one(t, rd), FsStill,
         CacheTrue', cachedCwd' \in {cachedCwd, fsCwd}
  PROVE  FsIInv'
<1> DEFINE c == floc[t]
           rest == Tail(c.try)
           ok == Under(c.dir, rd)
           d == [c EXCEPT !.try = IF ok THEN <<>> ELSE rest, !.ok = ok]
<1>1. FsTypeOK /\ FsWalk(t) /\ c \in FsLocs /\ c.try \in Seq(FsNames) /\ c.try # <<>>
  BY DEF FsIInv, FsTypeOK, FsLocs, FsWalk
<1>2. /\ floc' = [floc EXCEPT ![t] = d]
      /\ fpc' = [fpc EXCEPT ![t] = IF ok \/ rest = <<>> THEN "judged" ELSE "lookup"]
  BY <1>1 DEF path_under_dir_one, FsTypeOK
<1>3. ok \in BOOLEAN /\ rest \in Seq(FsNames)
      /\ (Reaches(c.dir, c.try) <=> ok \/ Reaches(c.dir, rest))
  BY <1>1, ReachesRest DEF Under
<1> HIDE DEF ok, rest
<1>4. fpc'[t] = (IF ok \/ rest = <<>> THEN "judged" ELSE "lookup") /\ floc'[t] = d
  BY <1>1, <1>2 DEF FsTypeOK
<1>5. d \in FsLocs
  BY <1>1, <1>3, EmptySeq DEF FsLocs
<1>6. d.kind = c.kind /\ d.dir = c.dir /\ d.try = (IF ok THEN <<>> ELSE rest) /\ d.ok = ok
  BY <1>1 DEF FsLocs
<1> HIDE DEF d, c
<1>7. (MayTouch(c.kind, c.dir) <=> ok \/ Reaches(c.dir, rest)) /\ c.kind \in {"read", "write"}
  BY <1>1, <1>3 DEF FsWalk, c
<1>8. FsWalk(t)'
  BY <1>3, <1>4, <1>6, <1>7, StillDecides, ReachesNone DEF FsWalk
<1>9. FsAlone(t)
  BY <1>2, Zenon DEF FsAlone
<1> QED BY <1>4, <1>5, <1>8, <1>9, FsStep DEF FsPcs

(* An empty entry admits nothing, so passing over it changes no verdict. *)
LEMMA FsSkipStep ==
  ASSUME FsIInv, NEW t \in FsThreads, FsSkip(t)
  PROVE  FsIInv'
<1> DEFINE c == floc[t]
           rest == Tail(c.try)
           d == [c EXCEPT !.try = rest]
<1>1. FsTypeOK /\ FsWalk(t) /\ c \in FsLocs /\ c.try \in Seq(FsNames) /\ c.try # <<>> /\ ~c.ok /\ FsStill
  BY DEF FsIInv, FsTypeOK, FsLocs, FsWalk, FsSkip, FsStill
<1>2. /\ floc' = [floc EXCEPT ![t] = d]
      /\ fpc' = [fpc EXCEPT ![t] = IF rest = <<>> THEN "judged" ELSE "lookup"]
      /\ cachedCwd' = cachedCwd /\ dirCache' = dirCache /\ fpc[t] = "lookup" /\ Head(c.try) = ""
  BY <1>1 DEF FsSkip, FsTypeOK
<1>3. rest \in Seq(FsNames) /\ (Reaches(c.dir, c.try) <=> Reaches(c.dir, rest))
  BY <1>1, <1>2, ReachesRest
<1> HIDE DEF rest
<1>4. fpc'[t] = (IF rest = <<>> THEN "judged" ELSE "lookup") /\ floc'[t] = d
  BY <1>1, <1>2 DEF FsTypeOK
<1>5. d \in FsLocs /\ d.kind = c.kind /\ d.dir = c.dir /\ d.try = rest /\ d.ok = c.ok
  BY <1>1, <1>3 DEF FsLocs
<1> HIDE DEF d, c
<1>6. (MayTouch(c.kind, c.dir) <=> Reaches(c.dir, rest)) /\ c.kind \in {"read", "write"}
  BY <1>1, <1>2, <1>3 DEF FsWalk, c
<1>7. FsWalk(t)'
  BY <1>1, <1>4, <1>5, <1>6, StillDecides, ReachesNone DEF FsWalk
<1>8. CacheTrue'
  BY <1>1, <1>2 DEF FsIInv, CacheTrue, RealDir, FsStill
<1>9. FsAlone(t)
  <2>1. cachedCwd' \in {cachedCwd, fsCwd}
    BY <1>2
  <2> QED BY <1>1, <1>2, <2>1, Zenon DEF FsAlone
<1> QED BY <1>4, <1>5, <1>7, <1>8, <1>9, FsStep DEF FsPcs

(* A hit of the refreshed cache is the directory its name resolves to. *)
LEMMA FsLookupStep ==
  ASSUME FsIInv, NEW t \in FsThreads, FsLookup(t)
  PROVE  FsIInv'
<1> DEFINE d == Head(floc[t].try)
           at == fs_get_cached_cwd(d = "out")
<1>1. /\ FsStill /\ cachedCwd' = at.cwd /\ dirCache' = at.cache /\ fpc[t] = "lookup" /\ d # ""
      /\ IF d \in DOMAIN at.cache THEN path_under_dir_one(t, at.cache[d])
         ELSE fpc' = [fpc EXCEPT ![t] = "miss"] /\ floc' = floc
  BY DEF FsLookup, FsStill
<1> HIDE DEF at
<1>2. CacheTrue' /\ cachedCwd' \in {cachedCwd, fsCwd} /\ (d = "out" => cachedCwd' = fsCwd)
  BY <1>1, RefreshTrue, (d = "out") \in BOOLEAN DEF at
<1>3. CASE d \in DOMAIN at.cache
  <2>1. at.cache[d] = RealDir(d, fsCwd)
    BY <1>1, <1>2, <1>3 DEF CacheTrue, RealDir
  <2> QED BY <1>1, <1>2, <1>3, <2>1, FsGoOn
<1>4. CASE d \notin DOMAIN at.cache
  <2>1. FsTypeOK /\ FsWalk(t) /\ floc[t] \in FsLocs
    BY DEF FsIInv, FsTypeOK
  <2>2. fpc'[t] = "miss" /\ floc' = floc /\ fpc' = [fpc EXCEPT ![t] = "miss"]
    BY <1>1, <1>4, <2>1 DEF FsTypeOK
  <2>3. FsWalk(t)'
    BY <1>1, <1>2, <2>1, <2>2, StillDecides DEF FsWalk, FsStill
  <2>4. floc' = [floc EXCEPT ![t] = floc[t]]
    BY <2>1, <2>2 DEF FsTypeOK
  <2> QED BY <1>1, <1>2, <2>1, <2>2, <2>3, <2>4, FsStep DEF FsAlone, FsPcs
<1> QED BY <1>3, <1>4

(* What is inserted after a miss was resolved from the directory of the cache. *)
LEMMA FsInsertStep ==
  ASSUME FsIInv, NEW t \in FsThreads, FsInsert(t)
  PROVE  FsIInv'
<1> DEFINE d == Head(floc[t].try)
           rd == IF d \in DOMAIN dirCache THEN dirCache[d] ELSE RealDir(d, fsCwd)
<1>1. /\ FsStill /\ cachedCwd' = cachedCwd /\ fpc[t] = "miss" /\ path_under_dir_one(t, rd)
      /\ dirCache' = dirCache \/ dirCache' = [x \in {d} \cup DOMAIN dirCache |-> IF x = d THEN rd ELSE dirCache[x]]
  BY DEF FsInsert, FsStill
<1>2. FsWalk(t) /\ d # "" /\ (d = "out" => cachedCwd = fsCwd) /\ CacheTrue
  BY <1>1 DEF FsIInv, FsWalk
<1>3. rd = RealDir(d, fsCwd) /\ rd = RealDir(d, cachedCwd)
  BY <1>2 DEF CacheTrue, RealDir
<1> HIDE DEF rd
<1>4. CacheTrue'
  <2>1. CASE dirCache' = dirCache
    <3>1. cachedCwd' = cachedCwd
      BY <1>1
    <3> QED BY <1>2, <2>1, <3>1 DEF CacheTrue, RealDir
  <2>2. CASE dirCache' = [x \in {d} \cup DOMAIN dirCache |-> IF x = d THEN rd ELSE dirCache[x]]
    <3>1. DOMAIN dirCache' = {d} \cup DOMAIN dirCache
          /\ \A x \in {d} \cup DOMAIN dirCache : dirCache'[x] = IF x = d THEN rd ELSE dirCache[x]
      BY <2>2
    <3>2. d = "out" => cachedCwd \in Cwds
      BY <1>2 DEF FsIInv, FsTypeOK
    <3> QED BY <1>1, <1>2, <1>3, <3>1, <3>2 DEF CacheTrue, RealDir
  <2> QED BY <1>1, <2>1, <2>2
<1> QED BY <1>1, <1>2, <1>3, <1>4, FsGoOn

(* A call ends with the verdict of the walk. *)
LEMMA FsEndStep ==
  ASSUME FsIInv, NEW t \in FsThreads, FsFinish(t) \/ FsReturn(t)
  PROVE  FsIInv'
<1>1. FsTypeOK /\ FsStill /\ cachedCwd' = cachedCwd /\ dirCache' = dirCache
      /\ CacheTrue /\ FsWalk(t) /\ fsEnv.polw \in BOOLEAN /\ floc[t] \in FsLocs
  BY DEF FsIInv, FsTypeOK, FsFinish, FsReturn, FsStill
<1>2. CacheTrue'
  BY <1>1 DEF CacheTrue, RealDir
<1>3. CASE FsReturn(t)
  <2>1. floc' = [floc EXCEPT ![t] = NoCall] /\ fpc' = [fpc EXCEPT ![t] = "idle"]
    BY <1>3 DEF FsReturn
  <2>2. fpc'[t] = "idle" /\ floc'[t] \in FsLocs
    BY <1>1, <2>1, FsNamesAre, EmptySeq DEF FsTypeOK, FsLocs, NoCall
  <2>3. FsWalk(t)'
    BY <2>2 DEF FsWalk
  <2> QED BY <1>1, <1>2, <2>1, <2>2, <2>3, FsStep DEF FsAlone, FsPcs
<1>4. CASE FsFinish(t)
  <2>1. /\ fpc[t] = "judged" /\ floc' = floc
        /\ fpc' = [fpc EXCEPT ![t] =
             IF floc[t].ok /\ ~(floc[t].kind = "write" /\ floc[t].policy /\ ~fsEnv.polw) THEN "done" ELSE "refused"]
    BY <1>4 DEF FsFinish, policy_locked
  <2>2. floc[t].kind \in {"read", "write"} /\ (floc[t].ok <=> MayTouch(floc[t].kind, floc[t].dir))
    BY <1>1, <2>1 DEF FsWalk
  <2>3. FsTypeOK'
    BY <1>1, <2>1 DEF FsTypeOK, FsStill, FsPcs
  <2>4. \A u \in FsThreads : FsWalk(u)'
    BY <1>1, <2>1, <2>2, StillDecides DEF FsIInv, FsTypeOK, FsWalk, FsStill
  <2>5. ASSUME NEW u \in FsThreads
        PROVE  /\ fpc'[u] = "done" => /\ MayTouch(floc[u].kind, floc[u].dir)
                                      /\ floc[u].kind = "write" /\ floc[u].policy => fsEnv.polw
               /\ fpc'[u] = "refused" => \/ ~MayTouch(floc[u].kind, floc[u].dir)
                                         \/ floc[u].kind = "write" /\ floc[u].policy /\ ~fsEnv.polw
    BY <1>1, <2>1, <2>2 DEF FsIInv, FsTypeOK, FsVerdictExact
  <2>6. FsVerdictExact'
    BY <1>1, <2>1, <2>5, StillDecides DEF FsVerdictExact, FsStill
  <2> QED BY <1>2, <2>3, <2>4, <2>6 DEF FsIInv
<1> QED BY <1>3, <1>4

(* The program moves or changes the environment only between the calls of its threads. *)
LEMMA FsMoveStep ==
  ASSUME FsIInv, TuiCd \/ TuiSetEnv
  PROVE  FsIInv'
<1>1. /\ cachedCwd' = cachedCwd /\ dirCache' = dirCache /\ fpc' = fpc /\ floc' = floc
      /\ \A t \in FsThreads : fpc[t] = "idle"
  BY DEF TuiCd, TuiSetEnv, AllIdle
<1>2. FsTypeOK'
  BY <1>1, EnvDirs DEF FsIInv, FsTypeOK, TuiCd, TuiSetEnv
<1>3. CacheTrue'
  BY <1>1 DEF FsIInv, CacheTrue, RealDir
<1> QED BY <1>1, <1>2, <1>3 DEF FsIInv, FsWalk, FsVerdictExact

(***************************************************************************)
(* A file operation goes through exactly when the environment and the      *)
(* working directory allow it, for any lists of directories, any size of   *)
(* the cache of resolved directories (fs_lowlevel.c) and any number of     *)
(* threads that share it.                                                  *)
(***************************************************************************)
THEOREM VerdictCorrect == FsSpec => []FsVerdictExact
<1>1. FsInit => FsIInv
  <2> SUFFICES ASSUME FsInit PROVE FsIInv
    OBVIOUS
  <2>1. FsTypeOK
    BY EnvDirs, FsNamesAre, EmptySeq DEF FsInit, FsTypeOK, FsPcs, FsLocs, NoCall
  <2>2. CacheTrue
    BY EmptySeq DEF FsInit, CacheTrue
  <2> QED BY <2>1, <2>2 DEF FsInit, FsIInv, FsWalk, FsVerdictExact
<1>2. FsIInv /\ [FsNext]_fsVars => FsIInv'
  <2> SUFFICES ASSUME FsIInv, [FsNext]_fsVars PROVE FsIInv'
    OBVIOUS
  <2>1. ASSUME NEW t \in FsThreads, NEW p \in FilePaths,
               \/ oo_read_file(t, p) \/ oo_path_exists(t, p) \/ oo_fs_read_dir(t, p)
               \/ oo_write_file(t, p) \/ oo_file_append_sync(t, p) \/ oo_fs_remove(t, p) \/ oo_fs_mkdir(t, p)
        PROVE  FsIInv'
    BY <2>1, FsCallStep DEF oo_read_file, oo_path_exists, oo_fs_read_dir, oo_write_file,
                            oo_file_append_sync, oo_fs_remove, oo_fs_mkdir
  <2>2. ASSUME NEW t \in FsThreads, FsSkip(t) \/ FsLookup(t) \/ FsInsert(t) \/ FsFinish(t) \/ FsReturn(t)
        PROVE  FsIInv'
    BY <2>2, FsSkipStep, FsLookupStep, FsInsertStep, FsEndStep
  <2>3. CASE UNCHANGED fsVars
    <3>1. FsStill /\ cachedCwd' = cachedCwd /\ dirCache' = dirCache /\ fpc' = fpc /\ floc' = floc
      BY <2>3 DEF fsVars, FsStill
    <3>2. FsTypeOK' /\ CacheTrue'
      BY <3>1 DEF FsIInv, FsTypeOK, CacheTrue, RealDir, FsStill
    <3>3. (\A t \in FsThreads : FsWalk(t)') /\ FsVerdictExact'
      BY <3>1, StillDecides DEF FsIInv, FsWalk, FsVerdictExact, FsStill
    <3> QED BY <3>2, <3>3 DEF FsIInv
  <2> QED BY <2>1, <2>2, <2>3, FsMoveStep DEF FsNext
<1> QED BY <1>1, <1>2, PTL DEF FsSpec, FsIInv


(***************************************************************************)
(* Path capabilities.                                                      *)
(***************************************************************************)
\* Whatever was derived last lies below every capability it came from.
PathNested ==
  /\ chain \in Seq(PathStrings \cup {Empty})
  /\ chain # <<>> /\ Last(chain) # Empty =>
       \A i \in DOMAIN chain : oo_path_prefix_nests(chain[i], Last(chain))

(* Paths are nonempty sequences of characters. *)
LEMMA PathsAre ==
  \A p \in PathStrings : /\ p \in Seq(PathChars) /\ Len(p) \in Nat /\ Len(p) > 0 /\ p # Empty
                         /\ DOMAIN p = 1 .. Len(p)
<1> SUFFICES ASSUME NEW p \in PathStrings
             PROVE  p \in Seq(PathChars) /\ Len(p) \in Nat /\ Len(p) > 0 /\ p # Empty /\ DOMAIN p = 1 .. Len(p)
  OBVIOUS
<1>1. PICK n \in 1 .. MaxPath : p \in [1 .. n -> PathChars]
  BY PathAssumption DEF PathStrings
<1>2. n \in Nat /\ n > 0
  BY <1>1, PathAssumption
<1>3. p \in Seq(PathChars)
  BY <1>1, <1>2, SeqDef
<1>4. DOMAIN p = 1 .. Len(p) /\ Len(p) \in Nat
  BY <1>3, LenProperties
<1>5. Len(p) = n
  BY <1>1, <1>2, <1>4
<1> QED BY <1>2, <1>3, <1>4, <1>5, EmptySeq DEF Empty

(* A prefix agrees with the path as far as it goes. *)
LEMMA PrefixAgrees ==
  ASSUME NEW E, NEW q \in Seq(E), NEW p \in Seq(E)
  PROVE  IsPrefix(q, p) <=> Len(q) =< Len(p) /\ \A i \in 1 .. Len(q) : q[i] = p[i]
<1> DEFINE a == SubSeq(q, 1, Len(q))
           b == SubSeq(p, 1, Len(q))
<1>1. Len(q) \in Nat /\ Len(p) \in Nat /\ (\A i \in 1 .. Len(q) : q[i] \in E) /\ \A i \in 1 .. Len(p) : p[i] \in E
  BY LenProperties, ElementOfSeq
<1>2. CASE Len(q) =< Len(p)
  <2>1. \A i \in 1 .. Len(q) : p[i] \in E
    BY <1>1, <1>2
  <2>2. a \in Seq(E) /\ Len(a) = Len(q) /\ \A i \in 1 .. Len(q) : a[i] = q[i]
    BY <1>1, SubSeqProperties
  <2>3. b \in Seq(E) /\ Len(b) = Len(q) /\ \A i \in 1 .. Len(q) : b[i] = p[i]
    BY <1>1, <2>1, SubSeqProperties
  <2> HIDE DEF a, b
  <2>4. a = b <=> \A i \in 1 .. Len(q) : a[i] = b[i]
    BY <2>2, <2>3, SeqEqual
  <2> QED BY <1>2, <2>2, <2>3, <2>4 DEF IsPrefix, a, b
<1>3. CASE ~(Len(q) =< Len(p))
  BY <1>3 DEF IsPrefix
<1> QED BY <1>2, <1>3

(* What the nesting test compares, character by character. *)
LEMMA NestsMeans ==
  ASSUME NEW q \in PathStrings, NEW p \in PathStrings
  PROVE  oo_path_prefix_nests(q, p) <=>
           /\ q[1] = "/" /\ p[1] = "/"
           /\ \/ Len(q) = 1
              \/ /\ Len(q) =< Len(p) /\ \A i \in 1 .. Len(q) : q[i] = p[i]
                 /\ Len(p) = Len(q) \/ p[Len(q) + 1] = "/"
<1>1. p \in Seq(PathChars) /\ q \in Seq(PathChars) /\ p # Empty /\ q # Empty
  BY PathsAre
<1>2. IsPrefix(q, p) <=> Len(q) =< Len(p) /\ \A i \in 1 .. Len(q) : q[i] = p[i]
  BY <1>1, PrefixAgrees
<1> QED BY <1>1, <1>2 DEF oo_path_prefix_nests

(* Nesting is transitive: a capability derived twice lies below the first. *)
LEMMA NestsTransitive ==
  ASSUME NEW a \in PathStrings, NEW b \in PathStrings, NEW p \in PathStrings,
         oo_path_prefix_nests(a, b), oo_path_prefix_nests(b, p)
  PROVE  oo_path_prefix_nests(a, p)
<1>1. Len(a) \in Nat /\ Len(b) \in Nat /\ Len(p) \in Nat /\ Len(a) > 0 /\ Len(b) > 0 /\ Len(p) > 0
  BY PathsAre
<1>2. a[1] = "/" /\ p[1] = "/"
  BY NestsMeans
<1>3. CASE Len(a) = 1
  BY <1>2, <1>3, NestsMeans
<1>4. CASE Len(a) # 1
  <2>1. /\ Len(a) =< Len(b) /\ \A i \in 1 .. Len(a) : a[i] = b[i]
        /\ Len(b) = Len(a) \/ b[Len(a) + 1] = "/"
    BY <1>4, NestsMeans
  <2>2. /\ Len(b) =< Len(p) /\ \A i \in 1 .. Len(b) : b[i] = p[i]
        /\ Len(p) = Len(b) \/ p[Len(b) + 1] = "/"
    BY <1>1, <1>4, <2>1, NestsMeans
  <2>3. \A i \in 1 .. Len(a) : a[i] = p[i]
    BY <1>1, <2>1, <2>2
  <2>4. Len(p) = Len(a) \/ p[Len(a) + 1] = "/"
    <3>1. CASE Len(b) = Len(a)
      BY <2>2, <3>1
    <3>2. CASE Len(b) # Len(a)
      BY <1>1, <2>1, <2>2, <3>2
    <3> QED BY <3>1, <3>2
  <2> QED BY <1>1, <1>2, <2>1, <2>2, <2>3, <2>4, NestsMeans
<1> QED BY <1>3, <1>4

(* In a finite set of naturals every rank is taken, by one element. *)
LEMMA Ranks ==
  ASSUME NEW T \in SUBSET Nat, IsFiniteSet(T)
  PROVE  /\ \A n \in 1 .. Cardinality(T) : \E i \in T : Cardinality({k \in T : k < i}) = n - 1
         /\ \A i, j \in T : Cardinality({k \in T : k < i}) = Cardinality({k \in T : k < j}) => i = j
<1> DEFINE B(i) == {k \in T : k < i}
           N == Cardinality(T)
           f == [i \in T |-> Cardinality(B(i))]
<1>1. N \in Nat
  BY FS_CardinalityType
<1>2. ASSUME NEW i \in T PROVE IsFiniteSet(B(i)) /\ Cardinality(B(i)) \in Nat /\ Cardinality(B(i)) < N
  <2>1. B(i) \in SUBSET T /\ B(i) # T
    OBVIOUS
  <2>2. IsFiniteSet(B(i)) /\ Cardinality(B(i)) =< N /\ Cardinality(B(i)) # N
    BY <2>1, FS_Subset
  <2>3. Cardinality(B(i)) \in Nat
    BY <2>2, FS_CardinalityType
  <2> QED BY <1>1, <2>2, <2>3
<1>3. ASSUME NEW i \in T, NEW j \in T, i < j PROVE Cardinality(B(i)) # Cardinality(B(j))
  <2>0. i \in Nat /\ j \in Nat /\ \A k \in T : k \in Nat
    OBVIOUS
  <2>1. B(i) \in SUBSET B(j) /\ i \in B(j) /\ i \notin B(i)
    <3>1. ~(i < i) /\ \A k \in T : k < i => k < j
      BY <1>3, <2>0
    <3> QED BY <1>3, <3>1, Zenon
  <2> HIDE DEF B
  <2> QED BY <1>2, <2>1, FS_Subset
<1>4. \A i, j \in T : Cardinality(B(i)) = Cardinality(B(j)) => i = j
  <2> SUFFICES ASSUME NEW i \in T, NEW j \in T, Cardinality(B(i)) = Cardinality(B(j)) PROVE i = j
    OBVIOUS
  <2>1. i \in Nat /\ j \in Nat
    OBVIOUS
  <2> HIDE DEF B
  <2> QED BY <1>3, <2>1
<1>5. f \in Injection(T, 0 .. N - 1)
  <2> HIDE DEF B
  <2>1. f \in [T -> 0 .. N - 1]
    BY <1>1, <1>2
  <2> QED BY <1>4, <2>1 DEF Injection, IsInjective
<1>6. IsFiniteSet(0 .. N - 1) /\ Cardinality(0 .. N - 1) = N
  <2> HIDE DEF N
  <2>1. N - 1 \in Int /\ 0 \in Int
    BY <1>1
  <2>2. IsFiniteSet(0 .. N - 1) /\ Cardinality(0 .. N - 1) = IF 0 > N - 1 THEN 0 ELSE (N - 1) - 0 + 1
    BY <2>1, FS_Interval
  <2> QED BY <1>1, <2>2
<1>7. f \in Surjection(T, 0 .. N - 1)
  BY <1>5, <1>6, FS_Injection
<1>8. ASSUME NEW n \in 1 .. N PROVE \E i \in T : Cardinality(B(i)) = n - 1
  <2>1. n - 1 \in 0 .. N - 1
    BY <1>1
  <2> HIDE DEF B
  <2>2. PICK i \in T : f[i] = n - 1
    BY <1>7, <2>1 DEF Surjection
  <2> QED BY <2>2
<1> QED BY <1>4, <1>8

(* The components of a prefix that ends where a component ends are the first of the path. *)
LEMMA NestedStarts ==
  ASSUME NEW q \in PathStrings, NEW p \in PathStrings,
         Len(q) =< Len(p), \A i \in 1 .. Len(q) : q[i] = p[i],
         Len(p) = Len(q) \/ p[Len(q) + 1] = "/"
  PROVE  /\ Starts(q) = {i \in Starts(p) : i =< Len(q)}
         /\ \A i \in Starts(q) : EndOf(q, i) = EndOf(p, i) /\ EndOf(q, i) \in i .. Len(q)
<1>1. Len(q) \in Nat /\ Len(p) \in Nat /\ Len(q) > 0
  BY PathsAre
<1>2. ASSUME NEW i \in 1 .. Len(q) PROVE i \in Starts(q) <=> i \in Starts(p)
  <2>1. i \in 1 .. Len(p) /\ q[i] = p[i] /\ (i # 1 => q[i - 1] = p[i - 1])
    BY <1>1
  <2> QED BY <2>1 DEF Starts
<1>3. Starts(q) = {i \in Starts(p) : i =< Len(q)}
  <2>1. \A i \in Starts(q) : i \in 1 .. Len(q)
    BY DEF Starts
  <2>2. \A i \in Starts(p) : i =< Len(q) => i \in 1 .. Len(q)
    BY <1>1 DEF Starts
  <2>3. \A i \in 1 .. Len(q) : i =< Len(q)
    BY <1>1
  <2> QED BY <1>2, <2>1, <2>2, <2>3
<1>4. ASSUME NEW i \in Starts(q) PROVE EndOf(q, i) = EndOf(p, i) /\ EndOf(q, i) \in i .. Len(q)
  <2> DEFINE Q == {j \in i .. Len(q) : j = Len(q) \/ q[j + 1] = "/"}
             P == {j \in i .. Len(p) : j = Len(p) \/ p[j + 1] = "/"}
  <2>1. i \in 1 .. Len(q)
    BY DEF Starts
  <2>2. Q \in SUBSET Nat /\ P \in SUBSET Nat /\ Len(q) \in Q /\ Len(p) \in P
    BY <1>1, <2>1
  <2>3. Min(Q) \in Q /\ (\A j \in Q : Min(Q) =< j) /\ Min(P) \in P /\ \A j \in P : Min(P) =< j
    BY <2>2, MinProperties
  <2>4. \A j \in i .. Len(q) - 1 : q[j + 1] = p[j + 1] /\ j \in Nat /\ j < Len(q) /\ j \in i .. Len(q) /\ j \in i .. Len(p)
    BY <1>1, <2>1
  <2>5. \A j \in i .. Len(q) - 1 : j \in Q <=> j \in P
    <3> SUFFICES ASSUME NEW j \in i .. Len(q) - 1 PROVE j \in Q <=> j \in P
      OBVIOUS
    <3>1. j # Len(q) /\ j # Len(p)
      BY <1>1, <2>4
    <3> QED BY <2>4, <3>1
  <2>6. Len(q) \in P
    BY <1>1, <2>1
  <2> DEFINE m == Min(Q)
             n == Min(P)
  <2>7. m \in i .. Len(q) /\ m \in Q /\ n \in P /\ m \in Nat /\ n \in Nat /\ n =< Len(q) /\ m =< Len(q) /\ n >= i
    BY <1>1, <2>1, <2>2, <2>3, <2>6
  <2>8. \A j \in Nat : j >= i /\ j < Len(q) => j \in i .. Len(q) - 1
    BY <1>1, <2>1
  <2>9. (\A j \in Q : m =< j) /\ \A j \in P : n =< j
    BY <2>3
  <2> HIDE DEF m, n, P, Q
  <2>10. n =< m
    BY <1>1, <2>5, <2>6, <2>7, <2>8, <2>9
  <2>11. m =< n
    BY <1>1, <2>5, <2>2, <2>7, <2>8, <2>9
  <2> QED BY <2>7, <2>10, <2>11 DEF EndOf, m, n, P, Q
<1> QED BY <1>3, <1>4

(* A nested path has the components of the outer one first. *)
LEMMA NestedComponents ==
  ASSUME NEW q \in PathStrings, NEW p \in PathStrings, oo_path_prefix_nests(q, p)
  PROVE  IsPrefix(Components(q), Components(p))
<1>1. Len(q) \in Nat /\ Len(p) \in Nat /\ Len(q) > 0 /\ Len(p) > 0
  BY PathsAre
<1>2. ASSUME NEW r \in PathStrings PROVE Starts(r) \in SUBSET Nat /\ IsFiniteSet(Starts(r)) /\ Cardinality(Starts(r)) \in Nat
  <2>1. Starts(r) \in SUBSET (1 .. Len(r)) /\ Len(r) \in Nat
    BY PathsAre DEF Starts
  <2>2. IsFiniteSet(1 .. Len(r))
    BY <2>1, FS_Interval
  <2> QED BY <2>1, <2>2, FS_Subset, FS_CardinalityType
<1> DEFINE nq == Cardinality(Starts(q))
           np == Cardinality(Starts(p))
           all == {Components(q)[n] : n \in 1 .. nq} \cup {Components(p)[n] : n \in 1 .. np}
<1>3. Components(q) \in Seq(all) /\ Len(Components(q)) = nq /\ Components(p) \in Seq(all) /\ Len(Components(p)) = np
  <2>1. ASSUME NEW r \in {q, p}
        PROVE  Components(r) \in Seq(all) /\ Len(Components(r)) = Cardinality(Starts(r))
    <3> DEFINE n == Cardinality(Starts(r))
    <3>1. n \in Nat
      BY <1>2
    <3>2. Components(r) \in [1 .. n -> all]
      BY DEF Components
    <3> HIDE DEF n, all
    <3>3. Components(r) \in Seq(all)
      BY <3>1, <3>2, SeqDef
    <3>4. Len(Components(r)) = n
      BY <3>1, <3>2, <3>3, LenProperties
    <3> QED BY <3>3, <3>4 DEF n
  <2> QED BY <2>1
<1>4. CASE Len(q) = 1
  <2>1. q[1] = "/"
    BY NestsMeans
  <2>2. Starts(q) = {}
    BY <1>4, <2>1 DEF Starts
  <2>3. nq = 0
    BY <2>2, FS_EmptySet
  <2> HIDE DEF nq, np, all
  <2>4. Len(Components(q)) =< Len(Components(p)) /\ 1 .. Len(Components(q)) = {}
    BY <1>2, <1>3, <2>3 DEF np
  <2> QED BY <1>3, <2>4, PrefixAgrees
<1>5. CASE Len(q) # 1
  <2>1. /\ Len(q) =< Len(p) /\ \A i \in 1 .. Len(q) : q[i] = p[i]
        /\ Len(p) = Len(q) \/ p[Len(q) + 1] = "/"
    BY <1>5, NestsMeans
  <2>2. /\ Starts(q) = {i \in Starts(p) : i =< Len(q)}
        /\ \A i \in Starts(q) : EndOf(q, i) = EndOf(p, i) /\ EndOf(q, i) \in i .. Len(q)
    BY <2>1, NestedStarts
  <2>3. nq =< np /\ nq \in Nat /\ np \in Nat
    BY <1>2, <2>2, FS_Subset
  <2>4. \A i \in Starts(q) : {k \in Starts(q) : k < i} = {k \in Starts(p) : k < i}
    <3> SUFFICES ASSUME NEW i \in Starts(q) PROVE {k \in Starts(q) : k < i} = {k \in Starts(p) : k < i}
      OBVIOUS
    <3>1. i \in Nat /\ i =< Len(q) /\ \A k \in Starts(p) : k \in Nat
      BY <1>2, <2>2
    <3>2. \A k \in Starts(p) : k < i => k =< Len(q)
      BY <1>1, <3>1
    <3> QED BY <2>2, <3>2
  <2>5. ASSUME NEW n \in 1 .. nq PROVE Components(q)[n] = Components(p)[n]
    <3> DEFINE i == Place(q, n)
    <3>1. \E j \in Starts(q) : Cardinality({k \in Starts(q) : k < j}) = n - 1
      <4> DEFINE T == Starts(q)
      <4>1. T \in SUBSET Nat /\ IsFiniteSet(T) /\ n \in 1 .. Cardinality(T)
        BY <1>2
      <4> HIDE DEF T
      <4>2. \E j \in T : Cardinality({k \in T : k < j}) = n - 1
        BY <4>1, Ranks
      <4> QED BY <4>2 DEF T
    <3>2. i \in Starts(q) /\ Cardinality({k \in Starts(q) : k < i}) = n - 1
      BY <3>1 DEF Place
    <3> HIDE DEF i
    <3>3. i \in Starts(p) /\ Cardinality({k \in Starts(p) : k < i}) = n - 1
      BY <2>2, <2>4, <3>2
    <3>4. Place(p, n) \in Starts(p) /\ Cardinality({k \in Starts(p) : k < Place(p, n)}) = n - 1
      BY <3>3 DEF Place
    <3>5. Place(p, n) = i
      BY <1>2, <3>3, <3>4, Ranks
    <3> DEFINE e == EndOf(q, i)
    <3>6. e = EndOf(p, i) /\ e \in i .. Len(q) /\ i \in 1 .. Len(q)
      BY <2>2, <3>2 DEF Starts
    <3> HIDE DEF e
    <3>7. Between(q, i, e) = Between(p, i, e)
      <4>1. \A k \in 1 .. e - i + 1 : i + k - 1 \in 1 .. Len(q)
        BY <1>1, <3>6
      <4>2. \A k \in 1 .. e - i + 1 : q[i + k - 1] = p[i + k - 1]
        BY <2>1, <4>1
      <4> QED BY <4>2 DEF Between
    <3>8. n \in 1 .. np
      BY <2>3
    <3>9. Components(q)[n] = Between(q, i, e)
      BY DEF Components, i, e
    <3>10. Components(p)[n] = Between(p, i, e)
      BY <3>5, <3>6, <3>8 DEF Components
    <3> QED BY <3>7, <3>9, <3>10
  <2> HIDE DEF nq, np, all
  <2> QED BY <1>3, <2>3, <2>5, PrefixAgrees
<1> QED BY <1>4, <1>5

(***************************************************************************)
(* Deriving path capabilities (cap_attenuate_path.c) only narrows: what    *)
(* the last of a chain admits lies, component by component, in the         *)
(* directory it names, and every capability it was derived from admits it  *)
(* too, for paths and chains of any length.                                *)
(***************************************************************************)
THEOREM PathCorrect == AttSpec => []PathCapNarrows
<1>1. AttInit => PathNested
  BY EmptySeq DEF AttInit, PathNested
<1>2. PathNested /\ [AttNext]_attVars => PathNested'
  <2> DEFINE Names == PathStrings \cup {Empty}
  <2> SUFFICES ASSUME PathNested, [AttNext]_attVars PROVE PathNested'
    OBVIOUS
  <2>1. ASSUME NEW parents \in Seq(Names), NEW p \in Names, chain' = Append(parents, p),
               p # Empty => \A i \in DOMAIN parents : oo_path_prefix_nests(parents[i], p),
               p # Empty => oo_path_prefix_nests(p, p)
        PROVE  PathNested'
    <3>1. /\ chain' \in Seq(Names) /\ Len(chain') = Len(parents) + 1 /\ Len(parents) \in Nat
          /\ \A i \in 1 .. Len(parents) : chain'[i] = parents[i]
          /\ chain'[Len(parents) + 1] = p
      BY <2>1, AppendProperties, LenProperties
    <3>2. Last(chain') = p /\ DOMAIN chain' = 1 .. Len(parents) + 1 /\ DOMAIN parents = 1 .. Len(parents)
      BY <2>1, <3>1, LenProperties DEF Last
    <3>3. \A i \in 1 .. Len(parents) + 1 : i \in 1 .. Len(parents) \/ i = Len(parents) + 1
      BY <3>1
    <3>4. ASSUME NEW i \in DOMAIN chain', p # Empty PROVE oo_path_prefix_nests(chain'[i], p)
      BY <2>1, <3>1, <3>2, <3>3, <3>4
    <3>5. ASSUME Last(chain') # Empty, NEW i \in DOMAIN chain' PROVE oo_path_prefix_nests(chain'[i], Last(chain'))
      BY <3>2, <3>4, <3>5
    <3> QED BY <3>1, <3>5 DEF PathNested
  <2>2. ASSUME NEW p \in PathStrings, p[1] = "/" PROVE oo_path_prefix_nests(p, p)
    BY <2>2, PathsAre, NestsMeans
  <2>3. ASSUME NEW p \in PathStrings, chain = <<>>, oo_attenuate_fsread_to_path(<<>>, p)
        PROVE  PathNested'
    <3>1. chain' = Append(<<>>, p) /\ p[1] = "/"
      BY <2>3 DEF oo_attenuate_fsread_to_path
    <3>2. <<>> \in Seq(Names) /\ DOMAIN <<>> = {} /\ p \in Names
      BY EmptySeq
    <3> HIDE DEF Names
    <3> QED BY <2>1, <2>2, <3>1, <3>2
  <2>4. ASSUME NEW p \in PathStrings, oo_attenuate_pathcap_to_path(p)
        PROVE  PathNested'
    <3>1. chain \in Seq(Names) /\ chain # <<>> /\ p \in Names /\ Empty \in Names
      BY <2>4 DEF oo_attenuate_pathcap_to_path, PathNested
    <3>2. \A i \in DOMAIN chain : chain[i] \in Names
      BY <3>1, ElementOfSeq, LenProperties
    <3>3. Last(chain) \in Names
      BY <3>1, ElementOfSeq, LenProperties, EmptySeq DEF Last
    <3>4. CASE oo_path_cap_check(Last(chain), Last(chain)) /\ oo_path_prefix_nests(Last(chain), p)
      <4>1. chain' = Append(chain, p) /\ p[1] = "/" /\ Last(chain) # Empty
        BY <2>4, <3>4 DEF oo_attenuate_pathcap_to_path, oo_attenuate_fsread_to_path, oo_path_cap_check
      <4>2. Last(chain) \in PathStrings
        BY <3>3, <4>1
      <4>3. ASSUME NEW i \in DOMAIN chain PROVE oo_path_prefix_nests(chain[i], p)
        <5>1. oo_path_prefix_nests(chain[i], Last(chain))
          BY <3>1, <4>1 DEF PathNested
        <5>2. chain[i] \in PathStrings
          BY <3>2, <5>1 DEF oo_path_prefix_nests
        <5> QED BY <3>4, <4>2, <5>1, <5>2, NestsTransitive
      <4> HIDE DEF Names
      <4> QED BY <2>1, <2>2, <3>1, <4>1, <4>3
    <3>5. CASE ~(oo_path_cap_check(Last(chain), Last(chain)) /\ oo_path_prefix_nests(Last(chain), p))
      <4>1. chain' = Append(chain, Empty)
        BY <2>4, <3>5 DEF oo_attenuate_pathcap_to_path
      <4> HIDE DEF Names
      <4> QED BY <2>1, <3>1, <4>1
    <3> QED BY <3>4, <3>5
  <2>5. CASE UNCHANGED attVars
    BY <2>5 DEF attVars, PathNested
  <2> QED BY <2>3, <2>4, <2>5 DEF AttNext
<1>3. PathNested => PathCapNarrows
  <2> SUFFICES ASSUME PathNested, chain # <<>>, NEW p \in PathStrings, oo_path_cap_check(Last(chain), p)
               PROVE  /\ \A i \in DOMAIN chain : oo_path_cap_check(chain[i], p)
                      /\ IsPrefix(Components(Last(chain)), Components(p))
    BY DEF PathCapNarrows
  <2> DEFINE Names == PathStrings \cup {Empty}
  <2>1. chain \in Seq(Names) /\ Last(chain) # Empty /\ oo_path_prefix_nests(Last(chain), p)
    BY DEF PathNested, oo_path_cap_check
  <2>2. (\A i \in DOMAIN chain : chain[i] \in Names) /\ Last(chain) \in Names
    BY <2>1, ElementOfSeq, LenProperties, EmptySeq DEF Last
  <2>3. ASSUME NEW i \in DOMAIN chain PROVE oo_path_cap_check(chain[i], p)
    <3>1. oo_path_prefix_nests(chain[i], Last(chain))
      BY <2>1 DEF PathNested
    <3>2. chain[i] \in PathStrings /\ Last(chain) \in PathStrings /\ chain[i] # Empty
      BY <2>1, <2>2, <3>1 DEF oo_path_prefix_nests
    <3> QED BY <2>1, <3>1, <3>2, NestsTransitive DEF oo_path_cap_check
  <2> QED BY <2>1, <2>2, <2>3, NestedComponents
<1> QED BY <1>1, <1>2, <1>3, PTL DEF AttSpec

=============================================================================
