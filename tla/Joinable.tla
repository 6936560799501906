------------------------------ MODULE Joinable ------------------------------
(***************************************************************************)
(* Joinable threads under ThreadCap (app/actor/actor_thread.c): a table of *)
(* slots, each with a worker that waits on its condition variable until it *)
(* is told to stop.  Callers spawn and join by slot number, two may join   *)
(* the same slot, and a slot is used again.                                *)
(*                                                                         *)
(* g_thr_boot and each slot's mutex are explicit because a join keeps the  *)
(* first one while it waits for the worker to end.  The write of live in   *)
(* oo_thread_join is outside the slot's mutex, which the worker reads it   *)
(* under: the worker may see either value, here the one written.           *)
(* The worker's arena is in Arena; the one it creates is never destroyed,  *)
(* because its name does not start with "ar:".                             *)
(***************************************************************************)
EXTENDS Integers, FiniteSets

CONSTANTS Callers,
          JSlots,       \* OO_THREAD_SLOTS slots
          MaxSpawns,    \* bound: spawns of the run
          NoOne

ASSUME JoinAssumption ==
  JSlots \subseteq Nat /\ MaxSpawns \in Nat /\ NoOne \notin Callers

VARIABLES thrBoot,      \* the caller that holds g_thr_boot
          slotMu,       \* slot |-> who holds its mutex: "worker" or NoOne (a caller only within one step)
          live, stopReq,        \* the fields of a slot
          muReady,      \* slots whose mutex and condition variable are initialised
          worker,       \* slot |-> its thread: "none", "start", "wait", "woken", "run", "ended"
          jpc, jslot,   \* each caller's place, and the slot it spawns into or joins
          spawns        \* how many spawns there were (MaxSpawns)

joinVars == <<thrBoot, slotMu, live, stopReq, muReady, worker, jpc, jslot, spawns>>

JInit ==
  /\ thrBoot = NoOne /\ slotMu = [s \in JSlots |-> NoOne]
  /\ live = [s \in JSlots |-> FALSE] /\ stopReq = [s \in JSlots |-> FALSE]
  /\ muReady = {} /\ worker = [s \in JSlots |-> "none"]
  /\ jpc = [c \in Callers |-> "idle"] /\ jslot = [c \in Callers |-> 0]
  /\ spawns = 0

JGoto(c, l) == jpc' = [jpc EXCEPT ![c] = l]
-----------------------------------------------------------------------------
(* Callers. *)

\* thr_alloc_slot: the first slot that is not live.
FirstNotLive(s) == ~ live[s] /\ \A u \in JSlots : u < s => live[u]

\* oo_thread_spawn under g_thr_boot; no slot left: an error.
oo_thread_spawn(c) ==
  /\ jpc[c] = "idle" /\ thrBoot = NoOne /\ spawns < MaxSpawns
  /\ \/ (\A s \in JSlots : live[s]) /\ UNCHANGED joinVars
     \/ \E slot \in JSlots :
          /\ FirstNotLive(slot)
          /\ live' = [live EXCEPT ![slot] = TRUE]
          /\ stopReq' = [stopReq EXCEPT ![slot] = FALSE]
          /\ muReady' = muReady \cup {slot}
          /\ jslot' = [jslot EXCEPT ![c] = slot]
          /\ thrBoot' = c /\ JGoto(c, "create")
          /\ spawns' = spawns + 1
          /\ UNCHANGED <<slotMu, worker>>

\* pthread_create, which may fail: the slot is given back.
SpawnCreate(c) ==
  /\ jpc[c] = "create"
  /\ \/ worker' = [worker EXCEPT ![jslot[c]] = "start"] /\ UNCHANGED <<live, muReady>>
     \/ /\ live' = [live EXCEPT ![jslot[c]] = FALSE]
        /\ muReady' = muReady \ {jslot[c]}
        /\ UNCHANGED worker
  /\ thrBoot' = NoOne /\ JGoto(c, "idle")
  /\ UNCHANGED <<slotMu, stopReq, jslot, spawns>>

\* oo_thread_join: an empty slot is refused; otherwise on to the slot's mutex, g_thr_boot kept.
oo_thread_join(c, s) ==
  /\ jpc[c] = "idle" /\ thrBoot = NoOne /\ live[s]
  /\ thrBoot' = c
  /\ jslot' = [jslot EXCEPT ![c] = s]
  /\ JGoto(c, "lock")
  /\ UNCHANGED <<slotMu, live, stopReq, muReady, worker, spawns>>

\* Mutant: the condition is broadcast, and stop_req is forgotten.
JoinSignalNoStop(c) ==
  /\ jpc[c] = "lock" /\ slotMu[jslot[c]] = NoOne
  /\ worker' = [worker EXCEPT ![jslot[c]] = IF @ = "wait" THEN "woken" ELSE @]
  /\ JGoto(c, "live")
  /\ UNCHANGED <<stopReq, thrBoot, slotMu, live, muReady, jslot, spawns>>

\* stop_req is set and the worker woken under the slot's mutex.
JoinSignal(c) ==
  /\ jpc[c] = "lock" /\ slotMu[jslot[c]] = NoOne
  /\ stopReq' = [stopReq EXCEPT ![jslot[c]] = TRUE]
  /\ worker' = [worker EXCEPT ![jslot[c]] = IF @ = "wait" THEN "woken" ELSE @]
  /\ JGoto(c, "live")
  /\ UNCHANGED <<thrBoot, slotMu, live, muReady, jslot, spawns>>

JoinNotLive(c) ==
  /\ jpc[c] = "live"
  /\ live' = [live EXCEPT ![jslot[c]] = FALSE]
  /\ JGoto(c, "join")
  /\ UNCHANGED <<thrBoot, slotMu, stopReq, muReady, worker, jslot, spawns>>

\* Mutant: the mutex is destroyed without waiting for the worker.
JoinDoneEarly(c) ==
  /\ jpc[c] = "join"
  /\ worker' = [worker EXCEPT ![jslot[c]] = IF @ = "ended" THEN "none" ELSE @]
  /\ muReady' = muReady \ {jslot[c]}
  /\ thrBoot' = NoOne /\ JGoto(c, "idle")
  /\ UNCHANGED <<slotMu, live, stopReq, jslot, spawns>>

\* pthread_join returns when the worker has ended; the mutex and the condition go.
JoinDone(c) ==
  /\ jpc[c] = "join" /\ worker[jslot[c]] = "ended"
  /\ worker' = [worker EXCEPT ![jslot[c]] = "none"]
  /\ muReady' = muReady \ {jslot[c]}
  /\ thrBoot' = NoOne /\ JGoto(c, "idle")
  /\ UNCHANGED <<slotMu, live, stopReq, jslot, spawns>>
-----------------------------------------------------------------------------
(* oo_thread_worker: lock, test, wait, test again, end. *)

WorkerLock(s) ==
  /\ worker[s] \in {"start", "woken"} /\ slotMu[s] = NoOne
  /\ slotMu' = [slotMu EXCEPT ![s] = "worker"]
  /\ worker' = [worker EXCEPT ![s] = "run"]
  /\ UNCHANGED <<thrBoot, live, stopReq, muReady, jpc, jslot, spawns>>

WorkerTest(s) ==
  /\ worker[s] = "run"
  /\ slotMu' = [slotMu EXCEPT ![s] = NoOne]
  /\ worker' = [worker EXCEPT ![s] = IF ~ stopReq[s] /\ live[s] THEN "wait" ELSE "ended"]
  /\ UNCHANGED <<thrBoot, live, stopReq, muReady, jpc, jslot, spawns>>

CallerStep(c) == SpawnCreate(c) \/ JoinSignal(c) \/ JoinNotLive(c) \/ JoinDone(c)
WorkerStep(s) == WorkerLock(s) \/ WorkerTest(s)

JNext ==
  \/ \E c \in Callers : \/ oo_thread_spawn(c) \/ CallerStep(c)
                        \/ \E s \in JSlots : oo_thread_join(c, s)
  \/ \E s \in JSlots : WorkerStep(s)

(* A started call goes on and a runnable worker runs: the operating         *)
(* system's scheduling.                                                     *)
JFairness ==
  /\ \A c \in Callers : WF_joinVars(CallerStep(c))
  /\ \A s \in JSlots : WF_joinVars(WorkerStep(s))

JSpec == JInit /\ [][JNext]_joinVars /\ JFairness
-----------------------------------------------------------------------------
(* A worker never outlives its slot (actor_thread.c:142-153): while a       *)
(* worker runs or waits, its mutex and condition variable exist, and the    *)
(* slot is not handed to another spawn before its worker has been joined.   *)
WorkerKeepsSlot ==
  \A s \in JSlots :
    /\ worker[s] \notin {"none", "ended"} => s \in muReady
    /\ \A c \in Callers : jpc[c] = "create" /\ jslot[c] = s => worker[s] = "none"

(* Every join returns: the worker cannot miss the stop request, and holding *)
(* g_thr_boot while waiting for it blocks other callers only until it ends. *)
JoinEnds == \A c \in Callers : jpc[c] \in {"lock", "live", "join"} ~> jpc[c] = "idle"
=============================================================================
