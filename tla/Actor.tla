------------------------------- MODULE Actor -------------------------------
(***************************************************************************)
(* The OTP-style actors of app/actor/actor.c: a table of NSlots actors,    *)
(* each a mailbox and one worker thread that sleeps on a condition         *)
(* variable until it is told to stop.                                      *)
(*                                                                         *)
(* Every call holds the table lock g_act_boot from its first check to its  *)
(* return.  spawn, send and recv wait for nobody while they hold it, so    *)
(* each is one step; destroy and restart keep it while they wait in        *)
(* pthread_join for the worker, which only ever takes the actor's own      *)
(* mutex.  The section a worker runs between two waits is one step too.    *)
(* The mailbox is the ring that Channel models index by index; here it is  *)
(* the sequence of queued messages.                                        *)
(***************************************************************************)
EXTENDS Integers, Sequences, FiniteSetsExt

CONSTANTS Threads,    \* threads that call the API
          NSlots,     \* OO_ACTOR_SLOTS
          Depth,      \* OO_ACTOR_QDEPTH
          Msgs,       \* contents of messages
          MaxCopies,  \* bound: message copies allocated and not released
          MaxFails,   \* bound: pthread_create failures
          NoThread

ASSUME NSlotsAssumption == NSlots \in Nat \ {0}
ASSUME DepthAssumption  == Depth \in Nat \ {0}
ASSUME NoThreadAssumption == NoThread \notin Threads
ASSUME MaxFailsAssumption == MaxFails \in Nat

Slots == 0 .. NSlots - 1

VARIABLES live, running, stop_req,  \* flags of OoActor
          box,                      \* its mailbox
          wk,                       \* its worker thread
          woken,                    \* the worker's wait has been signalled
          mutex,                    \* its mutex is initialised
          boot,                     \* holder of g_act_boot
          pc, arg,                  \* where each caller is, and its actor
          once,                     \* g_otp_once
          sup, restarts,            \* callers in a supervise call; its restarts
          copies,                   \* message copies made by send, not released
          lost, fails               \* copies dropped by spawn; failed creates

slotVars == <<live, running, stop_req, box, wk, woken, mutex>>
callVars == <<boot, pc, arg>>
heapVars == <<copies, lost, fails>>
supVars  == <<once, sup, restarts>>
vars == <<slotVars, callVars, supVars, heapVars>>

WorkerStates == {"none", "start", "wait", "exit"}
CallStates   == {"idle", "destroy_join", "destroy", "restart_join", "restart", "supervise"}

TypeOK == /\ live \in [Slots -> BOOLEAN] /\ running \in [Slots -> BOOLEAN]
          /\ stop_req \in [Slots -> BOOLEAN]
          /\ box \in [Slots -> Seq(Msgs)] /\ \A s \in Slots : Len(box[s]) =< Depth
          /\ wk \in [Slots -> WorkerStates]
          /\ woken \in [Slots -> BOOLEAN] /\ mutex \in [Slots -> BOOLEAN]
          /\ boot \in Threads \cup {NoThread}
          /\ pc \in [Threads -> CallStates] /\ arg \in [Threads -> Slots]
          /\ once \in [Slots -> BOOLEAN]
          /\ sup \in SUBSET Threads /\ restarts \in [Slots -> Nat]
          /\ copies \in Int /\ lost \in Nat /\ fails \in 0 .. MaxFails

Init == /\ live = [s \in Slots |-> FALSE] /\ running = [s \in Slots |-> FALSE]
        /\ stop_req = [s \in Slots |-> FALSE]
        /\ box = [s \in Slots |-> << >>]
        /\ wk = [s \in Slots |-> "none"]
        /\ woken = [s \in Slots |-> FALSE] /\ mutex = [s \in Slots |-> FALSE]
        /\ boot = NoThread
        /\ pc = [t \in Threads |-> "idle"] /\ arg = [t \in Threads |-> 0]
        /\ once = [s \in Slots |-> FALSE]
        /\ sup = {} /\ restarts = [s \in Slots |-> 0]
        /\ copies = 0 /\ lost = 0 /\ fails = 0

Goto(t, l) == pc' = [pc EXCEPT ![t] = l]
CanCall(t) == pc[t] = "idle" /\ boot = NoThread

\* Mutant: nobody is signalled.
WakeNobody(s) == woken' = woken

(***************************************************************************)
(* pthread_cond_signal and pthread_cond_broadcast on an actor's condition  *)
(* variable: they reach the worker only if it is waiting at that moment.   *)
(***************************************************************************)
Wake(s) == woken' = [woken EXCEPT ![s] = @ \/ wk[s] = "wait"]

-----------------------------------------------------------------------------
(***************************************************************************)
(* The worker, from one wait to the next.  It stops when asked to; it      *)
(* never takes a message out of the mailbox.                               *)
(***************************************************************************)
WorkerLoop(s) ==
  /\ IF ~stop_req[s] /\ live[s]
       THEN /\ wk' = [wk EXCEPT ![s] = "wait"]
            /\ running' = [running EXCEPT ![s] = TRUE]
       ELSE /\ wk' = [wk EXCEPT ![s] = "exit"]
            /\ running' = [running EXCEPT ![s] = FALSE]
  /\ woken' = [woken EXCEPT ![s] = FALSE]
  /\ UNCHANGED <<live, stop_req, box, mutex, callVars, supVars, heapVars>>

WorkerStart(s) == wk[s] = "start" /\ WorkerLoop(s)

WorkerWake(s) == wk[s] = "wait" /\ woken[s] /\ WorkerLoop(s)

(***************************************************************************)
(* POSIX lets pthread_cond_wait return without a signal.                   *)
(***************************************************************************)
SpuriousWake(s) == wk[s] = "wait" /\ ~woken[s] /\ WorkerLoop(s)

-----------------------------------------------------------------------------
(***************************************************************************)
(* oo_actor_spawn takes the lowest free slot.  Whatever its mailbox still  *)
(* holds (after a restart that failed) is forgotten, not released.         *)
(***************************************************************************)
FirstFree(s) == ~live[s] /\ \A r \in 0 .. s - 1 : live[r]

Spawn(t, s) ==
  /\ CanCall(t) /\ FirstFree(s)
  /\ box' = [box EXCEPT ![s] = << >>]
  /\ lost' = lost + Len(box[s])
  /\ running' = [running EXCEPT ![s] = FALSE]
  /\ stop_req' = [stop_req EXCEPT ![s] = FALSE]
  /\ \/ /\ live' = [live EXCEPT ![s] = TRUE]
        /\ mutex' = [mutex EXCEPT ![s] = TRUE]
        /\ wk' = [wk EXCEPT ![s] = "start"]
        /\ fails' = fails
     \/ /\ fails < MaxFails   \* pthread_create fails: live again 0
        /\ fails' = fails + 1
        /\ UNCHANGED <<live, mutex, wk>>
  /\ UNCHANGED <<woken, callVars, supVars, copies>>

\* Mutant: no test for a full mailbox.
SendUnchecked(t, s, m) ==
  /\ CanCall(t) /\ live[s]
  /\ copies < MaxCopies
  /\ box' = [box EXCEPT ![s] = Append(@, m)]
  /\ copies' = copies + 1
  /\ Wake(s)
  /\ UNCHANGED <<live, running, stop_req, wk, mutex, callVars, supVars, lost, fails>>

(***************************************************************************)
(* oo_actor_send queues a copy of its own; a full mailbox refuses it.      *)
(***************************************************************************)
Send(t, s, m) ==
  /\ CanCall(t) /\ live[s] /\ Len(box[s]) < Depth
  /\ copies < MaxCopies
  /\ box' = [box EXCEPT ![s] = Append(@, m)]
  /\ copies' = copies + 1
  /\ Wake(s)
  /\ UNCHANGED <<live, running, stop_req, wk, mutex, callVars, supVars, lost, fails>>

\* Mutants: the newest copy is handed out; the mailbox keeps the copy.
RecvNewest(t, s) ==
  /\ CanCall(t) /\ live[s] /\ box[s] # << >>
  /\ box' = [box EXCEPT ![s] = SubSeq(@, 1, Len(@) - 1)]
  /\ copies' = copies - 1
  /\ UNCHANGED <<live, running, stop_req, wk, woken, mutex, callVars, supVars, lost, fails>>

RecvPeeks(t, s) ==
  /\ CanCall(t) /\ live[s] /\ box[s] # << >>
  /\ copies' = copies - 1
  /\ UNCHANGED <<slotVars, callVars, supVars, lost, fails>>

(***************************************************************************)
(* oo_actor_recv hands the oldest copy to the caller, who owns it then.    *)
(***************************************************************************)
Recv(t, s) ==
  /\ CanCall(t) /\ live[s] /\ box[s] # << >>
  /\ box' = [box EXCEPT ![s] = Tail(@)]
  /\ copies' = copies - 1
  /\ UNCHANGED <<live, running, stop_req, wk, woken, mutex, callVars, supVars, lost, fails>>

-----------------------------------------------------------------------------
\* Mutant: g_act_boot is released before the join.
StopWorkerUnlocked(t, s, next) ==
  /\ live[s]
  /\ stop_req' = [stop_req EXCEPT ![s] = TRUE]
  /\ Wake(s)
  /\ arg' = [arg EXCEPT ![t] = s]
  /\ Goto(t, next)
  /\ UNCHANGED <<live, running, box, wk, mutex, boot, supVars, heapVars>>

(***************************************************************************)
(* oo_actor_destroy and oo_actor_restart begin alike: under g_act_boot and *)
(* the actor's mutex, ask the worker to stop and wake it, then wait for    *)
(* its end in pthread_join, still holding g_act_boot.                      *)
(***************************************************************************)
StopWorker(t, s, next) ==
  /\ live[s]
  /\ stop_req' = [stop_req EXCEPT ![s] = TRUE]
  /\ Wake(s)
  /\ boot' = t
  /\ arg' = [arg EXCEPT ![t] = s]
  /\ Goto(t, next)
  /\ UNCHANGED <<live, running, box, wk, mutex, supVars, heapVars>>

Join(t, from, next) ==
  /\ pc[t] = from
  /\ wk[arg[t]] = "exit"
  /\ wk' = [wk EXCEPT ![arg[t]] = "none"]
  /\ Goto(t, next)
  /\ UNCHANGED <<live, running, stop_req, box, woken, mutex, boot, arg, supVars, heapVars>>

\* Mutant: the worker is not joined.
DestroyStopNoJoin(t, s) == CanCall(t) /\ StopWorker(t, s, "destroy")

DestroyStop(t, s) == CanCall(t) /\ StopWorker(t, s, "destroy_join")

DestroyJoin(t) == Join(t, "destroy_join", "destroy")

(***************************************************************************)
(* With the worker gone, destroy releases what is queued, frees the slot   *)
(* and destroys the mutex.                                                 *)
(***************************************************************************)
DestroyDrain(t) ==
  LET s == arg[t] IN
  /\ pc[t] = "destroy"
  /\ copies' = copies - Len(box[s])
  /\ box' = [box EXCEPT ![s] = << >>]
  /\ live' = [live EXCEPT ![s] = FALSE]
  /\ running' = [running EXCEPT ![s] = FALSE]
  /\ stop_req' = [stop_req EXCEPT ![s] = FALSE]
  /\ mutex' = [mutex EXCEPT ![s] = FALSE]
  /\ boot' = NoThread
  /\ arg' = [arg EXCEPT ![t] = 0]
  /\ Goto(t, "idle")
  /\ UNCHANGED <<wk, woken, supVars, lost, fails>>

RestartStop(t, s) == CanCall(t) /\ StopWorker(t, s, "restart_join")

RestartJoin(t) == Join(t, "restart_join", "restart")

(***************************************************************************)
(* With the old worker gone, restart starts a new one on the same mailbox. *)
(* If that fails the actor is dead: its slot is free, its mutex destroyed, *)
(* its mailbox left as it is.                                              *)
(***************************************************************************)
RestartCreate(t) ==
  LET s == arg[t] IN
  /\ pc[t] = "restart"
  /\ stop_req' = [stop_req EXCEPT ![s] = FALSE]
  /\ running' = [running EXCEPT ![s] = TRUE]
  /\ \/ /\ wk' = [wk EXCEPT ![s] = "start"]
        /\ restarts' = [restarts EXCEPT ![s] = IF t \in sup THEN @ + 1 ELSE @]
        /\ UNCHANGED <<live, mutex, fails>>
     \/ /\ fails < MaxFails
        /\ fails' = fails + 1
        /\ live' = [live EXCEPT ![s] = FALSE]
        /\ mutex' = [mutex EXCEPT ![s] = FALSE]
        /\ UNCHANGED <<wk, restarts>>
  /\ boot' = NoThread
  /\ arg' = [arg EXCEPT ![t] = 0]
  /\ Goto(t, "idle")
  /\ sup' = sup \ {t}
  /\ UNCHANGED <<box, woken, once, copies, lost>>

-----------------------------------------------------------------------------
\* Mutant: the once flag is tested and not set.
SuperviseAgain(t, s) ==
  /\ CanCall(t) /\ ~once[s] /\ live[s] /\ restarts[s] < 2
  /\ arg' = [arg EXCEPT ![t] = s]
  /\ Goto(t, "supervise")
  /\ sup' = sup \cup {t}
  /\ UNCHANGED <<slotVars, boot, once, restarts, heapVars>>

(***************************************************************************)
(* oo_otp_supervise: under g_act_boot, test and set the slot's once flag   *)
(* (a flag that is set refuses the call; nothing ever clears it); then,    *)
(* without the lock, call oo_actor_restart.                                *)
(***************************************************************************)
Supervise(t, s) ==
  /\ CanCall(t) /\ ~once[s] /\ live[s]
  /\ once' = [once EXCEPT ![s] = TRUE]
  /\ arg' = [arg EXCEPT ![t] = s]
  /\ Goto(t, "supervise")
  /\ sup' = sup \cup {t}
  /\ UNCHANGED <<slotVars, boot, restarts, heapVars>>

SuperviseRestart(t) ==
  /\ pc[t] = "supervise" /\ boot = NoThread
  /\ StopWorker(t, arg[t], "restart_join")

(***************************************************************************)
(* The actor was destroyed between the two critical sections.              *)
(***************************************************************************)
SuperviseGone(t) ==
  /\ pc[t] = "supervise" /\ boot = NoThread
  /\ ~live[arg[t]]
  /\ arg' = [arg EXCEPT ![t] = 0]
  /\ Goto(t, "idle")
  /\ sup' = sup \ {t}
  /\ UNCHANGED <<slotVars, boot, once, restarts, heapVars>>

-----------------------------------------------------------------------------
Worker(s) == WorkerStart(s) \/ WorkerWake(s)

(***************************************************************************)
(* The steps of a call that already holds g_act_boot.                      *)
(***************************************************************************)
Finish(t) == DestroyJoin(t) \/ DestroyDrain(t) \/ RestartJoin(t) \/ RestartCreate(t)

Next == \/ \E s \in Slots : Worker(s) \/ SpuriousWake(s)
        \/ \E t \in Threads :
             \/ \E s \in Slots : \/ Spawn(t, s) \/ Recv(t, s)
                                 \/ DestroyStop(t, s) \/ RestartStop(t, s)
                                 \/ Supervise(t, s)
                                 \/ \E m \in Msgs : Send(t, s, m)
             \/ SuperviseRestart(t) \/ SuperviseGone(t)
             \/ Finish(t)

Spec == Init /\ [][Next]_vars

(***************************************************************************)
(* The scheduler runs every thread that can run: a worker that has been    *)
(* started or signalled, and a caller past its lock.                       *)
(***************************************************************************)
Fairness == /\ \A s \in Slots : WF_vars(Worker(s))
            /\ \A t \in Threads : WF_vars(Finish(t))

FairSpec == Spec /\ Fairness

-----------------------------------------------------------------------------
(***************************************************************************)
(* A worker never outlives its actor: while it has not been joined its     *)
(* slot is live (so spawn cannot reuse it) and its mutex initialised, and  *)
(* pthread_create never overwrites the handle of an unjoined worker.       *)
(***************************************************************************)
WorkerInLiveSlot ==
  /\ \A s \in Slots : wk[s] # "none" => live[s] /\ mutex[s]
  /\ \A t \in Threads : pc[t] = "restart" => wk[arg[t]] = "none"

(***************************************************************************)
(* A live actor has a worker that runs and was not asked to stop, except   *)
(* while the holder of g_act_boot is replacing or ending that worker.      *)
(***************************************************************************)
LiveActorHasWorker ==
  \A s \in Slots :
    live[s] /\ (wk[s] \in {"none", "exit"} \/ stop_req[s]) =>
      \E t \in Threads : boot = t /\ arg[t] = s /\ pc[t] # "supervise"

(***************************************************************************)
(* However many threads supervise an actor at once, at most one of them    *)
(* restarts it, in the whole life of its slot.                             *)
(***************************************************************************)
SuperviseOnce == \A s \in Slots : restarts[s] =< 1

(***************************************************************************)
(* The inductive invariant: the holder of g_act_boot is the thread inside  *)
(* destroy or restart, its actor is live, and past the join its worker is  *)
(* gone; a thread in supervise owns the slot's once flag alone.            *)
(***************************************************************************)
Holding == {"destroy_join", "destroy", "restart_join", "restart"}

BootHolder ==
  \A t \in Threads :
    /\ pc[t] \in Holding <=> boot = t
    /\ pc[t] \in Holding => live[arg[t]] /\ stop_req[arg[t]]
    /\ pc[t] \in {"destroy", "restart"} => wk[arg[t]] = "none"

MutexWithActor == \A s \in Slots : live[s] <=> mutex[s]

OnceOwner ==
  /\ \A t \in Threads : pc[t] \in {"idle", "destroy_join", "destroy"} => t \notin sup
  /\ \A t \in sup : once[arg[t]] /\ restarts[arg[t]] = 0
  /\ \A t, u \in sup : arg[t] = arg[u] => t = u
  /\ \A s \in Slots : ~once[s] => restarts[s] = 0

IInv == /\ TypeOK /\ BootHolder /\ MutexWithActor /\ WorkerInLiveSlot
        /\ LiveActorHasWorker /\ OnceOwner /\ SuperviseOnce

\* How many copies each mailbox holds.
QueuedCopies == [s \in Slots |-> Len(box[s])]

(***************************************************************************)
(* Every copy send made is in a mailbox, or was handed out by recv,        *)
(* released by destroy or dropped by the spawn that reuses the slot of a   *)
(* failed restart.                                                         *)
(***************************************************************************)
CopiesBalanced == copies = lost + SumFunction(QueuedCopies)

(***************************************************************************)
(* "Mailbox stays": as long as an actor lives, its mailbox changes only by *)
(* a send at its end or a receive at its front, restarts included.         *)
(***************************************************************************)
MailboxStays ==
  [][\A s \in Slots :
       live[s] /\ live'[s] => \/ box'[s] = box[s]
                              \/ \E m \in Msgs : box'[s] = Append(box[s], m)
                              \/ box[s] # << >> /\ box'[s] = Tail(box[s])]_vars

(***************************************************************************)
(* No wakeup is lost: a destroy or restart that waits in pthread_join      *)
(* returns, because the worker sees the stop request whether it was about  *)
(* to start, about to wait, or waiting.                                    *)
(***************************************************************************)
JoinReturns ==
  \A t \in Threads : (pc[t] \in {"destroy_join", "restart_join"}) ~> (pc[t] = "idle")
=============================================================================
