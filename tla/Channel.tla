------------------------------ MODULE Channel ------------------------------
(***************************************************************************)
(* The channel table of app/actor/actor_channel.c: NSlots rings of Depth   *)
(* messages.  channel_new and channel_destroy hold the table lock          *)
(* g_ch_boot, and take the slot's own mutex inside it; channel_send and    *)
(* channel_recv take the slot's mutex only.  A section under a slot's      *)
(* mutex touches nothing that another thread reaches without that mutex    *)
(* (ch_alloc_slot reads live under g_ch_boot, and live is written under    *)
(* both), so it is one step; the table lock is held across two steps.      *)
(*                                                                         *)
(* Every message is a reference-counted string (core/str/str.c): rc counts *)
(* its references, own those the callers hold.  send stores one reference  *)
(* of its own in the ring, recv hands that reference to the receiver, and  *)
(* destroy releases those still queued.                                    *)
(***************************************************************************)
EXTENDS Integers, Sequences, FiniteSets, FiniteSetsExt

CONSTANTS Threads,   \* threads that call the API
          NSlots,    \* OO_CH_SLOTS
          Depth,     \* OO_CH_QDEPTH
          Msgs,      \* message strings
          MaxRefs,   \* bound: references to one string
          NoThread, Null, Closed

ASSUME NSlotsAssumption == NSlots \in Nat \ {0}
ASSUME DepthAssumption  == Depth \in Nat \ {0}
ASSUME NullAssumption   == Null \notin Msgs
ASSUME ClosedAssumption == Closed \notin Seq(Msgs)
ASSUME NoThreadAssumption == NoThread \notin Threads
ASSUME ThreadsAssumption  == IsFiniteSet(Threads)

Slots == 0 .. NSlots - 1
Ring  == 0 .. Depth - 1

VARIABLES live, head, tail, count, msgs,  \* struct OoChannel, per slot
          boot,                           \* holder of g_ch_boot
          pc, arg,                        \* where each thread is, and its slot
          ret,                            \* result of the call that returned last
          rc, own                         \* references: in all, and per thread

ringVars == <<live, head, tail, count, msgs>>
refVars  == <<rc, own>>
vars == <<live, head, tail, count, msgs, boot, pc, arg, ret, rc, own>>

Ok(v)  == [ok |-> TRUE,  val |-> v]
Err(v) == [ok |-> FALSE, val |-> v]
Opened(s) == [ok |-> TRUE, slot |-> s]
Results ==      {Ok(v) : v \in {"none", "sent", "destroyed"} \cup Msgs}
           \cup {Opened(s) : s \in Slots}
           \cup {Err(v) : v \in {"no free slot", "bad slot", "empty slot",
                                 "full", "empty"}}

TypeOK == /\ live  \in [Slots -> BOOLEAN]
          /\ head  \in [Slots -> Ring]
          /\ tail  \in [Slots -> Ring]
          /\ count \in [Slots -> 0 .. Depth]
          /\ msgs  \in [Slots -> [Ring -> Msgs \cup {Null}]]
          /\ boot  \in Threads \cup {NoThread}
          /\ pc    \in [Threads -> {"idle", "new", "destroy"}]
          /\ arg   \in [Threads -> Slots]
          /\ ret   \in Results
          /\ rc    \in [Msgs -> Int]
          /\ own   \in [Threads -> [Msgs -> Int]]

Init == /\ live  = [s \in Slots |-> FALSE]
        /\ head  = [s \in Slots |-> 0]
        /\ tail  = [s \in Slots |-> 0]
        /\ count = [s \in Slots |-> 0]
        /\ msgs  = [s \in Slots |-> [i \in Ring |-> Null]]
        /\ boot  = NoThread
        /\ pc    = [t \in Threads |-> "idle"]
        /\ arg   = [t \in Threads |-> 0]
        /\ ret   = Ok("none")
        /\ rc    = [m \in Msgs |-> 1]
        /\ \E creator \in [Msgs -> Threads] :
             own = [t \in Threads |-> [m \in Msgs |-> IF creator[m] = t THEN 1 ELSE 0]]

Return(r) == ret' = r

\* Mutant: no modulus.
IdxNoWrap(h, k) == h + k

(***************************************************************************)
(* The ring position k places after position h.                            *)
(***************************************************************************)
Idx(h, k) == (h + k) % Depth

-----------------------------------------------------------------------------
\* Mutant: the flag of the slot itself is not looked at.
FirstFreeUnchecked(s) == \A r \in 0 .. s - 1 : live[r]

(***************************************************************************)
(* oo_channel_new.  ch_alloc_slot returns the lowest slot that is not      *)
(* live; the slot is set up under its own mutex and only then made live.   *)
(***************************************************************************)
FirstFree(s) == ~live[s] /\ \A r \in 0 .. s - 1 : live[r]

NewPick(t) ==
  /\ pc[t] = "idle" /\ boot = NoThread
  /\ \E s \in Slots : /\ FirstFree(s)
                      /\ arg' = [arg EXCEPT ![t] = s]
  /\ boot' = t
  /\ pc' = [pc EXCEPT ![t] = "new"]
  /\ UNCHANGED <<ringVars, refVars, ret>>

NewNoSlot(t) ==
  /\ pc[t] = "idle" /\ boot = NoThread
  /\ \A s \in Slots : live[s]
  /\ Return(Err("no free slot"))
  /\ UNCHANGED <<ringVars, refVars, boot, pc, arg>>

NewOpen(t) ==
  LET s == arg[t] IN
  /\ pc[t] = "new"
  /\ head'  = [head  EXCEPT ![s] = 0]
  /\ tail'  = [tail  EXCEPT ![s] = 0]
  /\ count' = [count EXCEPT ![s] = 0]
  /\ live'  = [live  EXCEPT ![s] = TRUE]
  /\ boot' = NoThread
  /\ pc' = [pc EXCEPT ![t] = "idle"]
  /\ arg' = [arg EXCEPT ![t] = 0]
  /\ Return(Opened(s))
  /\ UNCHANGED <<msgs, refVars>>

-----------------------------------------------------------------------------
\* Mutant: no test for a full ring.
SendUnchecked(t, s, m) ==
  /\ pc[t] = "idle" /\ live[s]
  /\ own[t][m] > 0 /\ rc[m] < MaxRefs
  /\ rc' = [rc EXCEPT ![m] = @ + 1]
  /\ msgs'  = [msgs  EXCEPT ![s][tail[s]] = m]
  /\ tail'  = [tail  EXCEPT ![s] = Idx(@, 1)]
  /\ count' = [count EXCEPT ![s] = @ + 1]
  /\ Return(Ok("sent"))
  /\ UNCHANGED <<live, head, boot, pc, arg, own>>

(***************************************************************************)
(* oo_channel_send: a caller passes a string it holds a reference to; the  *)
(* ring keeps a reference of its own.                                      *)
(***************************************************************************)
Send(t, s, m) ==
  /\ pc[t] = "idle" /\ live[s] /\ count[s] < Depth
  /\ own[t][m] > 0 /\ rc[m] < MaxRefs
  /\ rc' = [rc EXCEPT ![m] = @ + 1]
  /\ msgs'  = [msgs  EXCEPT ![s][tail[s]] = m]
  /\ tail'  = [tail  EXCEPT ![s] = Idx(@, 1)]
  /\ count' = [count EXCEPT ![s] = @ + 1]
  /\ Return(Ok("sent"))
  /\ UNCHANGED <<live, head, boot, pc, arg, own>>

SendFull(t, s) ==
  /\ pc[t] = "idle" /\ live[s] /\ count[s] >= Depth
  /\ Return(Err("full"))
  /\ UNCHANGED <<ringVars, refVars, boot, pc, arg>>

\* Mutant: head stays where it is.
RecvKeepsHead(t, s) ==
  LET m == msgs[s][head[s]] IN
  /\ pc[t] = "idle" /\ live[s] /\ count[s] > 0 /\ m # Null
  /\ own'   = [own   EXCEPT ![t][m] = @ + 1]
  /\ msgs'  = [msgs  EXCEPT ![s][head[s]] = Null]
  /\ count' = [count EXCEPT ![s] = @ - 1]
  /\ Return(Ok(m))
  /\ UNCHANGED <<live, head, tail, boot, pc, arg, rc>>

(***************************************************************************)
(* oo_channel_recv: the reference moves from the ring to the caller.       *)
(***************************************************************************)
Recv(t, s) ==
  LET m == msgs[s][head[s]] IN
  /\ pc[t] = "idle" /\ live[s] /\ count[s] > 0
  /\ own'   = [own   EXCEPT ![t][m] = @ + 1]
  /\ msgs'  = [msgs  EXCEPT ![s][head[s]] = Null]
  /\ head'  = [head  EXCEPT ![s] = Idx(@, 1)]
  /\ count' = [count EXCEPT ![s] = @ - 1]
  /\ Return(Ok(m))
  /\ UNCHANGED <<live, tail, boot, pc, arg, rc>>

RecvEmpty(t, s) ==
  /\ pc[t] = "idle" /\ live[s] /\ count[s] <= 0
  /\ Return(Err("empty"))
  /\ UNCHANGED <<ringVars, refVars, boot, pc, arg>>

-----------------------------------------------------------------------------
(***************************************************************************)
(* oo_channel_destroy: under both locks, every queued reference is         *)
(* released and the indices go back to zero.  The ring entries keep their  *)
(* old contents.                                                           *)
(***************************************************************************)
Occupied(s) == {i \in Ring : \E k \in Ring : k < count[s] /\ i = Idx(head[s], k)}
Queued(s, m) == {i \in Occupied(s) : msgs[s][i] = m}

DestroyLock(t, s) ==
  /\ pc[t] = "idle" /\ boot = NoThread
  /\ boot' = t
  /\ arg' = [arg EXCEPT ![t] = s]
  /\ pc' = [pc EXCEPT ![t] = "destroy"]
  /\ UNCHANGED <<ringVars, refVars, ret>>

\* Mutant: the queued references are not released.
DestroyForgets(t) ==
  LET s == arg[t] IN
  /\ pc[t] = "destroy" /\ live[s]
  /\ live'  = [live  EXCEPT ![s] = FALSE]
  /\ count' = [count EXCEPT ![s] = 0]
  /\ head'  = [head  EXCEPT ![s] = 0]
  /\ tail'  = [tail  EXCEPT ![s] = 0]
  /\ boot' = NoThread
  /\ pc' = [pc EXCEPT ![t] = "idle"]
  /\ arg' = [arg EXCEPT ![t] = 0]
  /\ Return(Ok("destroyed"))
  /\ UNCHANGED <<msgs, own, rc>>

DestroyDrain(t) ==
  LET s == arg[t] IN
  /\ pc[t] = "destroy" /\ live[s]
  /\ rc' = [m \in Msgs |-> rc[m] - Cardinality(Queued(s, m))]
  /\ live'  = [live  EXCEPT ![s] = FALSE]
  /\ count' = [count EXCEPT ![s] = 0]
  /\ head'  = [head  EXCEPT ![s] = 0]
  /\ tail'  = [tail  EXCEPT ![s] = 0]
  /\ boot' = NoThread
  /\ pc' = [pc EXCEPT ![t] = "idle"]
  /\ arg' = [arg EXCEPT ![t] = 0]
  /\ Return(Ok("destroyed"))
  /\ UNCHANGED <<msgs, own>>

DestroyEmpty(t) ==
  /\ pc[t] = "destroy" /\ ~live[arg[t]]
  /\ boot' = NoThread
  /\ pc' = [pc EXCEPT ![t] = "idle"]
  /\ arg' = [arg EXCEPT ![t] = 0]
  /\ Return(Err("empty slot"))
  /\ UNCHANGED <<ringVars, refVars>>

(***************************************************************************)
(* The early returns that send and recv share: a slot out of range, or one *)
(* that is not live (destroy also refuses a slot out of range).            *)
(***************************************************************************)
Refuse(t) ==
  /\ pc[t] = "idle"
  /\ \/ Return(Err("bad slot"))
     \/ (\E s \in Slots : ~live[s]) /\ Return(Err("empty slot"))
  /\ UNCHANGED <<ringVars, refVars, boot, pc, arg>>

(***************************************************************************)
(* A caller releases one of its own references (oo_str_release).           *)
(***************************************************************************)
Drop(t, m) ==
  /\ pc[t] = "idle" /\ own[t][m] > 0
  /\ own' = [own EXCEPT ![t][m] = @ - 1]
  /\ rc'  = [rc  EXCEPT ![m] = @ - 1]
  /\ UNCHANGED <<ringVars, boot, pc, arg, ret>>

-----------------------------------------------------------------------------
Next == \E t \in Threads :
          \/ NewPick(t) \/ NewNoSlot(t) \/ NewOpen(t)
          \/ \E s \in Slots, m \in Msgs : Send(t, s, m)
          \/ \E s \in Slots : \/ SendFull(t, s) \/ Recv(t, s) \/ RecvEmpty(t, s)
                              \/ DestroyLock(t, s)
          \/ DestroyDrain(t) \/ DestroyEmpty(t)
          \/ Refuse(t)
          \/ \E m \in Msgs : Drop(t, m)

Spec == Init /\ [][Next]_vars

-----------------------------------------------------------------------------
(***************************************************************************)
(* The ring is consistent: tail is count places after head, every queued   *)
(* entry holds a message, and a slot that is not live is empty.            *)
(***************************************************************************)
RingOK == \A s \in Slots :
            /\ tail[s] = Idx(head[s], count[s])
            /\ \A k \in Ring : k < count[s] => msgs[s][Idx(head[s], k)] \in Msgs
            /\ ~live[s] => count[s] = 0

(***************************************************************************)
(* The thread inside channel_new or channel_destroy is the holder of       *)
(* g_ch_boot, and the slot channel_new picked stays free until it opens it,*)
(* so that two concurrent channel_new calls never return the same slot.    *)
(***************************************************************************)
BootOK == \A t \in Threads : /\ pc[t] # "idle" <=> boot = t
                             /\ pc[t] = "new" => ~live[arg[t]]

(***************************************************************************)
(* What every call of actor_channel.c keeps, and what makes the other      *)
(* properties inductive: well-formed state, consistent rings, and one      *)
(* thread at a time opening or destroying channels.                        *)
(***************************************************************************)
IInv == TypeOK /\ RingOK /\ BootOK

\* The references each thread holds to m, and those each ring holds.
OwnRefs(m)  == [t \in Threads |-> own[t][m]]
RingRefs(m) == [s \in Slots |-> Cardinality(Queued(s, m))]

(***************************************************************************)
(* No reference to a message is lost or released twice, whatever the order *)
(* of sends, receives and destroys: the count in the string's header is    *)
(* the number of references the callers hold and the rings hold.           *)
(***************************************************************************)
RefsBalanced ==
  \A m \in Msgs : rc[m] = SumFunction(OwnRefs(m)) + SumFunction(RingRefs(m))

(***************************************************************************)
(* The rings implement the FIFO queues of ChannelSpec.                     *)
(***************************************************************************)
queue(s) == [k \in 1 .. count[s] |-> msgs[s][Idx(head[s], k - 1)]]
chanBar  == [s \in Slots |-> IF live[s] THEN queue(s) ELSE Closed]

CS == INSTANCE ChannelSpec WITH chan <- chanBar

ImplementsFifo == CS!Spec
=============================================================================
