---------------------------- MODULE ChannelSpec ----------------------------
(***************************************************************************)
(* What app/actor/actor_channel.c promises its callers: a table of slots,  *)
(* each closed or holding a bounded FIFO queue of messages, on which every *)
(* call takes effect at one instant.  There are no locks, no ring indices  *)
(* and no string references here.                                          *)
(***************************************************************************)
EXTENDS Integers, Sequences

CONSTANTS Slots,    \* slot numbers
          Depth,    \* messages one channel holds
          Msgs,     \* message strings
          Closed    \* contents of a slot that is not in use

VARIABLES chan,     \* slot |-> Closed or the queue, oldest message first
          ret       \* result of the call that returned last

absVars == <<chan, ret>>

Ok(v)  == [ok |-> TRUE,  val |-> v]
Err(v) == [ok |-> FALSE, val |-> v]
Opened(s) == [ok |-> TRUE, slot |-> s]

Init == /\ chan = [s \in Slots |-> Closed]
        /\ ret  = Ok("none")

(***************************************************************************)
(* channel_new opens some closed slot, and fails only if there is none.    *)
(***************************************************************************)
New ==
  \/ \E s \in Slots :
       /\ chan[s] = Closed
       /\ chan' = [chan EXCEPT ![s] = << >>]
       /\ ret'  = Opened(s)
  \/ /\ \A s \in Slots : chan[s] # Closed
     /\ ret' = Err("no free slot")
     /\ chan' = chan

Send(s, m) ==
  \/ /\ chan[s] # Closed /\ Len(chan[s]) < Depth
     /\ chan' = [chan EXCEPT ![s] = Append(@, m)]
     /\ ret'  = Ok("sent")
  \/ /\ chan[s] # Closed /\ Len(chan[s]) = Depth
     /\ ret'  = Err("full")
     /\ chan' = chan

Recv(s) ==
  \/ /\ chan[s] # Closed /\ chan[s] # << >>
     /\ ret'  = Ok(Head(chan[s]))
     /\ chan' = [chan EXCEPT ![s] = Tail(@)]
  \/ /\ chan[s] = << >>
     /\ ret'  = Err("empty")
     /\ chan' = chan

Destroy(s) == /\ chan[s] # Closed
              /\ chan' = [chan EXCEPT ![s] = Closed]
              /\ ret'  = Ok("destroyed")

(***************************************************************************)
(* send, recv and destroy refuse a slot that is closed or out of range.    *)
(***************************************************************************)
Refuse ==
  \/ ret' = Err("bad slot") /\ chan' = chan
  \/ /\ \E s \in Slots : chan[s] = Closed
     /\ ret' = Err("empty slot")
     /\ chan' = chan

Next == \/ New
        \/ \E s \in Slots, m \in Msgs : Send(s, m)
        \/ \E s \in Slots : Recv(s) \/ Destroy(s)
        \/ Refuse

Spec == Init /\ [][Next]_absVars
=============================================================================
