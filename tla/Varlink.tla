------------------------------ MODULE Varlink -------------------------------
(***************************************************************************)
(* The unix-socket daemon of oo_tui_write ("daemon:") and its workers      *)
(* (app/xlang/tui_host.c): one loop over epoll, one detached thread per    *)
(* request.  Descriptor numbers are reused as soon as they are closed; a   *)
(* client is what connects and asks at most once.  The request text, the   *)
(* command a worker runs and its output are left out.                      *)
(***************************************************************************)
EXTENDS Integers, Sequences, FiniteSets, FiniteSetsExt

CONSTANTS Clients, NConns, NoClient

ASSUME VarlinkAssumption == NConns \in Nat /\ NoClient \notin Clients

VARIABLES client,      \* new, queued, open, asked, left (asked and hung up), gone (never asked), answered, refused
          conn,        \* which client each descriptor is connected to
          watched,     \* descriptors in the epoll set
          batch,       \* events the loop has fetched and not handled: descriptors, or Listen
          dpc,         \* the loop: poll, serve, inline (running a worker itself), off
          inl,         \* the descriptor of the worker it runs itself
          running,     \* s_daemon_running
          vlWorker       \* per descriptor: none, or <<step, the client that asked>>

vlVars == <<client, conn, watched, batch, dpc, inl, running, vlWorker>>

Conns == 1 .. NConns
Listen == 0
NoTask == <<"none", NoClient>>

VlInit ==
  /\ client = [k \in Clients |-> "new"]
  /\ conn = [f \in Conns |-> NoClient]
  /\ watched = {} /\ batch = <<>>
  /\ dpc = "poll" /\ inl = Listen /\ running = TRUE
  /\ vlWorker = [f \in Conns |-> NoTask]

FreeConns == {f \in Conns : conn[f] = NoClient}

\* close(f): the kernel takes it out of the epoll set, the number is free again.
ConnClosed(f) ==
  /\ conn' = [conn EXCEPT ![f] = NoClient]
  /\ watched' = watched \ {f}

(* A client connects, sends its request, or hangs up, whenever it likes. *)
ClientConnects(k) ==
  /\ client[k] = "new" /\ dpc # "off"
  /\ client' = [client EXCEPT ![k] = "queued"]
  /\ UNCHANGED <<conn, watched, batch, dpc, inl, running, vlWorker>>

ClientMoves(k) ==
  /\ \/ client[k] = "open" /\ \E s \in {"asked", "gone"} : client' = [client EXCEPT ![k] = s]
     \/ client[k] = "asked" /\ client' = [client EXCEPT ![k] = "left"]
  /\ UNCHANGED <<conn, watched, batch, dpc, inl, running, vlWorker>>

\* What level-triggered epoll reports now.
Ready == {f \in watched : client[conn[f]] \in {"asked", "left", "gone"}}
         \cup (IF \E k \in Clients : client[k] = "queued" THEN {Listen} ELSE {})

(* epoll_wait; a signal that cleared s_daemon_running ends the loop at its head. *)
DaemonPoll ==
  /\ dpc = "poll"
  /\ IF running
     THEN /\ Ready # {}
          /\ \E order \in {s \in [1 .. Cardinality(Ready) -> Ready] : \A i, j \in DOMAIN s : s[i] = s[j] => i = j} :
               batch' = order
          /\ dpc' = "serve"
     ELSE dpc' = "off" /\ UNCHANGED batch
  /\ UNCHANGED <<client, conn, watched, inl, running, vlWorker>>

Stop ==
  /\ dpc # "off" /\ running
  /\ running' = FALSE
  /\ UNCHANGED <<client, conn, watched, batch, dpc, inl, vlWorker>>

Rest == /\ batch' = Tail(batch)
        /\ dpc' = IF Len(batch) = 1 THEN "poll" ELSE "serve"

(* accept4 and the check of the peer's user; no descriptor left: nothing happens. *)
DaemonAccept ==
  /\ dpc = "serve" /\ Head(batch) = Listen
  /\ \/ \E k \in Clients :
          /\ client[k] = "queued"
          /\ \/ /\ FreeConns # {}
                /\ client' = [client EXCEPT ![k] = "open"]
                /\ conn' = [conn EXCEPT ![Min(FreeConns)] = k]
                /\ watched' = watched \cup {Min(FreeConns)}
             \/ /\ client' = [client EXCEPT ![k] = "refused"]
                /\ UNCHANGED <<conn, watched>>
     \/ FreeConns = {} /\ UNCHANGED <<client, conn, watched>>
  /\ Rest
  /\ UNCHANGED <<inl, running, vlWorker>>

(* The peer hung up: remove and close. *)
DaemonHangup ==
  /\ dpc = "serve" /\ Head(batch) # Listen
  /\ client[conn[Head(batch)]] = "gone"
  /\ ConnClosed(Head(batch))
  /\ Rest
  /\ UNCHANGED <<client, inl, running, vlWorker>>

\* Mutant: the descriptor stays in the epoll set when a worker gets it.
DaemonRequestWatched ==
  LET f == Head(batch) IN
  /\ dpc = "serve" /\ f # Listen
  /\ client[conn[f]] \in {"asked", "left"}
  /\ vlWorker' = [vlWorker EXCEPT ![f] = <<"run", conn[f]>>]
  /\ Rest
  /\ UNCHANGED <<client, conn, watched, inl, running>>

(* A request: out of the epoll set, then a detached worker owns the        *)
(* descriptor; without memory it is closed, without a thread the loop runs *)
(* the worker itself.                                                      *)
DaemonRequest ==
  LET f == Head(batch) IN
  /\ dpc = "serve" /\ f # Listen
  /\ client[conn[f]] \in {"asked", "left"}
  /\ \/ /\ vlWorker' = [vlWorker EXCEPT ![f] = <<"run", conn[f]>>]
        /\ watched' = watched \ {f}
        /\ Rest /\ UNCHANGED <<conn, inl>>
     \/ /\ vlWorker' = [vlWorker EXCEPT ![f] = <<"run", conn[f]>>]
        /\ watched' = watched \ {f}
        /\ dpc' = "inline" /\ inl' = f /\ UNCHANGED <<conn, batch>>
     \/ ConnClosed(f) /\ Rest /\ UNCHANGED <<vlWorker, inl>>
  /\ UNCHANGED <<client, running>>

(* The child has answered (or no pipe could be made): write to efd. *)
WorkerAnswers(f) ==
  /\ vlWorker[f][1] = "run"
  /\ vlWorker' = [vlWorker EXCEPT ![f] = <<"close", @[2]>>]
  /\ \/ /\ conn[f] # NoClient
        /\ client' = [client EXCEPT ![conn[f]] = IF @ = "asked" THEN "answered" ELSE @]
     \/ UNCHANGED client
  /\ UNCHANGED <<conn, watched, batch, dpc, inl, running>>

\* Mutant: the worker ends without closing its descriptor.
WorkerLeaks(f) ==
  /\ vlWorker[f][1] = "close"
  /\ vlWorker' = [vlWorker EXCEPT ![f] = NoTask]
  /\ IF dpc = "inline" /\ inl = f THEN Rest ELSE UNCHANGED <<dpc, batch>>
  /\ UNCHANGED <<client, conn, watched, inl, running>>

WorkerCloses(f) ==
  /\ vlWorker[f][1] = "close"
  /\ vlWorker' = [vlWorker EXCEPT ![f] = NoTask]
  /\ ConnClosed(f)
  /\ IF dpc = "inline" /\ inl = f THEN Rest ELSE UNCHANGED <<dpc, batch>>
  /\ UNCHANGED <<client, inl, running>>

VlNext ==
  \/ \E k \in Clients : ClientConnects(k) \/ ClientMoves(k)
  \/ DaemonPoll \/ Stop \/ DaemonAccept \/ DaemonHangup \/ DaemonRequest
  \/ \E f \in Conns : WorkerAnswers(f) \/ WorkerCloses(f)

(* The loop and every worker are scheduled. *)
VlFairness == /\ WF_vlVars(DaemonPoll \/ DaemonAccept \/ DaemonHangup \/ DaemonRequest)
              /\ \A f \in Conns : WF_vlVars(WorkerAnswers(f) \/ WorkerCloses(f))

VlSpec == VlInit /\ [][VlNext]_vlVars /\ VlFairness
-----------------------------------------------------------------------------
(***************************************************************************)
(* A worker answers the client whose request it was given, even though     *)
(* numbers are reused at once; and an open connection belongs to the epoll *)
(* set or to exactly one worker, never to both.  About EPOLL_CTL_DEL       *)
(* before the hand-over and the batch of events that outlives a close.     *)
(***************************************************************************)
AnswerToAsker == \A f \in Conns :
  /\ vlWorker[f] # NoTask => conn[f] = vlWorker[f][2]
  /\ conn[f] # NoClient => (f \in watched) # (vlWorker[f] # NoTask)
  /\ \A i \in 1 .. Len(batch) : batch[i] = f /\ (dpc = "serve" \/ i > 1) => f \in watched

(***************************************************************************)
(* While the daemon runs, every accepted request ends: the connection is   *)
(* closed.  About the four ways a request can go (worker, inline worker,   *)
(* no memory, hang-up) all closing the descriptor.                         *)
(***************************************************************************)
RequestsEnd == \A f \in Conns :
  (conn[f] # NoClient /\ client[conn[f]] \in {"asked", "left", "gone"}) ~> (conn[f] = NoClient \/ ~running)
=============================================================================
