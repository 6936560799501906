------------------------------ MODULE NetFloor ------------------------------
(***************************************************************************)
(* The socket table of fs/os/netfloor*.c and the raw descriptors handed    *)
(* out by sys_epoll.c and sys_shm.c, over one kernel descriptor table.     *)
(* Every call runs on behalf of a thread of the program, one step per      *)
(* system call or critical section of g_net_mu.  A thread passes only      *)
(* handles that were returned to it (of any kind) and each one to close    *)
(* once; payload bytes, addresses and error texts are left out.            *)
(***************************************************************************)
EXTENDS Integers, FiniteSets, FiniteSetsExt

CONSTANTS NetThreads,   \* threads of the program
          NSlots,       \* OO_NET_SLOTS
          NFds          \* descriptors the process may have open

ASSUME NetAssumption == NSlots \in Nat \ {0} /\ NFds \in Nat

VARIABLES netKind,      \* g_net_kind
          netFd,        \* g_net_fd
          kfd,          \* the kernel's table: what each descriptor is
          sockfile,     \* the one unix path in use: NoFile, Stale or the descriptor bound to it
          npc,          \* where each thread is in its call
          nloc,         \* the locals of that call
          owned,        \* slots returned to each thread and not closed by it
          raw           \* raw descriptors returned to each thread and not closed by it

netVars == <<netKind, netFd, kfd, sockfile, npc, nloc, owned, raw>>

\* The five kind numbers, two of them equal: netfloor.c and netfloor_unix.c number apart.
EMPTY == 0
TCP == 1
TCP_LISTEN == 2
UDP == 3
UNIX_LISTEN == 3
UNIX == 4

Slots == 0 .. NSlots - 1
Fds == 0 .. NFds - 1
Free == "free"
NoFile == -1
Stale == -2
NoFd == -1

\* What socket(2) and accept(2) give to each call, and the kind its slot gets.
Makes == [tcp_bind |-> "tcp_listen", bind_udp |-> "udp", unix_bind |-> "unix_listen",
          tcp_connect |-> "tcp", unix_connect |-> "unix",
          tcp_accept |-> "tcp", unix_accept |-> "unix"]
KindOf == [tcp |-> TCP, tcp_listen |-> TCP_LISTEN, udp |-> UDP,
           unix_listen |-> UNIX_LISTEN, unix |-> UNIX]
\* The socket a call that takes a slot is meant for (want_kind in net_lookup).
Wants == [tcp_accept |-> "tcp_listen", unix_accept |-> "unix_listen", tcp_io |-> "tcp",
          unix_io |-> "unix", udp_io |-> "udp"]

NoLoc == [call |-> "none", fd |-> NoFd, slot |-> 0]

NetInit ==
  /\ netKind = [s \in Slots |-> EMPTY]
  /\ netFd = [s \in Slots |-> NoFd]
  /\ kfd = [f \in Fds |-> Free]
  /\ sockfile = NoFile
  /\ npc = [t \in NetThreads |-> "idle"]
  /\ nloc = [t \in NetThreads |-> NoLoc]
  /\ owned = [t \in NetThreads |-> {}]
  /\ raw = [t \in NetThreads |-> {}]

-----------------------------------------------------------------------------
FreeFds == {f \in Fds : kfd[f] = Free}

\* The kernel gives the lowest free descriptor.
Opened(f, what) == kfd' = [kfd EXCEPT ![f] = what]

\* close(2); a socket file outlives the socket bound to it.
Closed(f, file) ==
  /\ kfd' = IF f \in Fds THEN [kfd EXCEPT ![f] = Free] ELSE kfd
  /\ sockfile' = IF file = f /\ f \in Fds THEN Stale ELSE file

Return(t) ==
  /\ npc' = [npc EXCEPT ![t] = "idle"]
  /\ nloc' = [nloc EXCEPT ![t] = NoLoc]

Goto(t, l) == npc' = [npc EXCEPT ![t] = l]

(* The call passes its checks; unix_bind removes the file of a predecessor first. *)
NetCall(t, c) ==
  /\ npc[t] = "idle"
  /\ nloc' = [nloc EXCEPT ![t].call = c]
  /\ sockfile' = IF c = "unix_bind" THEN NoFile ELSE sockfile
  /\ Goto(t, "socket")
  /\ UNCHANGED <<netKind, netFd, kfd, owned, raw>>

oo_tcp_bind(t) == NetCall(t, "tcp_bind")
oo_bind_udp(t) == NetCall(t, "bind_udp")
oo_unix_bind(t) == NetCall(t, "unix_bind")
oo_tcp_connect(t) == NetCall(t, "tcp_connect")
oo_unix_connect(t) == NetCall(t, "unix_connect")

oo_unix_unlink(t) ==
  /\ npc[t] = "idle"
  /\ sockfile' = NoFile
  /\ UNCHANGED <<netKind, netFd, kfd, npc, nloc, owned, raw>>

NetSocket(t) ==
  /\ npc[t] = "socket"
  /\ \/ /\ FreeFds # {}
        /\ Opened(Min(FreeFds), Makes[nloc[t].call])
        /\ nloc' = [nloc EXCEPT ![t].fd = Min(FreeFds)]
        /\ Goto(t, "setup")
     \/ Return(t) /\ UNCHANGED kfd
  /\ UNCHANGED <<netKind, netFd, sockfile, owned, raw>>

(* bind or connect: on failure the socket is closed; a unix bind needs the path free. *)
NetSetup(t) ==
  /\ npc[t] = "setup"
  /\ LET f == nloc[t].fd IN
     \/ Closed(f, sockfile) /\ Return(t)
     \/ /\ nloc[t].call # "unix_bind"
        /\ Goto(t, "made")
        /\ UNCHANGED <<kfd, sockfile, nloc>>
     \/ /\ nloc[t].call = "unix_bind" /\ sockfile = NoFile
        /\ sockfile' = f
        /\ Goto(t, "listen")
        /\ UNCHANGED <<kfd, nloc>>
  /\ UNCHANGED <<netKind, netFd, owned, raw>>

(* chmod and listen of unix_bind: on failure close, then unlink the path, whoever holds it. *)
NetListen(t) ==
  /\ npc[t] = "listen"
  /\ \/ Goto(t, "made") /\ UNCHANGED <<kfd, sockfile, nloc>>
     \/ Closed(nloc[t].fd, NoFile) /\ Return(t)
  /\ UNCHANGED <<netKind, netFd, owned, raw>>

\* Mutant: with the table full the socket is forgotten.
net_alloc_slot_leaks(t) ==
  LET empty == {s \in Slots : netKind[s] = EMPTY}
      s == Min(empty)
  IN /\ npc[t] = "made"
     /\ IF empty # {}
        THEN /\ netFd' = [netFd EXCEPT ![s] = nloc[t].fd]
             /\ netKind' = [netKind EXCEPT ![s] = KindOf[Makes[nloc[t].call]]]
             /\ owned' = [owned EXCEPT ![t] = @ \cup {s}]
        ELSE UNCHANGED <<netFd, netKind, owned>>
     /\ Return(t)
     /\ UNCHANGED <<kfd, sockfile, raw>>

(* The first empty slot, under the lock; none left: close, and unlink for unix_bind. *)
net_alloc_slot(t) ==
  LET empty == {s \in Slots : netKind[s] = EMPTY}
      s == Min(empty)
      file == IF nloc[t].call = "unix_bind" THEN NoFile ELSE sockfile
  IN /\ npc[t] = "made"
     /\ \/ /\ empty # {}
           /\ netFd' = [netFd EXCEPT ![s] = nloc[t].fd]
           /\ netKind' = [netKind EXCEPT ![s] = KindOf[Makes[nloc[t].call]]]
           /\ owned' = [owned EXCEPT ![t] = @ \cup {s}]
           /\ UNCHANGED <<kfd, sockfile>>
        \/ /\ empty = {}
           /\ Closed(nloc[t].fd, file)
           /\ UNCHANGED <<netFd, netKind, owned>>
     /\ Return(t)
     /\ UNCHANGED raw

\* The slots a call's kind number lets through.
Fits(c, s) == netKind[s] = KindOf[Wants[c]]

(* Range, empty and kind tests under the lock; the descriptor is used after it is released. *)
net_lookup(t, c, s) ==
  /\ npc[t] = "idle" /\ s \in owned[t]
  /\ Fits(c, s)
  /\ nloc' = [nloc EXCEPT ![t] = [call |-> c, fd |-> netFd[s], slot |-> s]]
  /\ Goto(t, "use")
  /\ UNCHANGED <<netKind, netFd, kfd, sockfile, owned, raw>>

oo_tcp_accept(t, s) == net_lookup(t, "tcp_accept", s)
oo_unix_accept(t, s) == net_lookup(t, "unix_accept", s)
oo_tcp_write(t, s) == net_lookup(t, "tcp_io", s)
oo_tcp_read(t, s) == net_lookup(t, "tcp_io", s)
oo_udp_send(t, s) == net_lookup(t, "udp_io", s)
oo_udp_recv(t, s) == net_lookup(t, "udp_io", s)
oo_unix_write(t, s) == net_lookup(t, "unix_io", s)
oo_unix_read(t, s) == net_lookup(t, "unix_io", s)
oo_unix_read_timeout(t, s) == net_lookup(t, "unix_io", s)

(* accept(2) on a listener makes a connection; every other use leaves the table alone. *)
NetUse(t) ==
  /\ npc[t] = "use"
  /\ \/ /\ nloc[t].call \in {"tcp_accept", "unix_accept"}
        /\ kfd[nloc[t].fd] \in {"tcp_listen", "unix_listen"} /\ FreeFds # {}
        /\ Opened(Min(FreeFds), Makes[nloc[t].call])
        /\ nloc' = [nloc EXCEPT ![t].fd = Min(FreeFds)]
        /\ Goto(t, "made")
     \/ Return(t) /\ UNCHANGED kfd
  /\ UNCHANGED <<netKind, netFd, sockfile, owned, raw>>

(* tcp_close and unix_close take no lock: test, close, clear the descriptor, clear the kind. *)
NetClose(t, s) ==
  /\ npc[t] = "idle" /\ s \in owned[t]
  /\ netKind[s] # EMPTY
  /\ Closed(netFd[s], sockfile)
  /\ nloc' = [nloc EXCEPT ![t] = [call |-> "close", fd |-> NoFd, slot |-> s]]
  /\ owned' = [owned EXCEPT ![t] = @ \ {s}]
  /\ Goto(t, "clear_fd")
  /\ UNCHANGED <<netKind, netFd, raw>>

oo_tcp_close(t, s) == NetClose(t, s)
oo_unix_close(t, s) == NetClose(t, s)

NetClearFd(t) ==
  /\ npc[t] = "clear_fd"
  /\ netFd' = [netFd EXCEPT ![nloc[t].slot] = NoFd]
  /\ Goto(t, "clear_kind")
  /\ UNCHANGED <<netKind, kfd, sockfile, nloc, owned, raw>>

NetClearKind(t) ==
  /\ npc[t] = "clear_kind"
  /\ netKind' = [netKind EXCEPT ![nloc[t].slot] = EMPTY]
  /\ Return(t)
  /\ UNCHANGED <<netFd, kfd, sockfile, owned, raw>>

(* The calls below return the number itself, and the program closes it by that. *)
RawOpen(t) ==
  /\ npc[t] = "idle" /\ FreeFds # {}
  /\ Opened(Min(FreeFds), "raw")
  /\ raw' = [raw EXCEPT ![t] = @ \cup {Min(FreeFds)}]
  /\ UNCHANGED <<netKind, netFd, sockfile, npc, nloc, owned>>

oo_sys_epoll_create1(t) == RawOpen(t)
oo_sys_timerfd_create(t) == RawOpen(t)
oo_sys_eventfd(t) == RawOpen(t)
oo_memfd_create(t) == RawOpen(t)
oo_shm_open(t) == RawOpen(t)

RawClose(t, f) ==
  /\ npc[t] = "idle" /\ f \in raw[t]
  /\ Closed(f, sockfile)
  /\ raw' = [raw EXCEPT ![t] = @ \ {f}]
  /\ UNCHANGED <<netKind, netFd, npc, nloc, owned>>

oo_sys_close(t, f) == RawClose(t, f)
oo_close_fd(t, f) == RawClose(t, f)

NetNext == \E t \in NetThreads :
  \/ oo_tcp_bind(t) \/ oo_bind_udp(t) \/ oo_unix_bind(t) \/ oo_tcp_connect(t) \/ oo_unix_connect(t)
  \/ oo_unix_unlink(t)
  \/ NetSocket(t) \/ NetSetup(t) \/ NetListen(t) \/ net_alloc_slot(t)
  \/ \E s \in Slots :
       \/ oo_tcp_accept(t, s) \/ oo_unix_accept(t, s)
       \/ oo_tcp_write(t, s) \/ oo_tcp_read(t, s) \/ oo_udp_send(t, s) \/ oo_udp_recv(t, s)
       \/ oo_unix_write(t, s) \/ oo_unix_read(t, s) \/ oo_unix_read_timeout(t, s)
       \/ oo_tcp_close(t, s) \/ oo_unix_close(t, s)
  \/ NetUse(t) \/ NetClearFd(t) \/ NetClearKind(t)
  \/ oo_sys_epoll_create1(t) \/ oo_sys_timerfd_create(t) \/ oo_sys_eventfd(t)
  \/ oo_memfd_create(t) \/ oo_shm_open(t)
  \/ \E f \in Fds : oo_sys_close(t, f) \/ oo_close_fd(t, f)

NetSpec == NetInit /\ [][NetNext]_netVars
-----------------------------------------------------------------------------
\* Slots whose descriptor somebody has closed and not yet cleared.
Closing == {nloc[t].slot : t \in {u \in NetThreads : npc[u] \in {"clear_fd", "clear_kind"}}}

\* Who answers for an open descriptor.
Holders(f) ==
  {<<s, "slot">> : s \in {r \in Slots \ Closing : netKind[r] # EMPTY /\ netFd[r] = f}}
    \cup {<<t, "call">> : t \in {u \in NetThreads : npc[u] \in {"setup", "listen", "made"} /\ nloc[u].fd = f}}
    \cup {<<t, "raw">> : t \in {u \in NetThreads : f \in raw[u]}}

(***************************************************************************)
(* A descriptor is open exactly while one party answers for it: a slot     *)
(* nobody is closing, a call that has not yet stored it, or the program;   *)
(* and the socket file, if any, is that of a live listener or is stale.    *)
(* About the close on every failure path and the unlocked close, which     *)
(* races with net_alloc_slot of another thread reusing slot and number.    *)
(***************************************************************************)
DescriptorHasOneHolder ==
  /\ \A f \in Fds : Cardinality(Holders(f)) = (IF kfd[f] = Free THEN 0 ELSE 1)
  /\ \A s \in Slots \ Closing : netKind[s] # EMPTY => netFd[s] \in Fds /\ KindOf[kfd[netFd[s]]] = netKind[s]
  /\ sockfile \in Fds => kfd[sockfile] = "unix_listen"
=============================================================================
